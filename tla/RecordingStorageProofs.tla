------------------------- MODULE RecordingStorageProofs -------------------------
(***************************************************************************)
(* The safety properties of RecordingStorage, for any number of parts,     *)
(* jobs and requests, any limits and whatever fails.                       *)
(***************************************************************************)
EXTENDS RecordingStorage, FiniteSetTheorems, WellFoundedInduction, SequenceTheorems, TLAPS

-----------------------------------------------------------------------------
(* Induction.  A set of naturals with no least member would give a set of  *)
(* intervals with no smallest one.                                         *)

LEMMA LeastNat ==
  ASSUME NEW S \in SUBSET Nat, S # {}
  PROVE  \E n \in S : \A m \in S : n <= m
<1> DEFINE T == {0 .. n : n \in S}
<1>1. T \subseteq FiniteSubsetsOf(Nat)
  <2>1. ASSUME NEW n \in S PROVE 0 .. n \in SUBSET Nat /\ IsFiniteSet(0 .. n)
    BY FS_Interval
  <2>2. QED
    BY <2>1 DEF FiniteSubsetsOf
<1>2. T # {}
  OBVIOUS
<1>3. IsWellFoundedOn(StrictSubsetOrdering(Nat), FiniteSubsetsOf(Nat))
  BY FS_StrictSubsetOrderingWellFounded
<1> HIDE DEF T
<1>4. PICK x \in T : \A y \in T : ~(<<y, x>> \in StrictSubsetOrdering(Nat))
  BY <1>1, <1>2, <1>3, WFMin
<1>5. PICK n \in S : x = 0 .. n
  BY <1>4 DEF T
<1>6. ASSUME NEW m \in S, m < n PROVE FALSE
  <2>1. 0 .. m \in T
    BY DEF T
  <2>2. (0 .. m) \subseteq (0 .. n) /\ n \in 0 .. n /\ n \notin 0 .. m
    BY <1>6
  <2>3. 0 .. m \in SUBSET Nat /\ 0 .. n \in SUBSET Nat
    OBVIOUS
  <2>4. <<0 .. m, 0 .. n>> \in StrictSubsetOrdering(Nat)
    BY <2>2, <2>3 DEF StrictSubsetOrdering
  <2>5. QED
    BY <1>4, <1>5, <2>1, <2>4
<1>7. QED
  BY <1>6

LEMMA Induct ==
  ASSUME NEW S, 0 \in S, \A n \in Nat : n \in S => n + 1 \in S
  PROVE  Nat \subseteq S
<1> DEFINE R == Nat \ S
<1>1. SUFFICES ASSUME R # {} PROVE FALSE
  OBVIOUS
<1>2. PICK n \in R : \A m \in R : n <= m
  BY <1>1, LeastNat
<1>3. n \in Nat /\ n # 0
  OBVIOUS
<1>4. n - 1 \in Nat /\ ~(n <= n - 1)
  BY <1>3
<1>5. n - 1 \in S
  BY <1>2, <1>4
<1>6. n - 1 + 1 = n
  BY <1>3
<1>7. QED
  BY <1>4, <1>5, <1>6

-----------------------------------------------------------------------------
(* The contents the jobs of a sequence leave                               *)

\* The images of c after 0, 1, ... n of the jobs of s.
Chain(g, c, s, f, n) ==
  /\ g = [i \in 0 .. n |-> g[i]] /\ g[0] = c
  /\ \A i \in 1 .. n : g[i] = After(g[i - 1], s[i], f)

\* There is such a chain of images, and only one: induction on its length.
LEMMA ChainExists ==
  ASSUME NEW c, NEW s, NEW f, NEW n \in Nat
  PROVE  \E g : Chain(g, c, s, f, n)
<1> DEFINE S == {m \in Nat : \E g : Chain(g, c, s, f, m)}
<1>1. 0 \in S
  <2> DEFINE g == [i \in 0 .. 0 |-> c]
  <2>1. Chain(g, c, s, f, 0)
    BY DEF Chain
  <2>2. QED
    BY <2>1
<1>2. ASSUME NEW m \in Nat, m \in S PROVE m + 1 \in S
  <2>1. PICK g : Chain(g, c, s, f, m)
    BY <1>2
  <2> DEFINE h == [i \in 0 .. m + 1 |-> IF i = m + 1 THEN After(g[m], s[m + 1], f) ELSE g[i]]
  <2>2. h = [i \in 0 .. m + 1 |-> h[i]] /\ h[0] = c
    BY <2>1 DEF Chain
  <2>3. ASSUME NEW i \in 1 .. m + 1 PROVE h[i] = After(h[i - 1], s[i], f)
    <3>1. CASE i = m + 1
      BY <3>1
    <3>2. CASE i \in 1 .. m
      <4>1. i # m + 1 /\ i - 1 # m + 1 /\ i \in 0 .. m + 1 /\ i - 1 \in 0 .. m + 1
        BY <3>2
      <4>2. h[i] = g[i] /\ h[i - 1] = g[i - 1]
        BY <4>1
      <4>3. g[i] = After(g[i - 1], s[i], f)
        BY <3>2, <2>1 DEF Chain
      <4>4. QED
        BY <4>2, <4>3
    <3>3. QED
      BY <3>1, <3>2
  <2>4. Chain(h, c, s, f, m + 1)
    <3> HIDE DEF h
    <3>1. QED
      BY <2>2, <2>3 DEF Chain
  <2>5. QED
    BY <2>4
<1> HIDE DEF S
<1>3. Nat \subseteq S
  BY <1>1, <1>2, Induct
<1>4. QED
  BY <1>3 DEF S

LEMMA ChainUnique ==
  ASSUME NEW c, NEW s, NEW f, NEW n \in Nat,
         NEW g, Chain(g, c, s, f, n), NEW h, Chain(h, c, s, f, n)
  PROVE  g[n] = h[n]
<1> DEFINE S == {m \in Nat : m <= n => g[m] = h[m]}
<1>1. 0 \in S
  BY DEF Chain
<1>2. ASSUME NEW m \in Nat, m \in S PROVE m + 1 \in S
  <2>1. CASE m + 1 <= n
    <3>1. m + 1 \in 1 .. n /\ (m + 1) - 1 = m /\ m <= n
      BY <2>1
    <3>2. g[m + 1] = After(g[m], s[m + 1], f) /\ h[m + 1] = After(h[m], s[m + 1], f)
      BY <3>1 DEF Chain
    <3>3. QED
      BY <1>2, <3>1, <3>2
  <2>2. CASE ~(m + 1 <= n)
    BY <2>2
  <2>3. QED
    BY <2>1, <2>2
<1> HIDE DEF S
<1>3. Nat \subseteq S
  BY <1>1, <1>2, Induct
<1>4. QED
  BY <1>3 DEF S

\* The recursive definition of Image is the last of the chain.
LEMMA ImageIs ==
  ASSUME NEW c, NEW s, Len(s) \in Nat, NEW f, NEW g, Chain(g, c, s, f, Len(s))
  PROVE  Image(c, s, f) = g[Len(s)]
<1> DEFINE n == Len(s)
           D(x) == x = [i \in 0 .. n |-> IF i = 0 THEN c ELSE After(x[i - 1], s[i], f)]
           h == CHOOSE x : D(x)
<1>1. Image(c, s, f) = h[n]
  BY DEF Image
<1>2. D(g)
  BY DEF Chain
<1>3. D(h)
  BY <1>2
<1>4. Chain(h, c, s, f, n)
  <2> HIDE DEF h
  <2>1. h = [i \in 0 .. n |-> IF i = 0 THEN c ELSE After(h[i - 1], s[i], f)]
    BY <1>3
  <2>2. h = [i \in 0 .. n |-> h[i]]
    BY <2>1
  <2>3. h[0] = c
    BY <2>1
  <2>4. ASSUME NEW i \in 1 .. n PROVE h[i] = After(h[i - 1], s[i], f)
    <3>1. i \in 0 .. n /\ i # 0
      OBVIOUS
    <3>2. QED
      BY <2>1, <3>1
  <2>5. QED
    BY <2>2, <2>3, <2>4 DEF Chain
<1>5. QED
  BY <1>1, <1>4, ChainUnique

LEMMA ImageOfNone ==
  ASSUME NEW c, NEW f
  PROVE  Image(c, <<>>, f) = c
<1>1. PICK g : Chain(g, c, <<>>, f, Len(<<>>))
  BY ChainExists
<1>2. g[0] = c
  BY <1>1 DEF Chain
<1>3. QED
  BY <1>1, <1>2, ImageIs

\* A job put at the end acts last, one taken from the front acts first.
LEMMA ImageOfAppend ==
  ASSUME NEW J, NEW s \in Seq(J), NEW j \in J, NEW c, NEW f
  PROVE  Image(c, Append(s, j), f) = After(Image(c, s, f), j, f)
<1>1. PICK n \in Nat : n = Len(s)
  OBVIOUS
<1>2. PICK t : t \in Seq(J) /\ t = Append(s, j)
  <2>1. Append(s, j) \in Seq(J)
    OBVIOUS
  <2>2. QED
    BY <2>1
<1>3. Len(t) = n + 1 /\ t[n + 1] = j /\ \A i \in 1 .. n : t[i] = s[i]
  BY <1>1, <1>2
<1>4. PICK g : Chain(g, c, t, f, n + 1)
  <2>1. n + 1 \in Nat
    OBVIOUS
  <2>2. QED
    BY <2>1, ChainExists
<1> DEFINE h == [i \in 0 .. n |-> g[i]]
<1>5. Chain(h, c, s, f, n)
  <2>1. h = [i \in 0 .. n |-> h[i]] /\ h[0] = c
    BY <1>4 DEF Chain
  <2>2. ASSUME NEW i \in 1 .. n PROVE h[i] = After(h[i - 1], s[i], f)
    <3>1. i \in 1 .. n + 1 /\ i \in 0 .. n /\ i - 1 \in 0 .. n
      OBVIOUS
    <3>2. g[i] = After(g[i - 1], t[i], f)
      BY <1>4, <3>1 DEF Chain
    <3>3. QED
      BY <1>3, <3>1, <3>2
  <2> HIDE DEF h
  <2>3. QED
    BY <2>1, <2>2 DEF Chain
<1>6. h[n] = g[n]
  OBVIOUS
<1>7. Image(c, s, f) = h[n]
  <2> HIDE DEF h
  <2>1. QED
    BY <1>1, <1>5, ImageIs
<1>8. Image(c, t, f) = g[n + 1]
  BY <1>3, <1>4, ImageIs
<1>9. g[n + 1] = After(g[n], j, f)
  <2>1. n + 1 \in 1 .. n + 1 /\ (n + 1) - 1 = n
    OBVIOUS
  <2>2. QED
    BY <1>3, <1>4, <2>1 DEF Chain
<1>10. QED
  BY <1>2, <1>6, <1>7, <1>8, <1>9

LEMMA ImageOfTail ==
  ASSUME NEW J, NEW s \in Seq(J), s # <<>>, NEW c, NEW f
  PROVE  Image(After(c, Head(s), f), Tail(s), f) = Image(c, s, f)
<1>1. PICK n \in Nat : Len(s) = n + 1
  BY s # <<>>
<1>2. PICK t : t \in Seq(J) /\ t = Tail(s)
  <2>1. Tail(s) \in Seq(J)
    OBVIOUS
  <2>2. QED
    BY <2>1
<1>3. Len(t) = n /\ Head(s) = s[1] /\ \A i \in 1 .. n : t[i] = s[i + 1]
  BY <1>1, <1>2
<1>4. PICK g : Chain(g, c, s, f, n + 1)
  <2>1. n + 1 \in Nat
    OBVIOUS
  <2>2. QED
    BY <2>1, ChainExists
<1> DEFINE h == [i \in 0 .. n |-> g[i + 1]]
           d == After(c, Head(s), f)
<1>5. g[1] = d
  <2>1. 1 \in 1 .. n + 1 /\ 1 - 1 = 0
    OBVIOUS
  <2>2. g[1] = After(g[0], s[1], f) /\ g[0] = c
    BY <1>4, <2>1 DEF Chain
  <2>3. QED
    BY <1>3, <2>2
<1>6. Chain(h, d, t, f, n)
  <2>1. h = [i \in 0 .. n |-> h[i]]
    OBVIOUS
  <2>2. h[0] = d
    BY <1>5
  <2>3. ASSUME NEW i \in 1 .. n PROVE h[i] = After(h[i - 1], t[i], f)
    <3>1. i + 1 \in 1 .. n + 1 /\ i \in 0 .. n /\ i - 1 \in 0 .. n /\ (i + 1) - 1 = i /\ (i - 1) + 1 = i
      OBVIOUS
    <3>2. g[i + 1] = After(g[i], s[i + 1], f)
      BY <1>4, <3>1 DEF Chain
    <3>3. h[i] = g[i + 1] /\ h[i - 1] = g[i]
      BY <3>1
    <3>4. QED
      BY <1>3, <3>2, <3>3
  <2> HIDE DEF h, d
  <2>4. QED
    BY <2>1, <2>2, <2>3 DEF Chain
<1>7. h[n] = g[n + 1]
  OBVIOUS
<1>8. Image(d, t, f) = h[n]
  <2> HIDE DEF h, d
  <2>1. QED
    BY <1>3, <1>6, ImageIs
<1>9. Image(c, s, f) = g[n + 1]
  BY <1>1, <1>4, ImageIs
<1>10. QED
  BY <1>2, <1>7, <1>8, <1>9

\* Jobs of other files, and those that change no bytes, leave the contents.
LEMMA ImageOfOthers ==
  ASSUME NEW s, Len(s) \in Nat, NEW c, NEW f,
         \A i \in 1 .. Len(s) : After(c, s[i], f) = c
  PROVE  Image(c, s, f) = c
<1>1. PICK n \in Nat : n = Len(s)
  OBVIOUS
<1> DEFINE g == [i \in 0 .. n |-> c]
<1>2. Chain(g, c, s, f, n)
  <2>1. g = [i \in 0 .. n |-> g[i]] /\ g[0] = c
    OBVIOUS
  <2>2. \A i \in 1 .. n : g[i] = After(g[i - 1], s[i], f)
    BY <1>1
  <2> HIDE DEF g
  <2>3. QED
    BY <2>1, <2>2 DEF Chain
<1>3. g[n] = c
  OBVIOUS
<1>4. QED
  <2> HIDE DEF g
  <2>1. QED
    BY <1>1, <1>2, <1>3, ImageIs

-----------------------------------------------------------------------------
(* The queue                                                               *)

LEMMA QueueIs ==
  ASSUME TypeOK, Numbered
  PROVE  /\ Pending \in Seq(Jobs) /\ Ahead \in Seq(Jobs) /\ jobs \in Seq(Jobs) /\ job \in Seq(Jobs)
         /\ Executed \in Int /\ done <= Executed /\ Executed <= issued
         /\ Executed = issued - Len(Ahead)
         /\ \A i \in DOMAIN Ahead : Ahead[i].sequence = Executed + i
<1>1. jobs \in Seq(Jobs) /\ job \in Seq(Jobs) /\ issued \in Nat /\ done \in Nat
  BY DEF TypeOK
<1>2. PICK a \in Seq(Jobs), b \in Seq(Jobs) : a = job /\ b = jobs
  BY <1>1
<1>3. Pending = a \o b /\ a \o b \in Seq(Jobs) /\ Len(a \o b) = Len(a) + Len(b)
  BY <1>2 DEF Pending
<1>4. /\ issued = done + Len(Pending)
      /\ \A i \in DOMAIN Pending : Pending[i].sequence = done + i
  BY DEF Numbered
<1>5. CASE storagePc = "execute"
  <2>1. Ahead = Pending
    BY <1>5 DEF Ahead
  <2>2. Executed = done
    BY <1>1, <1>3, <1>4, <2>1 DEF Executed
  <2>3. Executed <= issued
    BY <1>1, <1>3, <1>4, <2>2
  <2>4. QED
    BY <1>1, <1>3, <1>4, <2>1, <2>2, <2>3 DEF Executed
<1>6. CASE storagePc # "execute"
  <2>1. Ahead = b
    BY <1>2, <1>6 DEF Ahead
  <2>2. PICK n \in Nat, m \in Nat : n = Len(a) /\ m = Len(b)
    OBVIOUS
  <2>3. Executed = issued - m /\ issued = done + (n + m)
    BY <1>3, <1>4, <2>1, <2>2 DEF Executed
  <2>4. Executed = done + n
    BY <1>1, <2>3
  <2>5. ASSUME NEW i \in DOMAIN b PROVE b[i].sequence = Executed + i
    <3>1. i \in 1 .. m /\ n + i \in 1 .. n + m /\ (a \o b)[n + i] = b[i]
      BY <2>2
    <3>2. n + i \in DOMAIN (a \o b)
      BY <1>3, <2>2, <3>1
    <3>3. b[i].sequence = done + (n + i)
      BY <1>3, <1>4, <3>1, <3>2
    <3>4. QED
      BY <1>1, <2>4, <3>1, <3>3
  <2>6. done <= Executed /\ Executed <= issued /\ Executed \in Int
    BY <1>1, <2>3, <2>4
  <2>7. QED
    BY <1>1, <1>3, <2>1, <2>2, <2>3, <2>5, <2>6
<1>7. QED
  BY <1>5, <1>6

LEMMA AppendIs ==
  ASSUME NEW s \in Seq(Jobs), NEW j \in Jobs
  PROVE  /\ Append(s, j) \in Seq(Jobs) /\ Len(Append(s, j)) = Len(s) + 1 /\ Len(s) \in Nat
         /\ DOMAIN s = 1 .. Len(s) /\ DOMAIN Append(s, j) = 1 .. Len(s) + 1
         /\ Append(s, j)[Len(s) + 1] = j
         /\ \A i \in DOMAIN s : i \in DOMAIN Append(s, j) /\ Append(s, j)[i] = s[i]
         /\ \A i \in DOMAIN Append(s, j) : i \in DOMAIN s \/ i = Len(s) + 1
  OBVIOUS

LEMMA TailIs ==
  ASSUME NEW s \in Seq(Jobs), s # <<>>
  PROVE  /\ Tail(s) \in Seq(Jobs) /\ Len(s) \in Nat /\ Len(Tail(s)) = Len(s) - 1
         /\ 1 \in DOMAIN s /\ Head(s) = s[1] /\ s[1] \in Jobs /\ DOMAIN s = 1 .. Len(s)
         /\ \A i \in DOMAIN Tail(s) : i \in Nat /\ i > 0 /\ i + 1 \in DOMAIN s /\ Tail(s)[i] = s[i + 1]
         /\ \A i \in DOMAIN s : i # 1 => i - 1 \in DOMAIN Tail(s) /\ Tail(s)[i - 1] = s[i]
  OBVIOUS

\* The job in hand and those queued behind it.
LEMMA ConcatIs ==
  ASSUME NEW a \in Seq(Jobs), NEW b \in Seq(Jobs), Len(a) = 1
  PROVE  /\ Len(a \o b) = Len(b) + 1 /\ Len(b) \in Nat /\ (a \o b)[1] = a[1] /\ a[1] \in Jobs
         /\ \A i \in 1 .. Len(b) : (a \o b)[i + 1] = b[i]
<1>1. Len(b) \in Nat /\ a[1] \in Jobs
  <2>1. Len(b) \in Nat
    BY LenProperties
  <2>2. 1 \in 1 .. Len(a)
    OBVIOUS
  <2>3. QED
    BY <2>1, <2>2, ElementOfSeq
<1>2. /\ Len(a \o b) = Len(a) + Len(b)
      /\ \A i \in 1 .. Len(a) + Len(b) : (a \o b)[i] = IF i <= Len(a) THEN a[i] ELSE b[i - Len(a)]
  BY ConcatProperties
<1>3. /\ Len(a \o b) = Len(b) + 1
      /\ \A i \in 1 .. Len(b) + 1 : (a \o b)[i] = IF i <= 1 THEN a[i] ELSE b[i - 1]
  <2>1. Len(a) + Len(b) = Len(b) + 1
    BY <1>1
  <2>2. QED
    BY <1>2, <2>1
<1>4. (a \o b)[1] = a[1]
  BY <1>1, <1>3
<1>5. ASSUME NEW i \in 1 .. Len(b) PROVE (a \o b)[i + 1] = b[i]
  <2>1. i + 1 \in 1 .. Len(b) + 1 /\ ~(i + 1 <= 1) /\ (i + 1) - 1 = i
    BY <1>1
  <2>2. QED
    BY <1>3, <2>1
<1>6. QED
  BY <1>1, <1>3, <1>4, <1>5

\* A job is put by one of the callers; the storage thread does nothing.
Puts(j) ==
  /\ j \in Jobs /\ j.sequence = issued + 1 /\ Put(j)
  /\ UNCHANGED <<job, storagePc>>

LEMMA PutIs ==
  ASSUME TypeOK, Numbered, NEW j, Puts(j)
  PROVE  /\ jobs' = Append(jobs, j) /\ Pending' = Append(Pending, j) /\ Ahead' = Append(Ahead, j)
         /\ Executed' = Executed /\ issued' = issued + 1 /\ issued' \in Nat /\ jobs' \in Seq(Jobs)
         /\ done' = done /\ j \in Jobs /\ j.sequence = issued + 1
<1>1. jobs \in Seq(Jobs) /\ job \in Seq(Jobs) /\ issued \in Nat
  BY DEF TypeOK
<1>2. /\ j \in Jobs /\ jobs' = Append(jobs, j) /\ issued' = issued + 1 /\ done' = done
      /\ job' = job /\ storagePc' = storagePc /\ j.sequence = issued + 1
  BY DEF Puts, Put
<1>3. Pending' = Append(Pending, j)
  <2>1. \A a, b \in Seq(Jobs) : a \o Append(b, j) = Append(a \o b, j)
    BY <1>2
  <2>2. QED
    BY <1>1, <1>2, <2>1 DEF Pending
<1>4. Ahead' = Append(Ahead, j)
  BY <1>2, <1>3 DEF Ahead
<1>5. Executed' = Executed
  <2>1. Ahead \in Seq(Jobs)
    BY QueueIs
  <2>2. Len(Ahead') = Len(Ahead) + 1 /\ Len(Ahead) \in Nat
    BY <1>2, <1>4, <2>1, AppendIs
  <2>3. QED
    BY <1>1, <1>2, <2>2 DEF Executed
<1>6. QED
  BY <1>1, <1>2, <1>3, <1>4, <1>5, AppendIs

LEMMA PutNumbered ==
  ASSUME TypeOK, Numbered, NEW j, Puts(j), j.kind = "Write" => j.size > 0,
         muxerPc' = "write" => muxerPc = "write" /\ muxerJob' = muxerJob
  PROVE  Numbered'
<1>1. Pending \in Seq(Jobs) /\ issued \in Nat /\ done \in Nat
  BY QueueIs DEF TypeOK
<1>2. /\ Pending' = Append(Pending, j) /\ issued' = issued + 1 /\ done' = done
      /\ j \in Jobs /\ j.sequence = issued + 1
  BY PutIs
<1>3. /\ IF storagePc \in {"execute", "executed", "settled"} THEN Len(job) = 1 ELSE job = <<>>
      /\ issued = done + Len(Pending)
      /\ \A i \in DOMAIN Pending : Pending[i].sequence = done + i
      /\ \A i \in DOMAIN Pending : Pending[i].kind = "Write" => Pending[i].size > 0
      /\ muxerPc = "write" => muxerJob > 0
  BY DEF Numbered
<1>4. IF storagePc' \in {"execute", "executed", "settled"} THEN Len(job') = 1 ELSE job' = <<>>
  BY <1>3 DEF Puts
<1>5. Len(Pending') = Len(Pending) + 1 /\ Len(Pending) \in Nat
  BY <1>1, <1>2, AppendIs
<1>6. issued' = done' + Len(Pending')
  BY <1>1, <1>2, <1>3, <1>5
<1>7. ASSUME NEW i \in DOMAIN Pending'
      PROVE  /\ Pending'[i].sequence = done' + i
             /\ Pending'[i].kind = "Write" => Pending'[i].size > 0
  <2>1. CASE i \in DOMAIN Pending
    BY <1>1, <1>2, <1>3, <2>1, AppendIs
  <2>2. CASE i = Len(Pending) + 1
    <3>1. Pending'[i] = j
      BY <1>1, <1>2, <2>2, AppendIs
    <3>2. QED
      BY <1>1, <1>2, <1>3, <1>5, <2>2, <3>1
  <2>3. QED
    BY <1>1, <1>2, <2>1, <2>2, AppendIs
<1>8. muxerPc' = "write" => muxerJob' > 0
  BY <1>3
<1>9. QED
  BY <1>4, <1>6, <1>7, <1>8 DEF Numbered

\* A job its caller waits for does not count; any other is admitted by the limits.
LEMMA PutWithinLimits ==
  ASSUME TypeOK, Numbered, WithinLimits, NEW j, Puts(j),
         \/ Final(j) /\ j.size = 0
         \/ operations < OperationLimit /\ j.size <= ByteLimit - bytes
  PROVE  WithinLimits'
<1>1. Pending \in Seq(Jobs) /\ bytes \in Int /\ operations \in Int
  BY QueueIs DEF TypeOK
<1>2. /\ Pending' = Append(Pending, j) /\ j \in Jobs /\ j.size \in Nat
      /\ operations' = operations + 1 /\ bytes' = bytes + j.size
  BY PutIs DEF Puts, Put, Jobs
<1>3. ByteLimit \in Nat /\ OperationLimit \in Nat
  BY LimitsAssumption
<1> DEFINE I == {i \in DOMAIN Pending : ~Final(Pending[i])}
           K == {i \in DOMAIN Pending' : ~Final(Pending'[i])}
           n == Len(Pending)
<1>4. operations = n /\ bytes <= ByteLimit /\ Cardinality(I) <= OperationLimit /\ n \in Nat
  BY <1>1 DEF WithinLimits
<1>5. operations' = Len(Pending')
  BY <1>1, <1>2, <1>4, AppendIs
<1>6. bytes' <= ByteLimit
  BY <1>1, <1>2, <1>3, <1>4
<1>7. Cardinality(K) <= OperationLimit
  <2>1. CASE Final(j)
    <3>1. \A i : i \in K <=> i \in I
      BY <1>1, <1>2, <2>1, AppendIs
    <3>2. K = I
      BY <3>1
    <3>3. QED
      BY <1>4, <3>2
  <2>2. CASE operations < OperationLimit
    <3>1. K \in SUBSET (1 .. n + 1)
      BY <1>1, <1>2, AppendIs
    <3>2. IsFiniteSet(1 .. n + 1) /\ Cardinality(1 .. n + 1) = n + 1
      BY <1>4, FS_Interval
    <3>3. IsFiniteSet(K) /\ Cardinality(K) <= n + 1
      BY <3>1, <3>2, FS_Subset
    <3>4. Cardinality(K) \in Nat
      BY <3>3, FS_CardinalityType
    <3>5. QED
      BY <1>3, <1>4, <2>2, <3>3, <3>4
  <2>3. QED
    BY <2>1, <2>2
<1>8. QED
  BY <1>5, <1>6, <1>7 DEF WithinLimits

LEMMA PutRequests ==
  ASSUME TypeOK, Numbered, Requests, NEW j, Puts(j),
         \A f \in Parts : flushPending'[f] => flushPending[f] \/ (j.coalesced /\ j.file = f),
         spacePending' => spacePending \/ j.kind = "Space"
  PROVE  Requests'
<1>1. /\ Pending \in Seq(Jobs) /\ jobs \in Seq(Jobs) /\ Pending' = Append(Pending, j)
      /\ jobs' = Append(jobs, j) /\ j \in Jobs /\ storagePc' = storagePc /\ job' = job
  BY QueueIs, PutIs DEF Puts
<1>2. /\ \A i \in DOMAIN jobs : i \in DOMAIN jobs' /\ jobs'[i] = jobs[i]
      /\ \A i \in DOMAIN Pending : i \in DOMAIN Pending' /\ Pending'[i] = Pending[i]
      /\ \E i \in DOMAIN jobs' : jobs'[i] = j
      /\ \E i \in DOMAIN Pending' : Pending'[i] = j
  <2>1. ASSUME NEW s \in Seq(Jobs)
        PROVE  /\ \A i \in DOMAIN s : i \in DOMAIN Append(s, j) /\ Append(s, j)[i] = s[i]
               /\ \E i \in DOMAIN Append(s, j) : Append(s, j)[i] = j
    <3>1. Len(s) + 1 \in DOMAIN Append(s, j)
      BY <1>1, AppendIs
    <3>2. QED
      BY <1>1, <3>1, AppendIs
  <2>2. QED
    BY <1>1, <2>1
<1>3. ASSUME NEW f \in Parts, flushPending'[f]
      PROVE  \/ \E i \in DOMAIN jobs' : jobs'[i].coalesced /\ jobs'[i].file = f
             \/ storagePc' \in {"execute", "executed"} /\ job'[1].coalesced /\ job'[1].file = f
  <2>1. CASE flushPending[f]
    <3>1. \/ \E i \in DOMAIN jobs : jobs[i].coalesced /\ jobs[i].file = f
          \/ storagePc \in {"execute", "executed"} /\ job[1].coalesced /\ job[1].file = f
      BY <2>1 DEF Requests
    <3>2. QED
      BY <1>1, <1>2, <3>1
  <2>2. CASE j.coalesced /\ j.file = f
    BY <1>2, <2>2
  <2>3. QED
    BY <1>3, <2>1, <2>2
<1>4. ASSUME spacePending'
      PROVE  \E i \in DOMAIN Pending' : Pending'[i].kind = "Space"
  <2>1. CASE spacePending
    <3>1. PICK i \in DOMAIN Pending : Pending[i].kind = "Space"
      BY <2>1 DEF Requests
    <3>2. QED
      BY <1>2, <3>1
  <2>2. CASE j.kind = "Space"
    BY <1>2, <2>2
  <2>3. QED
    BY <1>4, <2>1, <2>2
<1>5. QED
  BY <1>3, <1>4 DEF Requests

\* No flag is set by a step that leaves the queue as it is.
LEMMA StillRequests ==
  ASSUME Requests, UNCHANGED <<jobs, job, storagePc, flushPending, spacePending>>
  PROVE  Requests'
BY DEF Requests, Pending

\* The job is not the last of its part, or changes and closes nothing.
LEMMA PutClosing ==
  ASSUME TypeOK, Numbered, Seals, Closing, NEW j, Puts(j), UNCHANGED <<closed, sealed, closes>>,
         j.kind = "Space" \/ (j.kind # "Close" /\ ~closed[j.file])
  PROVE  Closing'
<1>1. /\ Ahead \in Seq(Jobs) /\ Ahead' = Append(Ahead, j) /\ j \in Jobs
      /\ Executed' = Executed /\ j.sequence = issued + 1 /\ issued \in Nat
  BY QueueIs, PutIs DEF TypeOK
<1>2. \A i \in DOMAIN Ahead' : (i \in DOMAIN Ahead /\ Ahead'[i] = Ahead[i]) \/ Ahead'[i] = j
  BY <1>1, AppendIs
<1>3. ASSUME NEW f \in Parts
      PROVE  IF closed[f] /\ sealed[f] <= Executed
             THEN closes[f] = 1 /\ \A i \in DOMAIN Ahead' : Ahead'[i].file = f => Ahead'[i].kind = "Space"
             ELSE /\ closes[f] = 0
                  /\ \A i \in DOMAIN Ahead' : Ahead'[i].file = f /\ Ahead'[i].kind # "Space" =>
                       IF closed[f]
                       THEN /\ Ahead'[i].sequence <= sealed[f]
                            /\ Ahead'[i].kind = "Close" => Ahead'[i].sequence = sealed[f]
                       ELSE Ahead'[i].kind # "Close"
                  /\ closed[f] => \A i \in DOMAIN Ahead' : Ahead'[i].sequence = sealed[f] =>
                       Ahead'[i].file = f /\ Ahead'[i].kind = "Close"
  <2>1. CASE closed[f] /\ sealed[f] <= Executed
    <3>1. closes[f] = 1 /\ \A i \in DOMAIN Ahead : Ahead[i].file = f => Ahead[i].kind = "Space"
      BY <2>1 DEF Closing
    <3>2. j.file = f => j.kind = "Space"
      BY <2>1
    <3>3. QED
      BY <1>2, <2>1, <3>1, <3>2
  <2>2. CASE closed[f] /\ ~(sealed[f] <= Executed)
    <3>1. /\ closes[f] = 0
          /\ \A i \in DOMAIN Ahead : Ahead[i].file = f /\ Ahead[i].kind # "Space" =>
               /\ Ahead[i].sequence <= sealed[f]
               /\ Ahead[i].kind = "Close" => Ahead[i].sequence = sealed[f]
          /\ \A i \in DOMAIN Ahead : Ahead[i].sequence = sealed[f] =>
               Ahead[i].file = f /\ Ahead[i].kind = "Close"
      BY <2>2 DEF Closing
    <3>2. j.file = f => j.kind = "Space"
      BY <2>2
    <3>3. j.sequence # sealed[f]
      BY <1>1, <2>2 DEF Seals, TypeOK
    <3>4. QED
      BY <1>2, <2>2, <3>1, <3>2, <3>3
  <2>3. CASE ~closed[f]
    <3>1. /\ closes[f] = 0
          /\ \A i \in DOMAIN Ahead : Ahead[i].file = f /\ Ahead[i].kind # "Space" => Ahead[i].kind # "Close"
      BY <2>3 DEF Closing
    <3>2. j.kind # "Close"
      OBVIOUS
    <3>3. QED
      BY <1>2, <2>3, <3>1, <3>2
  <2>4. QED
    BY <2>1, <2>2, <2>3
<1>4. QED
  BY <1>1, <1>3 DEF Closing

\* The current part is sealed: its Close is the last job put.
LEMMA SealClosing ==
  ASSUME TypeOK, Numbered, Seals, Closing, NEW j, Puts(j), NEW c \in Parts, ~closed[c],
         j.kind = "Close", j.file = c, closes' = closes,
         closed' = [closed EXCEPT ![c] = TRUE], sealed' = [sealed EXCEPT ![c] = issued + 1]
  PROVE  Closing'
<1>1. /\ Ahead \in Seq(Jobs) /\ Ahead' = Append(Ahead, j) /\ j \in Jobs /\ Executed \in Int
      /\ Executed' = Executed /\ j.sequence = issued + 1 /\ issued \in Nat /\ Executed <= issued
      /\ \A i \in DOMAIN Ahead : Ahead[i].sequence = Executed + i
      /\ Executed = issued - Len(Ahead)
  BY QueueIs, PutIs DEF TypeOK
<1>2. \A i \in DOMAIN Ahead' : (i \in DOMAIN Ahead /\ Ahead'[i] = Ahead[i]) \/ Ahead'[i] = j
  BY <1>1, AppendIs
<1>3. \A i \in DOMAIN Ahead : Ahead[i].sequence <= issued /\ Ahead[i].sequence \in Int
  <2>1. DOMAIN Ahead = 1 .. Len(Ahead) /\ Len(Ahead) \in Nat
    BY <1>1
  <2>2. QED
    BY <1>1, <2>1
<1>4. closed \in [Parts -> BOOLEAN] /\ sealed \in [Parts -> Nat]
  BY DEF TypeOK
<1>5. closed'[c] /\ sealed'[c] = issued + 1
  BY <1>4
<1>6. \A f \in Parts \ {c} : closed'[f] = closed[f] /\ sealed'[f] = sealed[f]
  BY <1>4
<1>7. /\ closes[c] = 0
      /\ \A i \in DOMAIN Ahead : Ahead[i].file = c => Ahead[i].kind # "Close"
  BY DEF Closing
<1>8. /\ ~(sealed'[c] <= Executed) /\ closes[c] = 0
      /\ \A i \in DOMAIN Ahead' : Ahead'[i].file = c /\ Ahead'[i].kind # "Space" =>
           /\ Ahead'[i].sequence <= sealed'[c]
           /\ Ahead'[i].kind = "Close" => Ahead'[i].sequence = sealed'[c]
      /\ \A i \in DOMAIN Ahead' : Ahead'[i].sequence = sealed'[c] =>
           Ahead'[i].file = c /\ Ahead'[i].kind = "Close"
  <2>1. ~(sealed'[c] <= Executed)
    BY <1>1, <1>5
  <2>2. ASSUME NEW i \in DOMAIN Ahead'
        PROVE  /\ Ahead'[i].file = c /\ Ahead'[i].kind # "Space" =>
                    /\ Ahead'[i].sequence <= sealed'[c]
                    /\ Ahead'[i].kind = "Close" => Ahead'[i].sequence = sealed'[c]
               /\ Ahead'[i].sequence = sealed'[c] => Ahead'[i].file = c /\ Ahead'[i].kind = "Close"
    <3>1. CASE Ahead'[i] = j
      BY <1>1, <1>5, <3>1
    <3>2. CASE i \in DOMAIN Ahead /\ Ahead'[i] = Ahead[i]
      BY <1>1, <1>3, <1>5, <1>7, <3>2
    <3>3. QED
      BY <1>2, <3>1, <3>2
  <2>3. QED
    BY <1>7, <2>1, <2>2
<1>9. ASSUME NEW f \in Parts \ {c}
      PROVE  IF closed[f] /\ sealed[f] <= Executed
             THEN closes[f] = 1 /\ \A i \in DOMAIN Ahead' : Ahead'[i].file = f => Ahead'[i].kind = "Space"
             ELSE /\ closes[f] = 0
                  /\ \A i \in DOMAIN Ahead' : Ahead'[i].file = f /\ Ahead'[i].kind # "Space" =>
                       IF closed[f]
                       THEN /\ Ahead'[i].sequence <= sealed[f]
                            /\ Ahead'[i].kind = "Close" => Ahead'[i].sequence = sealed[f]
                       ELSE Ahead'[i].kind # "Close"
                  /\ closed[f] => \A i \in DOMAIN Ahead' : Ahead'[i].sequence = sealed[f] =>
                       Ahead'[i].file = f /\ Ahead'[i].kind = "Close"
  <2>1. j.file # f
    OBVIOUS
  <2>2. closed[f] => j.sequence # sealed[f]
    BY <1>1 DEF Seals, TypeOK
  <2>3. CASE closed[f] /\ sealed[f] <= Executed
    BY <1>2, <2>1, <2>3 DEF Closing
  <2>4. CASE closed[f] /\ ~(sealed[f] <= Executed)
    <3>1. /\ closes[f] = 0
          /\ \A i \in DOMAIN Ahead : Ahead[i].file = f /\ Ahead[i].kind # "Space" =>
               /\ Ahead[i].sequence <= sealed[f]
               /\ Ahead[i].kind = "Close" => Ahead[i].sequence = sealed[f]
          /\ \A i \in DOMAIN Ahead : Ahead[i].sequence = sealed[f] =>
               Ahead[i].file = f /\ Ahead[i].kind = "Close"
      BY <2>4 DEF Closing
    <3>2. QED
      BY <1>2, <2>1, <2>2, <2>4, <3>1
  <2>5. CASE ~closed[f]
    BY <1>2, <2>1, <2>5 DEF Closing
  <2>6. QED
    BY <2>3, <2>4, <2>5
<1>10. ASSUME NEW f \in Parts
       PROVE  IF closed'[f] /\ sealed'[f] <= Executed
              THEN closes[f] = 1 /\ \A i \in DOMAIN Ahead' : Ahead'[i].file = f => Ahead'[i].kind = "Space"
              ELSE /\ closes[f] = 0
                   /\ \A i \in DOMAIN Ahead' : Ahead'[i].file = f /\ Ahead'[i].kind # "Space" =>
                        IF closed'[f]
                        THEN /\ Ahead'[i].sequence <= sealed'[f]
                             /\ Ahead'[i].kind = "Close" => Ahead'[i].sequence = sealed'[f]
                        ELSE Ahead'[i].kind # "Close"
                   /\ closed'[f] => \A i \in DOMAIN Ahead' : Ahead'[i].sequence = sealed'[f] =>
                        Ahead'[i].file = f /\ Ahead'[i].kind = "Close"
  <2>1. CASE f = c
    BY <1>5, <1>8, <2>1
  <2>2. CASE f # c
    <3>1. f \in Parts \ {c} /\ closed'[f] = closed[f] /\ sealed'[f] = sealed[f]
      BY <1>6, <2>2
    <3>2. QED
      BY <1>9, <3>1
  <2>3. QED
    BY <2>1, <2>2
<1>11. QED
  BY <1>1, <1>10 DEF Closing

LEMMA PutBytesInOrder ==
  ASSUME TypeOK, Numbered, BytesInOrder, NEW j, Puts(j), UNCHANGED <<disk, error>>,
         \A f \in Parts : logical'[f] = After(logical[f], j, f),
         \A f \in Parts : length'[f] = Len(logical'[f])
  PROVE  BytesInOrder'
<1>1. Ahead \in Seq(Jobs) /\ Ahead' = Append(Ahead, j) /\ j \in Jobs
  BY QueueIs, PutIs
<1>2. ASSUME NEW f \in Parts, error = "ok" PROVE Image(disk[f], Ahead', f) = logical'[f]
  <2>1. Image(disk[f], Ahead, f) = logical[f]
    BY <1>2 DEF BytesInOrder
  <2>2. Image(disk[f], Append(Ahead, j), f) = After(Image(disk[f], Ahead, f), j, f)
    BY <1>1, ImageOfAppend
  <2>3. QED
    BY <1>1, <2>1, <2>2
<1>3. QED
  BY <1>2 DEF BytesInOrder

\* Only a Write and a Resize change contents.
LEMMA AfterOthers ==
  ASSUME NEW j, j.kind \notin Changing, NEW c, NEW f
  PROVE  After(c, j, f) = c
BY DEF After, Effect, Changing

\* What is on disk is what was written, once nothing that changes it is ahead.
LEMMA NothingAhead ==
  ASSUME TypeOK, Numbered, BytesInOrder, error = "ok", NEW f \in Parts,
         \A i \in DOMAIN Ahead : Ahead[i].file = f => Ahead[i].kind \notin Changing
  PROVE  disk[f] = logical[f]
<1>1. Image(disk[f], Ahead, f) = logical[f]
  BY DEF BytesInOrder
<1>2. Ahead \in Seq(Jobs)
  BY QueueIs
<1>3. \A i \in 1 .. Len(Ahead) : After(disk[f], Ahead[i], f) = disk[f]
  <2>1. \A i \in 1 .. Len(Ahead) : Ahead[i].file # f \/ Ahead[i].kind \notin Changing
    BY <1>2
  <2>2. \A i \in 1 .. Len(Ahead) : Ahead[i].file # f => After(disk[f], Ahead[i], f) = disk[f]
    BY DEF After
  <2>3. QED
    BY <2>1, <2>2, AfterOthers
<1>4. Len(Ahead) \in Nat
  BY <1>2
<1>5. Image(disk[f], Ahead, f) = disk[f]
  BY <1>3, <1>4, ImageOfOthers
<1>6. QED
  BY <1>1, <1>5

\* The muxer and the worker's loop put nothing into a sealed part, and no final
\* call has returned yet.
LEMMA PutFlushing ==
  ASSUME TypeOK, Flushing, NEW j, Numbered, Puts(j),
         workerPc \in {"loop", "finalizing"}, workerPc' \in {"loop", "finalizing"},
         UNCHANGED <<flushed, finished, error, disk, durable>>,
         \A f \in Parts : closed'[f] /\ sealed'[f] <= Executed =>
           closed[f] /\ sealed[f] <= Executed /\ logical'[f] = logical[f]
  PROVE  Flushing' /\ SuccessIsDurable'
<1>1. flushed = "none" /\ finished = "none"
  BY DEF Flushing
<1>2. Executed' = Executed
  BY PutIs
<1>3. SuccessIsDurable'
  BY <1>1 DEF SuccessIsDurable
<1>4. error' = "ok" => \A f \in Parts :
        closed'[f] /\ sealed'[f] <= Executed' => durable'[f] = logical'[f]
  BY <1>2 DEF Flushing
<1>5. workerPc' # "flush" /\ flushed' = "none" /\ finished' = "none"
  BY <1>1
<1>6. Flushing'
  BY <1>4, <1>5 DEF Flushing
<1>7. QED
  BY <1>3, <1>6

LEMMA PutTyped ==
  ASSUME TypeOK, Numbered, NEW j, Puts(j)
  PROVE  /\ jobs' \in Seq(Jobs) /\ job' \in Seq(Jobs) /\ bytes' \in Int /\ operations' \in Int
         /\ issued' \in Nat /\ done' \in Nat
<1>1. bytes \in Int /\ operations \in Int /\ job \in Seq(Jobs) /\ done \in Nat
  BY DEF TypeOK
<1>2. bytes' = bytes + j.size /\ operations' = operations + 1 /\ job' = job /\ j.size \in Nat
  BY DEF Puts, Put, Jobs
<1>3. QED
  BY <1>1, <1>2, PutIs

LEMMA NewJobIs ==
  ASSUME TypeOK, NEW kind \in Kinds, NEW f \in Parts, NEW p \in Nat, NEW n \in Nat
  PROVE  LET j == NewJob(kind, f, p, n) IN
         /\ j \in Jobs /\ j.kind = kind /\ j.file = f /\ j.position = p /\ j.size = n
         /\ j.sequence = issued + 1 /\ ~j.coalesced
<1>1. issued + 1 \in Nat
  BY DEF TypeOK
<1>2. FALSE \in BOOLEAN
  OBVIOUS
<1>3. QED
  BY <1>1, <1>2 DEF NewJob, Jobs

LEMMA SealsStay ==
  ASSUME TypeOK, Seals, UNCHANGED <<closed, sealed, current>>,
         issued' \in Nat, issued' >= issued, done' \in Nat, done' >= done,
         muxerPc' # "idle" => ~closed[current] /\ workerPc' \in {"loop", "finalizing"},
         workerPc' = "flush" => ~closed[current],
         workerPc' = "closing" => closed[current] /\ workerJob' = sealed[current],
         workerPc' \in {"release", "join", "ended"} => closed[current] /\ sealed[current] <= done
  PROVE  Seals'
<1>1. /\ sealed \in [Parts -> Nat] /\ issued \in Nat /\ done \in Nat /\ current \in Parts
      /\ closed \in [Parts -> BOOLEAN]
  BY DEF TypeOK
<1>2. \A f \in Parts : (f < current => closed[f]) /\ (f > current => ~closed[f])
  BY DEF Seals
<1>3. \A f \in Parts : closed[f] => sealed[f] > 0 /\ sealed[f] <= issued'
  BY <1>1 DEF Seals
<1>4. \A f, g \in Parts : f < g /\ closed[g] => sealed[f] < sealed[g]
  BY DEF Seals
<1>5. workerPc' \in {"release", "join", "ended"} => closed[current] /\ sealed[current] <= done'
  BY <1>1
<1>6. QED
  BY <1>2, <1>3, <1>4, <1>5 DEF Seals

\* The next part is sealed, which is the last put so far.
LEMMA SealsNext ==
  ASSUME TypeOK, Seals, ~closed[current], issued' = issued + 1, done' = done,
         closed' = [closed EXCEPT ![current] = TRUE],
         sealed' = [sealed EXCEPT ![current] = issued + 1],
         current' = current \/ current' = current + 1, current' \in Parts,
         muxerPc' = "idle", workerPc' \notin {"flush", "release", "join", "ended"},
         workerPc' = "closing" => current' = current /\ workerJob' = issued + 1
  PROVE  Seals'
<1>1. /\ sealed \in [Parts -> Nat] /\ issued \in Nat /\ done \in Nat /\ current \in Parts
      /\ closed \in [Parts -> BOOLEAN] /\ Parts \subseteq Nat
  BY DEF TypeOK, Parts
<1>2. closed'[current] /\ sealed'[current] = issued + 1
  BY <1>1
<1>3. \A f \in Parts \ {current} : closed'[f] = closed[f] /\ sealed'[f] = sealed[f]
  BY <1>1
<1>4. /\ \A f \in Parts : (f < current => closed[f]) /\ (f > current => ~closed[f])
      /\ \A f \in Parts : closed[f] => sealed[f] > 0 /\ sealed[f] <= issued
      /\ \A f, g \in Parts : f < g /\ closed[g] => sealed[f] < sealed[g]
  BY DEF Seals
<1>5. ASSUME NEW f \in Parts
      PROVE  (f < current' => closed'[f]) /\ (f > current' => ~closed'[f])
  <2>1. CASE f = current
    BY <1>1, <1>2, <2>1
  <2>2. CASE f # current
    BY <1>1, <1>3, <1>4, <2>2
  <2>3. QED
    BY <2>1, <2>2
<1>6. \A f \in Parts : closed'[f] => sealed'[f] > 0 /\ sealed'[f] <= issued'
  <2>1. ASSUME NEW f \in Parts, closed'[f] PROVE sealed'[f] > 0 /\ sealed'[f] <= issued'
    <3>1. CASE f = current
      BY <1>1, <1>2, <3>1
    <3>2. CASE f # current
      BY <1>1, <1>3, <1>4, <2>1, <3>2
    <3>3. QED
      BY <3>1, <3>2
  <2>2. QED
    BY <2>1
<1>7. ASSUME NEW f \in Parts, NEW g \in Parts, f < g, closed'[g] PROVE sealed'[f] < sealed'[g]
  <2>1. CASE g = current
    <3>1. f # current /\ closed[f]
      BY <1>1, <1>4, <1>7, <2>1
    <3>2. sealed[f] <= issued /\ sealed[f] \in Nat
      BY <1>1, <1>4, <3>1
    <3>3. QED
      BY <1>1, <1>2, <1>3, <2>1, <3>1, <3>2
  <2>2. CASE g # current
    <3>1. closed[g]
      BY <1>3, <1>7, <2>2
    <3>2. f # current
      BY <1>1, <1>4, <1>7, <2>2, <3>1
    <3>3. QED
      BY <1>3, <1>4, <1>7, <2>2, <3>1, <3>2
  <2>3. QED
    BY <2>1, <2>2
<1>8. QED
  BY <1>2, <1>5, <1>6, <1>7 DEF Seals

-----------------------------------------------------------------------------
(* The callers' steps that put nothing                                     *)

LEMMA StillQueued ==
  ASSUME IInv, UNCHANGED <<jobs, job, storagePc, issued, done, bytes, operations>>,
         UNCHANGED <<flushPending, spacePending, error>>,
         UNCHANGED <<disk, durable, closes, logical, length, closed, sealed>>
  PROVE  /\ WithinLimits' /\ Requests' /\ Closing' /\ BytesInOrder'
         /\ Pending' = Pending /\ Ahead' = Ahead /\ Executed' = Executed
<1>1. Pending' = Pending /\ Ahead' = Ahead
  BY DEF Pending, Ahead
<1>2. Executed' = Executed
  BY <1>1 DEF Executed
<1>3. WithinLimits'
  BY <1>1 DEF IInv, WithinLimits
<1>4. Requests'
  BY StillRequests DEF IInv
<1>5. Closing'
  BY <1>1, <1>2 DEF IInv, Closing
<1>6. BytesInOrder'
  BY <1>1 DEF IInv, BytesInOrder
<1>7. QED
  BY <1>1, <1>2, <1>3, <1>4, <1>5, <1>6

LEMMA StillFlushing ==
  ASSUME IInv, Ahead' = Ahead, Executed' = Executed,
         UNCHANGED <<issued, error, disk, durable, logical, closed, sealed, current, worker>>
  PROVE  Flushing' /\ SuccessIsDurable'
<1>1. Flushing'
  BY DEF IInv, Flushing, worker
<1>2. SuccessIsDurable'
  BY DEF IInv, SuccessIsDurable, worker
<1>3. QED
  BY <1>1, <1>2

RefusedWrite ==
  /\ muxerPc = "write" /\ muxerPc' = "idle" /\ muxerJob' = 0
  /\ UNCHANGED <<current, queue, position, length, logical, closed, sealed, flushPending>>
  /\ MuxerFrame

LEMMA QuietMuxerKeepsIInv ==
  ASSUME IInv, CanAccept \/ Seek \/ EndRead \/ RefusedWrite
  PROVE  IInv'
<1>1. /\ UNCHANGED <<jobs, job, storagePc, issued, done, bytes, operations>>
      /\ UNCHANGED <<flushPending, spacePending, error>>
      /\ UNCHANGED <<disk, durable, closes, logical, length, closed, sealed>>
      /\ UNCHANGED <<current, worker>>
  BY DEF CanAccept, Seek, EndRead, RefusedWrite, MuxerFrame, queue, storage, streams, muxer, files
<1>2. /\ WithinLimits' /\ Requests' /\ Closing' /\ BytesInOrder'
      /\ Pending' = Pending /\ Ahead' = Ahead /\ Executed' = Executed
  BY <1>1, StillQueued
<1>3. Flushing' /\ SuccessIsDurable'
  BY <1>1, <1>2, StillFlushing
<1>4. /\ position \in [Parts -> Nat] /\ muxerJob \in Nat /\ current \in Parts /\ issued \in Nat
      /\ done \in Nat /\ length \in [Parts -> Nat]
  BY DEF IInv, TypeOK
<1>5. muxerJob' \in Nat /\ position' \in [Parts -> Nat]
  <2>1. CASE CanAccept
    BY <1>4, <2>1, FilesAssumption DEF CanAccept, streams
  <2>2. CASE Seek
    BY <1>4, <2>2 DEF Seek, muxer
  <2>3. CASE EndRead
    BY <1>4, <2>3 DEF EndRead
  <2>4. CASE RefusedWrite
    BY <1>4, <2>4 DEF RefusedWrite
  <2>5. QED
    BY <2>1, <2>2, <2>3, <2>4
<1>6. TypeOK'
  BY <1>1, <1>5 DEF IInv, TypeOK, worker
<1>7. /\ muxerPc' = "write" => muxerJob' > 0
      /\ muxerPc' # "idle" => ~closed[current] /\ workerPc \in {"loop", "finalizing"}
  <2>1. CASE CanAccept
    BY <2>1, FilesAssumption DEF CanAccept, Muxing, Open
  <2>2. CASE Seek
    BY <2>2 DEF Seek, muxer, IInv, Numbered, Seals
  <2>3. CASE EndRead
    BY <2>3 DEF EndRead
  <2>4. CASE RefusedWrite
    BY <2>4 DEF RefusedWrite
  <2>5. QED
    BY <2>1, <2>2, <2>3, <2>4
<1>8. Numbered'
  BY <1>1, <1>2, <1>7 DEF IInv, Numbered
<1>9. Seals'
  <2>1. issued' >= issued /\ done' >= done /\ issued' \in Nat /\ done' \in Nat
    BY <1>1, <1>4
  <2>2. workerPc' = workerPc /\ workerJob' = workerJob
    BY <1>1 DEF worker
  <2>3. /\ workerPc = "flush" => ~closed[current]
        /\ workerPc = "closing" => closed[current] /\ workerJob = sealed[current]
        /\ workerPc \in {"release", "join", "ended"} => closed[current] /\ sealed[current] <= done
    BY DEF IInv, Seals
  <2>4. QED
    BY <1>1, <1>7, <2>1, <2>2, <2>3, SealsStay DEF IInv
<1>10. QED
  BY <1>2, <1>3, <1>6, <1>8, <1>9 DEF IInv

-----------------------------------------------------------------------------
(* The muxer puts a job                                                    *)

\* What every job the muxer puts into the open part c keeps.
LEMMA MuxerPuts ==
  ASSUME IInv, NEW j, Puts(j), j.kind \in {"Write", "Resize", "Read"}, j.file = current,
         ~closed[current], ~j.coalesced,
         UNCHANGED <<spacePending, flushPending, error, disk, durable, closes, closed, sealed, current>>,
         UNCHANGED worker, workerPc \in {"loop", "finalizing"},
         muxerPc' \in {"idle", "read"}, \A f \in Parts : logical'[f] = After(logical[f], j, f),
         \A f \in Parts : length'[f] = Len(logical'[f]),
         j.kind = "Write" => j.size > 0,
         \/ Final(j) /\ j.size = 0
         \/ operations < OperationLimit /\ j.size <= ByteLimit - bytes
  PROVE  /\ Numbered' /\ WithinLimits' /\ Requests' /\ Seals' /\ Closing' /\ BytesInOrder'
         /\ Flushing' /\ SuccessIsDurable'
<1>1. TypeOK /\ Numbered /\ WithinLimits /\ Requests /\ Seals /\ Closing /\ Flushing /\ BytesInOrder
  BY DEF IInv
<1>2. Numbered'
  BY <1>1, PutNumbered
<1>3. WithinLimits'
  BY <1>1, PutWithinLimits
<1>4. Requests'
  BY <1>1, PutRequests
<1>5. Seals'
  <2>1. issued' = issued + 1 /\ issued \in Nat /\ done' = done /\ done \in Nat
    BY <1>1, PutIs DEF TypeOK
  <2>2. workerPc' = workerPc /\ workerJob' = workerJob
    BY DEF worker
  <2>3. issued' \in Nat /\ issued' >= issued /\ done' \in Nat /\ done' >= done
    BY <2>1
  <2>4. QED
    BY <1>1, <2>2, <2>3, SealsStay
<1>6. Closing'
  BY <1>1, PutClosing
<1>7. BytesInOrder'
  BY <1>1, PutBytesInOrder
<1>8. Flushing' /\ SuccessIsDurable'
  <2>1. \A f \in Parts : closed'[f] /\ sealed'[f] <= Executed =>
          closed[f] /\ sealed[f] <= Executed /\ logical'[f] = logical[f]
    <3>1. \A f \in Parts : closed[f] => logical'[f] = logical[f]
      BY DEF After
    <3>2. QED
      BY <3>1
  <2>2. workerPc' = workerPc /\ flushed' = flushed /\ finished' = finished
    BY DEF worker
  <2>3. QED
    BY <1>1, <2>1, <2>2, PutFlushing
<1>9. QED
  BY <1>2, <1>3, <1>4, <1>5, <1>6, <1>7, <1>8

LEMMA WriteKeepsIInv ==
  ASSUME IInv, Write
  PROVE  IInv'
<1> DEFINE n == muxerJob
           p == position[current]
           j == NewJob("Write", current, p, n)
<1>1. /\ n \in Nat /\ p \in Nat /\ current \in Parts /\ position \in [Parts -> Nat]
      /\ length \in [Parts -> Nat] /\ logical \in [Parts -> Contents] /\ TypeOK
  BY DEF IInv, TypeOK
<1>2. muxerPc = "write" /\ n > 0
  BY DEF Write, IInv, Numbered
<1>3. ~closed[current] /\ workerPc \in {"loop", "finalizing"}
  BY <1>2 DEF IInv, Seals
<1>4. /\ j \in Jobs /\ j.kind = "Write" /\ j.file = current /\ j.position = p /\ j.size = n
      /\ j.sequence = issued + 1 /\ ~j.coalesced
  BY <1>1, NewJobIs DEF Kinds
<1> HIDE DEF j
<1>5. CASE ~Admits(n)
  <2>1. RefusedWrite
    BY <1>5 DEF Write, RefusedWrite
  <2>2. QED
    BY <2>1, QuietMuxerKeepsIInv
<1>6. CASE Admits(n)
  <2>1. /\ muxerPc' = "idle" /\ muxerJob' = 0 /\ Put(j)
        /\ position' = [position EXCEPT ![current] = p + n]
        /\ length' = [length EXCEPT ![current] = IF @ > p + n THEN @ ELSE p + n]
        /\ logical' = [logical EXCEPT ![current] = Effect(@, j)]
        /\ UNCHANGED <<current, closed, sealed, flushPending>> /\ MuxerFrame
    BY <1>6 DEF Write, j
  <2>2. /\ UNCHANGED <<spacePending, flushPending, error, disk, durable, closes, closed, sealed, current>>
        /\ UNCHANGED worker /\ UNCHANGED <<job, storagePc>>
    BY <2>1 DEF MuxerFrame, storage, files
  <2>3. Puts(j)
    BY <1>4, <2>1, <2>2 DEF Puts
  <2>4. PICK c \in Seq(Nat) : c = logical[current] /\ Len(c) = length[current]
    BY <1>1 DEF IInv, BytesInOrder, Contents
  <2>5. PICK d : d \in Seq(Nat) /\ d = Effect(c, j) /\ Len(d) = length'[current]
    <3>1. PICK m \in Nat : m = IF p + n > Len(c) THEN p + n ELSE Len(c)
      BY <1>1
    <3>2. Effect(c, j) = [i \in 1 .. m |->
             IF i > p /\ i <= p + n THEN j.sequence ELSE IF i <= Len(c) THEN c[i] ELSE 0]
      BY <1>4, <3>1 DEF Effect, Patched
    <3>3. j.sequence \in Nat
      BY <1>4 DEF Jobs
    <3>4. \A i \in 1 .. m :
            (IF i > p /\ i <= p + n THEN j.sequence ELSE IF i <= Len(c) THEN c[i] ELSE 0) \in Nat
      BY <1>1, <3>3
    <3>5. Effect(c, j) \in Seq(Nat) /\ Len(Effect(c, j)) = m
      BY <3>2, <3>4
    <3>6. length'[current] = m
      <4>1. length'[current] = IF length[current] > p + n THEN length[current] ELSE p + n
        BY <1>1, <2>1
      <4>2. p + n \in Nat /\ length[current] \in Nat
        BY <1>1
      <4>3. QED
        BY <2>4, <3>1, <4>1, <4>2
    <3>7. QED
      BY <3>5, <3>6
  <2>6. \A f \in Parts : logical'[f] = After(logical[f], j, f)
    BY <1>1, <1>4, <2>1 DEF After
  <2>7. \A f \in Parts : length'[f] = Len(logical'[f])
    BY <1>1, <2>1, <2>4, <2>5 DEF IInv, BytesInOrder
  <2>8. operations < OperationLimit /\ j.size <= ByteLimit - bytes
    BY <1>1, <1>4, <1>6, LimitsAssumption DEF Admits, Full, TypeOK
  <2>9. /\ Numbered' /\ WithinLimits' /\ Requests' /\ Seals' /\ Closing' /\ BytesInOrder'
        /\ Flushing' /\ SuccessIsDurable'
    BY <1>2, <1>3, <1>4, <2>1, <2>2, <2>3, <2>6, <2>7, <2>8, MuxerPuts
  <2>10. TypeOK'
    <3>1. /\ jobs' \in Seq(Jobs) /\ job' \in Seq(Jobs) /\ bytes' \in Int /\ operations' \in Int
          /\ issued' \in Nat /\ done' \in Nat
      BY <1>1, <2>3, PutTyped DEF IInv
    <3>2. position' \in [Parts -> Nat] /\ length' \in [Parts -> Nat]
      BY <1>1, <2>1
    <3>3. logical' \in [Parts -> Contents]
      BY <1>1, <2>1, <2>4, <2>5 DEF Contents
    <3>4. muxerJob' \in Nat /\ workerJob' = workerJob
      BY <2>1, <2>2 DEF worker
    <3>5. QED
      BY <1>1, <2>2, <3>1, <3>2, <3>3, <3>4 DEF TypeOK
  <2>11. QED
    BY <2>9, <2>10 DEF IInv
<1>7. QED
  BY <1>5, <1>6

LEMMA SetLengthKeepsIInv ==
  ASSUME IInv, SetLength
  PROVE  IInv'
<1>1. /\ current \in Parts /\ length \in [Parts -> Nat] /\ logical \in [Parts -> Contents] /\ TypeOK
  BY DEF IInv, TypeOK
<1>2. PICK n \in 0 .. MaxPosition :
        LET j == NewJob("Resize", current, n, 0) IN
        /\ Put(j) /\ length' = [length EXCEPT ![current] = n]
        /\ logical' = [logical EXCEPT ![current] = Effect(@, j)]
  BY DEF SetLength
<1> DEFINE j == NewJob("Resize", current, n, 0)
<1>3. /\ muxerPc = "idle" /\ workerPc \in {"loop", "finalizing"} /\ ~closed[current] /\ Admits(0)
      /\ UNCHANGED <<muxer, position, closed, sealed, flushPending>> /\ MuxerFrame
  BY DEF SetLength, Muxing, Open
<1>4. /\ j \in Jobs /\ j.kind = "Resize" /\ j.file = current /\ j.position = n /\ j.size = 0
      /\ j.sequence = issued + 1 /\ ~j.coalesced
  <2>1. n \in Nat /\ 0 \in Nat /\ "Resize" \in Kinds
    BY DEF Kinds
  <2>2. QED
    BY <1>1, <2>1, NewJobIs
<1>5. /\ Put(j) /\ length' = [length EXCEPT ![current] = n]
      /\ logical' = [logical EXCEPT ![current] = Effect(@, j)]
  BY <1>2
<1> HIDE DEF j
<1>6. /\ UNCHANGED <<spacePending, flushPending, error, disk, durable, closes, closed, sealed, current>>
      /\ UNCHANGED worker /\ UNCHANGED <<job, storagePc, muxerPc, muxerJob, position>>
  BY <1>3 DEF MuxerFrame, storage, files, muxer
<1>7. Puts(j)
  BY <1>4, <1>5, <1>6 DEF Puts
<1>8. PICK c \in Seq(Nat) : c = logical[current]
  BY <1>1 DEF Contents
<1>9. PICK d : d \in Seq(Nat) /\ d = Effect(c, j) /\ Len(d) = n
  <2>1. Effect(c, j) = [i \in 1 .. n |-> IF i <= Len(c) THEN c[i] ELSE 0]
    BY <1>4 DEF Effect, Resized
  <2>2. \A i \in 1 .. n : (IF i <= Len(c) THEN c[i] ELSE 0) \in Nat
    OBVIOUS
  <2>3. Effect(c, j) \in Seq(Nat) /\ Len(Effect(c, j)) = n
    BY <2>1, <2>2
  <2>4. QED
    BY <2>3
<1>10. \A f \in Parts : logical'[f] = After(logical[f], j, f)
  BY <1>1, <1>4, <1>5 DEF After
<1>11. \A f \in Parts : length'[f] = Len(logical'[f])
  BY <1>1, <1>5, <1>8, <1>9 DEF IInv, BytesInOrder
<1>12. operations < OperationLimit /\ j.size <= ByteLimit - bytes
  BY <1>1, <1>3, <1>4, LimitsAssumption DEF Admits, Full, TypeOK
<1>13. /\ Numbered' /\ WithinLimits' /\ Requests' /\ Seals' /\ Closing' /\ BytesInOrder'
       /\ Flushing' /\ SuccessIsDurable'
  BY <1>3, <1>4, <1>6, <1>7, <1>10, <1>11, <1>12, MuxerPuts
<1>14. TypeOK'
  <2>1. /\ jobs' \in Seq(Jobs) /\ job' \in Seq(Jobs) /\ bytes' \in Int /\ operations' \in Int
        /\ issued' \in Nat /\ done' \in Nat
    BY <1>1, <1>7, PutTyped DEF IInv
  <2>2. length' \in [Parts -> Nat]
    BY <1>1, <1>5
  <2>3. logical' \in [Parts -> Contents]
    BY <1>1, <1>5, <1>8, <1>9 DEF Contents
  <2>4. workerJob' = workerJob
    BY <1>6 DEF worker
  <2>5. QED
    BY <1>1, <1>6, <2>1, <2>2, <2>3, <2>4 DEF TypeOK
<1>15. QED
  BY <1>13, <1>14 DEF IInv

LEMMA ReadKeepsIInv ==
  ASSUME IInv, Read
  PROVE  IInv'
<1> DEFINE j == NewJob("Read", current, position[current], 0)
<1>1. current \in Parts /\ position \in [Parts -> Nat] /\ issued \in Nat /\ TypeOK
  BY DEF IInv, TypeOK
<1>2. /\ muxerPc = "idle" /\ workerPc \in {"loop", "finalizing"} /\ ~closed[current]
      /\ Put(j) /\ muxerPc' = "read" /\ muxerJob' = issued + 1
      /\ UNCHANGED <<current, streams, logical>> /\ MuxerFrame
  BY DEF Read, Muxing, Open
<1>3. /\ j \in Jobs /\ j.kind = "Read" /\ j.file = current /\ j.size = 0
      /\ j.sequence = issued + 1 /\ ~j.coalesced
  <2>1. position[current] \in Nat /\ 0 \in Nat /\ "Read" \in Kinds
    BY <1>1 DEF Kinds
  <2>2. QED
    BY <1>1, <2>1, NewJobIs
<1> HIDE DEF j
<1>4. /\ UNCHANGED <<spacePending, flushPending, error, disk, durable, closes, closed, sealed, current>>
      /\ UNCHANGED worker /\ UNCHANGED <<job, storagePc, position, length, logical>>
  BY <1>2 DEF MuxerFrame, storage, files, streams
<1>5. Puts(j)
  BY <1>2, <1>3, <1>4 DEF Puts
<1>6. \A f \in Parts : logical'[f] = After(logical[f], j, f)
  BY <1>3, <1>4, AfterOthers DEF Changing
<1>7. \A f \in Parts : length'[f] = Len(logical'[f])
  BY <1>4 DEF IInv, BytesInOrder
<1>8. Final(j)
  BY <1>3 DEF Final, FinalControls
<1>9. /\ Numbered' /\ WithinLimits' /\ Requests' /\ Seals' /\ Closing' /\ BytesInOrder'
      /\ Flushing' /\ SuccessIsDurable'
  BY <1>2, <1>3, <1>4, <1>5, <1>6, <1>7, <1>8, MuxerPuts
<1>10. TypeOK'
  <2>1. /\ jobs' \in Seq(Jobs) /\ job' \in Seq(Jobs) /\ bytes' \in Int /\ operations' \in Int
        /\ issued' \in Nat /\ done' \in Nat
    BY <1>1, <1>5, PutTyped DEF IInv
  <2>2. muxerJob' \in Nat /\ workerJob' = workerJob
    BY <1>1, <1>2, <1>4 DEF worker
  <2>3. QED
    BY <1>1, <1>4, <2>1, <2>2 DEF TypeOK
<1>11. QED
  BY <1>9, <1>10 DEF IInv

\* What sealing the current part keeps.
LEMMA SealKeeps ==
  ASSUME IInv, Seal(current), ~closed[current], UNCHANGED <<job, storagePc>>,
         UNCHANGED <<spacePending, flushPending, error, disk, durable, closes, logical, length>>,
         muxerPc' = "idle"
  PROVE  /\ Numbered' /\ WithinLimits' /\ Requests' /\ Closing' /\ BytesInOrder'
         /\ jobs' \in Seq(Jobs) /\ job' \in Seq(Jobs) /\ bytes' \in Int /\ operations' \in Int
         /\ issued' \in Nat /\ done' \in Nat
         /\ closed' \in [Parts -> BOOLEAN] /\ sealed' \in [Parts -> Nat]
         /\ issued' = issued + 1 /\ done' = done /\ Executed' = Executed
         /\ \A f \in Parts : closed'[f] /\ sealed'[f] <= Executed => closed[f] /\ sealed[f] <= Executed
         /\ \A i \in DOMAIN Ahead' :
              (i \in DOMAIN Ahead /\ Ahead'[i] = Ahead[i]) \/ Ahead'[i].kind = "Close"
<1> DEFINE j == NewJob("Close", current, 0, 0)
<1>1. /\ TypeOK /\ Numbered /\ WithinLimits /\ Requests /\ Seals /\ Closing /\ Flushing /\ BytesInOrder
      /\ current \in Parts /\ closed \in [Parts -> BOOLEAN] /\ sealed \in [Parts -> Nat] /\ issued \in Nat
  BY DEF IInv, TypeOK
<1>2. /\ closed' = [closed EXCEPT ![current] = TRUE] /\ sealed' = [sealed EXCEPT ![current] = issued + 1]
      /\ Put(j)
  BY DEF Seal
<1>3. /\ j \in Jobs /\ j.kind = "Close" /\ j.file = current /\ j.size = 0
      /\ j.sequence = issued + 1 /\ ~j.coalesced
  <2>1. 0 \in Nat /\ "Close" \in Kinds
    BY DEF Kinds
  <2>2. QED
    BY <1>1, <2>1, NewJobIs
<1> HIDE DEF j
<1>4. Puts(j)
  BY <1>2, <1>3 DEF Puts
<1>5. Numbered'
  BY <1>1, <1>3, <1>4, PutNumbered
<1>6. WithinLimits'
  <2>1. Final(j)
    BY <1>3 DEF Final, FinalControls
  <2>2. QED
    BY <1>1, <1>3, <1>4, <2>1, PutWithinLimits
<1>7. Requests'
  BY <1>1, <1>4, PutRequests
<1>8. Closing'
  BY <1>1, <1>2, <1>3, <1>4, SealClosing
<1>9. BytesInOrder'
  <2>1. \A f \in Parts : logical'[f] = After(logical[f], j, f)
    BY <1>3, AfterOthers DEF Changing
  <2>2. \A f \in Parts : length'[f] = Len(logical'[f])
    BY <1>1 DEF BytesInOrder
  <2>3. QED
    BY <1>1, <1>4, <2>1, <2>2, PutBytesInOrder
<1>10. /\ jobs' \in Seq(Jobs) /\ job' \in Seq(Jobs) /\ bytes' \in Int /\ operations' \in Int
       /\ issued' \in Nat /\ done' \in Nat
  BY <1>1, <1>4, PutTyped
<1>11. closed' \in [Parts -> BOOLEAN] /\ sealed' \in [Parts -> Nat]
  BY <1>1, <1>2
<1>12. issued' = issued + 1 /\ done' = done /\ Executed' = Executed /\ Ahead' = Append(Ahead, j)
  BY <1>1, <1>4, PutIs
<1>13. \A f \in Parts : closed'[f] /\ sealed'[f] <= Executed => closed[f] /\ sealed[f] <= Executed
  <2>1. Executed \in Int /\ Executed <= issued
    BY <1>1, QueueIs
  <2>2. ASSUME NEW f \in Parts, closed'[f], sealed'[f] <= Executed
        PROVE  closed[f] /\ sealed[f] <= Executed
    <3>1. CASE f = current
      <4>1. sealed'[f] = issued + 1
        BY <1>1, <1>2, <3>1
      <4>2. QED
        BY <1>1, <2>1, <2>2, <4>1
    <3>2. CASE f # current
      BY <1>1, <1>2, <2>2, <3>2
    <3>3. QED
      BY <3>1, <3>2
  <2>3. QED
    BY <2>2
<1>14. \A i \in DOMAIN Ahead' :
         (i \in DOMAIN Ahead /\ Ahead'[i] = Ahead[i]) \/ Ahead'[i].kind = "Close"
  <2>1. Ahead \in Seq(Jobs)
    BY <1>1, QueueIs
  <2>2. QED
    BY <1>3, <1>12, <2>1, AppendIs
<1>15. QED
  BY <1>5, <1>6, <1>7, <1>8, <1>9, <1>10, <1>11, <1>12, <1>13, <1>14

LEMMA RollKeepsIInv ==
  ASSUME IInv, Roll
  PROVE  IInv'
<1>1. /\ muxerPc = "idle" /\ workerPc \in {"loop", "finalizing"} /\ ~closed[current] /\ current < Files
      /\ Seal(current) /\ current' = (IF error = "ok" THEN current + 1 ELSE current)
      /\ UNCHANGED <<muxerPc, muxerJob, position, length, flushPending, logical>>
      /\ MuxerFrame
  BY DEF Roll, Muxing, Open
<1>2. /\ UNCHANGED <<job, storagePc>> /\ UNCHANGED worker
      /\ UNCHANGED <<spacePending, flushPending, error, disk, durable, closes, logical, length>>
  BY <1>1 DEF MuxerFrame, storage, files
<1>3. /\ Numbered' /\ WithinLimits' /\ Requests' /\ Closing' /\ BytesInOrder'
      /\ jobs' \in Seq(Jobs) /\ job' \in Seq(Jobs) /\ bytes' \in Int /\ operations' \in Int
      /\ issued' \in Nat /\ done' \in Nat
      /\ closed' \in [Parts -> BOOLEAN] /\ sealed' \in [Parts -> Nat]
      /\ issued' = issued + 1 /\ done' = done
      /\ \A f \in Parts : closed'[f] /\ sealed'[f] <= Executed => closed[f] /\ sealed[f] <= Executed
  BY <1>1, <1>2, SealKeeps
<1>4. workerPc' = workerPc /\ flushed' = flushed /\ finished' = finished /\ workerJob' = workerJob
  BY <1>2 DEF worker
<1>5. current \in Parts /\ current' \in Parts
  BY <1>1, FilesAssumption DEF IInv, TypeOK, Parts
<1>6. Seals'
  <2>1. /\ closed' = [closed EXCEPT ![current] = TRUE]
        /\ sealed' = [sealed EXCEPT ![current] = issued + 1]
    BY <1>1 DEF Seal
  <2>2. QED
    BY <1>1, <1>3, <1>4, <1>5, <2>1, SealsNext DEF IInv
<1>7. Flushing' /\ SuccessIsDurable'
  <2> DEFINE j == NewJob("Close", current, 0, 0)
  <2>1. Puts(j)
    <3>1. 0 \in Nat /\ "Close" \in Kinds
      BY DEF Kinds
    <3>2. j \in Jobs /\ j.sequence = issued + 1
      BY <1>5, <3>1, NewJobIs DEF IInv
    <3>3. QED
      BY <1>1, <1>2, <3>2 DEF Seal, Puts
  <2> HIDE DEF j
  <2>2. QED
    BY <1>1, <1>2, <1>3, <1>4, <2>1, PutFlushing DEF IInv
<1>8. TypeOK'
  BY <1>1, <1>2, <1>3, <1>4, <1>5 DEF IInv, TypeOK
<1>9. QED
  BY <1>3, <1>6, <1>7, <1>8 DEF IInv

-----------------------------------------------------------------------------
(* The recorder's worker                                                   *)

\* What the worker's steps that put nothing keep.
LEMMA QuietWorker ==
  ASSUME IInv, UNCHANGED <<queue, spacePending, flushPending, closed, sealed>>, WorkerFrame
  PROVE  /\ WithinLimits' /\ Requests' /\ Closing' /\ BytesInOrder' /\ Numbered'
         /\ Ahead' = Ahead /\ Executed' = Executed
         /\ workerJob' \in Nat => TypeOK'
         /\ (/\ muxerPc # "idle" => workerPc' \in {"loop", "finalizing"}
             /\ workerPc' = "flush" => ~closed[current]
             /\ workerPc' = "closing" => closed[current] /\ workerJob' = sealed[current]
             /\ workerPc' \in {"release", "join", "ended"} => closed[current] /\ sealed[current] <= done)
              => Seals'
         /\ UNCHANGED <<error, disk, durable, logical, closed, sealed, current>>
<1>1. /\ UNCHANGED <<jobs, job, storagePc, issued, done, bytes, operations>>
      /\ UNCHANGED <<flushPending, spacePending, error>>
      /\ UNCHANGED <<disk, durable, closes, logical, length, closed, sealed>>
      /\ UNCHANGED <<current, muxerPc, muxerJob, position>>
  BY DEF WorkerFrame, queue, storage, files, muxer
<1>2. /\ WithinLimits' /\ Requests' /\ Closing' /\ BytesInOrder'
      /\ Pending' = Pending /\ Ahead' = Ahead /\ Executed' = Executed
  BY <1>1, StillQueued
<1>3. Numbered'
  BY <1>1, <1>2 DEF IInv, Numbered
<1>4. workerJob' \in Nat => TypeOK'
  BY <1>1 DEF IInv, TypeOK
<1>5. ASSUME /\ muxerPc # "idle" => workerPc' \in {"loop", "finalizing"}
             /\ workerPc' = "flush" => ~closed[current]
             /\ workerPc' = "closing" => closed[current] /\ workerJob' = sealed[current]
             /\ workerPc' \in {"release", "join", "ended"} => closed[current] /\ sealed[current] <= done
      PROVE  Seals'
  <2>1. issued' \in Nat /\ issued' >= issued /\ done' \in Nat /\ done' >= done
    BY <1>1 DEF IInv, TypeOK
  <2>2. muxerPc' # "idle" => ~closed[current]
    BY <1>1 DEF IInv, Seals
  <2>3. QED
    BY <1>1, <1>5, <2>1, <2>2, SealsStay DEF IInv
<1>6. QED
  BY <1>1, <1>2, <1>3, <1>4, <1>5

\* The loop is left: by a stop, an error, or a request the queue refuses.
LEMMA LeaveKeepsIInv ==
  ASSUME IInv, workerPc = "loop", workerPc' \in {"loop", "finalizing"},
         UNCHANGED <<queue, spacePending, flushPending, closed, sealed>>,
         UNCHANGED <<workerJob, flushed, finished>>, WorkerFrame
  PROVE  IInv'
<1>1. /\ WithinLimits' /\ Requests' /\ Closing' /\ BytesInOrder' /\ Numbered'
      /\ Ahead' = Ahead /\ Executed' = Executed
      /\ UNCHANGED <<error, disk, durable, logical, closed, sealed, current>>
  BY QuietWorker
<1>2. TypeOK'
  BY QuietWorker DEF IInv, TypeOK
<1>3. Seals'
  BY QuietWorker
<1>4. flushed = "none" /\ finished = "none"
  BY DEF IInv, Flushing
<1>5. error = "ok" => \A f \in Parts : closed[f] /\ sealed[f] <= Executed => durable[f] = logical[f]
  BY DEF IInv, Flushing
<1>6. Flushing'
  BY <1>1, <1>4, <1>5 DEF Flushing
<1>7. SuccessIsDurable'
  BY <1>4 DEF SuccessIsDurable
<1>8. QED
  BY <1>1, <1>2, <1>3, <1>6, <1>7 DEF IInv

\* A request of the loop is put.
LEMMA RequestKeepsIInv ==
  ASSUME IInv, NEW j, Puts(j), j.kind \in {"Flush", "Space"}, j.kind = "Flush" => ~closed[j.file],
         j.size = 0, Admits(0), workerPc = "loop", workerPc' = "loop",
         \A f \in Parts : flushPending'[f] => flushPending[f] \/ (j.coalesced /\ j.file = f),
         flushPending' \in [Parts -> BOOLEAN], spacePending' \in BOOLEAN,
         spacePending' => spacePending \/ j.kind = "Space",
         UNCHANGED <<closed, sealed, workerJob, flushed, finished>>, WorkerFrame
  PROVE  IInv'
<1>1. /\ TypeOK /\ Numbered /\ WithinLimits /\ Requests /\ Seals /\ Closing /\ Flushing /\ BytesInOrder
      /\ bytes \in Int /\ operations \in Int /\ issued \in Nat /\ done \in Nat
  BY DEF IInv, TypeOK
<1>2. /\ UNCHANGED <<error, disk, durable, closes, logical, length, closed, sealed>>
      /\ UNCHANGED <<current, muxerPc, muxerJob, position, job, storagePc>>
  BY DEF WorkerFrame, storage, files, muxer
<1>3. Numbered'
  BY <1>1, <1>2, PutNumbered
<1>4. WithinLimits'
  <2>1. operations < OperationLimit /\ 0 <= ByteLimit - bytes
    BY <1>1, LimitsAssumption DEF Admits, Full
  <2>2. QED
    BY <1>1, <2>1, PutWithinLimits
<1>5. Requests'
  BY <1>1, PutRequests
<1>6. Closing'
  BY <1>1, <1>2, PutClosing
<1>7. BytesInOrder'
  <2>1. \A f \in Parts : logical'[f] = After(logical[f], j, f)
    BY <1>2, AfterOthers DEF Changing
  <2>2. \A f \in Parts : length'[f] = Len(logical'[f])
    BY <1>1, <1>2 DEF BytesInOrder
  <2>3. QED
    BY <1>1, <1>2, <2>1, <2>2, PutBytesInOrder
<1>8. Flushing' /\ SuccessIsDurable'
  BY <1>1, <1>2, PutFlushing
<1>9. Seals'
  <2>1. issued' = issued + 1 /\ done' = done
    BY <1>1, PutIs
  <2>2. muxerPc' # "idle" => ~closed[current]
    BY <1>1, <1>2 DEF Seals
  <2>3. issued' \in Nat /\ issued' >= issued /\ done' \in Nat /\ done' >= done
    BY <1>1, <2>1
  <2>4. QED
    BY <1>1, <1>2, <2>2, <2>3, SealsStay
<1>10. TypeOK'
  <2>1. /\ jobs' \in Seq(Jobs) /\ job' \in Seq(Jobs) /\ bytes' \in Int /\ operations' \in Int
        /\ issued' \in Nat /\ done' \in Nat
    BY <1>1, PutTyped
  <2>2. QED
    BY <1>1, <1>2, <2>1 DEF TypeOK
<1>11. QED
  BY <1>3, <1>4, <1>5, <1>6, <1>7, <1>8, <1>9, <1>10 DEF IInv

LEMMA RequestFlushKeepsIInv ==
  ASSUME IInv, RequestFlush
  PROVE  IInv'
<1> DEFINE b == NewJob("Flush", current, 0, 0)
           j == [b EXCEPT !.coalesced = TRUE]
<1>1. /\ current \in Parts /\ flushPending \in [Parts -> BOOLEAN] /\ spacePending \in BOOLEAN /\ TypeOK
  BY DEF IInv, TypeOK
<1>2. /\ workerPc = "loop" /\ UNCHANGED <<spacePending, closed, sealed, workerJob, flushed, finished>>
      /\ WorkerFrame
  BY DEF RequestFlush, Requesting
<1>3. CASE /\ Open(current) /\ ~flushPending[current] /\ Admits(0)
           /\ flushPending' = [flushPending EXCEPT ![current] = TRUE]
           /\ Put(j) /\ UNCHANGED workerPc
  <2>1. /\ j \in Jobs /\ j.kind = "Flush" /\ j.file = current /\ j.size = 0
        /\ j.sequence = issued + 1 /\ j.coalesced
    <3>1. /\ b \in Jobs /\ b.kind = "Flush" /\ b.file = current /\ b.size = 0
          /\ b.sequence = issued + 1
      <4>1. 0 \in Nat /\ "Flush" \in Kinds
        BY DEF Kinds
      <4>2. QED
        BY <1>1, <4>1, NewJobIs
    <3> HIDE DEF b
    <3>2. TRUE \in BOOLEAN
      OBVIOUS
    <3>3. QED
      BY <3>1, <3>2 DEF Jobs
  <2> HIDE DEF j
  <2>2. Puts(j)
    BY <1>2, <1>3, <2>1 DEF Puts, WorkerFrame, storage
  <2>3. /\ \A f \in Parts : flushPending'[f] => flushPending[f] \/ (j.coalesced /\ j.file = f)
        /\ flushPending' \in [Parts -> BOOLEAN]
    BY <1>1, <1>3, <2>1
  <2>4. ~closed[j.file] /\ workerPc' = "loop" /\ spacePending' = spacePending
    BY <1>2, <1>3, <2>1 DEF Open
  <2>5. QED
    BY <1>1, <1>2, <1>3, <2>1, <2>2, <2>3, <2>4, RequestKeepsIInv
<1>4. CASE workerPc' \in {"loop", "finalizing"} /\ UNCHANGED <<queue, flushPending>>
  BY <1>2, <1>4, LeaveKeepsIInv
<1>5. QED
  BY <1>2, <1>3, <1>4 DEF RequestFlush

LEMMA RequestSpaceKeepsIInv ==
  ASSUME IInv, RequestSpace
  PROVE  IInv'
<1> DEFINE j == NewJob("Space", current, 0, 0)
<1>1. /\ current \in Parts /\ flushPending \in [Parts -> BOOLEAN] /\ TypeOK
  BY DEF IInv, TypeOK
<1>2. /\ workerPc = "loop" /\ UNCHANGED <<flushPending, closed, sealed, workerJob, flushed, finished>>
      /\ WorkerFrame
  BY DEF RequestSpace, Requesting
<1>3. CASE /\ Admits(0) /\ spacePending' = TRUE /\ Put(j) /\ UNCHANGED workerPc
  <2>1. j \in Jobs /\ j.kind = "Space" /\ j.size = 0 /\ j.sequence = issued + 1
    <3>1. 0 \in Nat /\ "Space" \in Kinds
      BY DEF Kinds
    <3>2. QED
      BY <1>1, <3>1, NewJobIs
  <2> HIDE DEF j
  <2>2. Puts(j)
    BY <1>2, <1>3, <2>1 DEF Puts, WorkerFrame, storage
  <2>3. spacePending' \in BOOLEAN
    BY <1>3
  <2>4. workerPc' = "loop" /\ flushPending' = flushPending
    BY <1>2, <1>3
  <2>5. QED
    BY <1>1, <1>2, <1>3, <2>1, <2>2, <2>3, <2>4, RequestKeepsIInv
<1>4. CASE workerPc' \in {"loop", "finalizing"} /\ UNCHANGED <<queue, spacePending>>
  BY <1>2, <1>4, LeaveKeepsIInv
<1>5. QED
  BY <1>2, <1>3, <1>4 DEF RequestSpace

LEMMA LeaveLoopKeepsIInv ==
  ASSUME IInv, LeaveLoop
  PROVE  IInv'
<1>1. /\ workerPc = "loop" /\ workerPc' \in {"loop", "finalizing"} /\ WorkerFrame
      /\ UNCHANGED <<queue, spacePending, flushPending, closed, sealed>>
      /\ UNCHANGED <<workerJob, flushed, finished>>
  BY DEF LeaveLoop
<1>2. QED
  BY <1>1, LeaveKeepsIInv

\* The final Flush is put last; no job before or after it bears its number.
LEMMA FinalFlushKeepsIInv ==
  ASSUME IInv, FinalFlush
  PROVE  IInv'
<1> DEFINE j == NewJob("Flush", current, 0, 0)
<1>1. /\ TypeOK /\ Numbered /\ WithinLimits /\ Requests /\ Seals /\ Closing /\ Flushing /\ BytesInOrder
      /\ current \in Parts /\ issued \in Nat /\ done \in Nat /\ workerJob \in Nat
  BY DEF IInv, TypeOK
<1>2. /\ workerPc = "finalizing" /\ muxerPc = "idle" /\ WorkerFrame
      /\ UNCHANGED <<spacePending, flushPending, closed, sealed, finished, requests>>
  BY DEF FinalFlush, Unheld
<1>3. flushed = "none" /\ finished = "none"
  BY <1>1, <1>2 DEF Flushing
<1>4. error = "ok" => \A f \in Parts : closed[f] /\ sealed[f] <= Executed => durable[f] = logical[f]
  BY <1>1 DEF Flushing
<1>5. ASSUME ~closed[current] PROVE IInv'
  <2>1. Put(j) /\ workerJob' = issued + 1 /\ workerPc' = "flush" /\ UNCHANGED flushed
    BY <1>5 DEF FinalFlush, Open
  <2>2. /\ j \in Jobs /\ j.kind = "Flush" /\ j.file = current /\ j.size = 0
        /\ j.sequence = issued + 1 /\ ~j.coalesced
    <3>1. 0 \in Nat /\ "Flush" \in Kinds
      BY DEF Kinds
    <3>2. QED
      BY <1>1, <3>1, NewJobIs
  <2> HIDE DEF j
  <2>3. /\ UNCHANGED <<error, disk, durable, closes, logical, length, closed, sealed>>
        /\ UNCHANGED <<current, muxerPc, muxerJob, position, job, storagePc>>
    BY <1>2 DEF WorkerFrame, storage, files, muxer
  <2>4. Puts(j)
    BY <2>1, <2>2, <2>3 DEF Puts
  <2>5. Numbered'
    BY <1>1, <2>2, <2>3, <2>4, PutNumbered
  <2>6. WithinLimits'
    <3>1. Final(j)
      BY <2>2 DEF Final, FinalControls
    <3>2. QED
      BY <1>1, <2>2, <2>4, <3>1, PutWithinLimits
  <2>7. Requests'
    BY <1>1, <1>2, <2>4, PutRequests
  <2>8. Closing'
    BY <1>1, <1>5, <2>2, <2>3, <2>4, PutClosing
  <2>9. BytesInOrder'
    <3>1. \A f \in Parts : logical'[f] = After(logical[f], j, f)
      BY <2>2, <2>3, AfterOthers DEF Changing
    <3>2. \A f \in Parts : length'[f] = Len(logical'[f])
      BY <1>1, <2>3 DEF BytesInOrder
    <3>3. QED
      BY <1>1, <2>3, <2>4, <3>1, <3>2, PutBytesInOrder
  <2>10. /\ issued' = issued + 1 /\ done' = done /\ Executed' = Executed /\ Ahead' = Append(Ahead, j)
         /\ Executed \in Int /\ Executed <= issued /\ Ahead \in Seq(Jobs)
    BY <1>1, <2>4, PutIs, QueueIs
  <2>11. Seals'
    <3>1. issued' \in Nat /\ issued' >= issued /\ done' \in Nat /\ done' >= done
      BY <1>1, <2>10
    <3>2. muxerPc' = "idle"
      BY <1>2, <2>3
    <3>3. QED
      BY <1>1, <1>5, <2>1, <2>3, <3>1, <3>2, SealsStay
  <2>12. ASSUME NEW i \in DOMAIN Ahead'
         PROVE  /\ Ahead'[i].sequence = workerJob' => Ahead'[i].kind = "Flush" /\ Ahead'[i].file = current'
                /\ ~(Ahead'[i].sequence > workerJob')
    <3>1. CASE i \in DOMAIN Ahead /\ Ahead'[i] = Ahead[i]
      <4>1. /\ Ahead[i].sequence = Executed + i /\ Executed = issued - Len(Ahead)
            /\ Len(Ahead) \in Nat /\ i \in 1 .. Len(Ahead)
        BY <1>1, <2>10, <3>1, QueueIs
      <4>2. Ahead[i].sequence <= issued /\ Ahead[i].sequence \in Int
        BY <1>1, <4>1
      <4>3. QED
        BY <1>1, <2>1, <3>1, <4>2
    <3>2. CASE Ahead'[i] = j
      BY <1>1, <2>1, <2>2, <2>3, <3>2
    <3>3. QED
      BY <2>2, <2>10, <3>1, <3>2, AppendIs
  <2>13. Flushing'
    <3>1. workerJob' <= issued' /\ ~(workerJob' <= Executed')
      BY <1>1, <2>1, <2>10
    <3>2. error' = "ok" => \A f \in Parts :
            closed'[f] /\ sealed'[f] <= Executed' => durable'[f] = logical'[f]
      BY <1>4, <2>3, <2>10
    <3>3. flushed' = "none" /\ finished' = "none" /\ workerPc' = "flush"
      BY <1>2, <1>3, <2>1
    <3>4. QED
      BY <2>12, <3>1, <3>2, <3>3 DEF Flushing
  <2>14. SuccessIsDurable'
    BY <1>2, <1>3, <2>1 DEF SuccessIsDurable
  <2>15. TypeOK'
    <3>1. /\ jobs' \in Seq(Jobs) /\ job' \in Seq(Jobs) /\ bytes' \in Int /\ operations' \in Int
          /\ issued' \in Nat /\ done' \in Nat
      BY <1>1, <2>4, PutTyped
    <3>2. workerJob' \in Nat
      BY <1>1, <2>1
    <3>3. QED
      BY <1>1, <1>2, <2>3, <3>1, <3>2 DEF TypeOK
  <2>16. QED
    BY <2>5, <2>6, <2>7, <2>8, <2>9, <2>11, <2>13, <2>14, <2>15 DEF IInv
<1>6. ASSUME closed[current] PROVE IInv'
  <2>1. flushed' = "shutdown" /\ workerPc' = "close" /\ UNCHANGED <<queue, workerJob>>
    BY <1>6 DEF FinalFlush, Open
  <2>2. UNCHANGED <<queue, spacePending, flushPending, closed, sealed>>
    BY <1>2, <2>1
  <2>3. /\ WithinLimits' /\ Requests' /\ Closing' /\ BytesInOrder' /\ Numbered'
        /\ Ahead' = Ahead /\ Executed' = Executed
        /\ UNCHANGED <<error, disk, durable, logical, closed, sealed, current>>
    BY <1>2, <2>2, QuietWorker
  <2>4. TypeOK' /\ Seals'
    BY <1>1, <1>2, <2>1, <2>2, QuietWorker
  <2>5. Flushing'
    BY <1>2, <1>3, <1>4, <2>1, <2>3 DEF Flushing
  <2>6. SuccessIsDurable'
    BY <1>2, <1>3, <2>1 DEF SuccessIsDurable
  <2>7. QED
    BY <2>3, <2>4, <2>5, <2>6 DEF IInv
<1>7. QED
  BY <1>5, <1>6

\* Flush returns S_OK: its job was carried out without an error, and what is
\* still queued changes nothing of the part.
LEMMA FlushReturnsKeepsIInv ==
  ASSUME IInv, FlushReturns
  PROVE  IInv'
<1>1. /\ TypeOK /\ Numbered /\ Seals /\ Flushing /\ BytesInOrder
      /\ current \in Parts /\ issued \in Nat /\ done \in Nat /\ workerJob \in Nat
      /\ SuccessIsDurable
  BY DEF IInv, TypeOK
<1>2. /\ workerPc = "flush" /\ workerPc' = "close" /\ done >= workerJob /\ flushed' = error
      /\ UNCHANGED <<workerJob, finished>> /\ WorkerFrame
      /\ UNCHANGED <<queue, spacePending, flushPending, closed, sealed>>
  BY DEF FlushReturns, Passed
<1>3. muxerPc = "idle" /\ finished = "none"
  BY <1>1, <1>2 DEF Seals, Flushing
<1>4. /\ WithinLimits' /\ Requests' /\ Closing' /\ BytesInOrder' /\ Numbered'
      /\ Ahead' = Ahead /\ Executed' = Executed
      /\ UNCHANGED <<error, disk, durable, logical, closed, sealed, current>>
  BY <1>2, QuietWorker
<1>5. TypeOK' /\ Seals'
  BY <1>1, <1>2, <1>3, QuietWorker
<1>6. /\ Executed \in Int /\ done <= Executed /\ Ahead \in Seq(Jobs)
      /\ \A i \in DOMAIN Ahead : Ahead[i].sequence = Executed + i
  BY <1>1, QueueIs
<1>7. \A i \in DOMAIN Ahead : Ahead[i].file = current => Ahead[i].kind \notin Changing
  <2>1. \A i \in DOMAIN Ahead : Ahead[i].sequence > workerJob
    <3>1. \A i \in DOMAIN Ahead : i \in Nat /\ i > 0
      BY <1>6
    <3>2. QED
      BY <1>1, <1>2, <1>6, <3>1
  <2>2. QED
    BY <1>1, <1>2, <2>1 DEF Flushing
<1>8. ASSUME error = "ok"
      PROVE  disk[current] = logical[current] /\ durable[current] = logical[current]
  <2>1. workerJob <= Executed
    BY <1>1, <1>2, <1>6
  <2>2. durable[current] = logical[current]
    BY <1>1, <1>2, <1>8, <2>1 DEF Flushing
  <2>3. disk[current] = logical[current]
    BY <1>1, <1>7, <1>8, NothingAhead
  <2>4. QED
    BY <2>2, <2>3
<1>9. error = "ok" => \A f \in Parts : closed[f] /\ sealed[f] <= Executed => durable[f] = logical[f]
  BY <1>1 DEF Flushing
<1>10. Flushing'
  BY <1>2, <1>3, <1>4, <1>7, <1>8, <1>9 DEF Flushing
<1>11. SuccessIsDurable'
  BY <1>2, <1>3, <1>4, <1>8 DEF SuccessIsDurable
<1>12. QED
  BY <1>4, <1>5, <1>10, <1>11 DEF IInv

LEMMA FinalCloseKeepsIInv ==
  ASSUME IInv, FinalClose
  PROVE  IInv'
<1>1. /\ TypeOK /\ Numbered /\ Seals /\ Flushing /\ SuccessIsDurable
      /\ current \in Parts /\ issued \in Nat /\ done \in Nat /\ sealed \in [Parts -> Nat]
  BY DEF IInv, TypeOK
<1>2. /\ workerPc = "close" /\ workerPc' = "closing" /\ WorkerFrame
      /\ UNCHANGED <<spacePending, flushPending, flushed, finished>>
  BY DEF FinalClose
<1>3. muxerPc = "idle" /\ finished = "none"
  BY <1>1, <1>2 DEF Seals, Flushing
<1>4. /\ UNCHANGED <<error, disk, durable, closes, logical, length>>
      /\ UNCHANGED <<current, muxerPc, muxerJob, position, job, storagePc>>
  BY <1>2 DEF WorkerFrame, storage, files, muxer
<1>5. error = "ok" => \A f \in Parts : closed[f] /\ sealed[f] <= Executed => durable[f] = logical[f]
  BY <1>1 DEF Flushing
<1>6. flushed = "ok" =>
        /\ disk[current] = logical[current]
        /\ \A i \in DOMAIN Ahead : Ahead[i].file = current => Ahead[i].kind \notin Changing
  BY <1>1 DEF Flushing
<1>7. SuccessIsDurable'
  BY <1>1, <1>2, <1>3, <1>4 DEF SuccessIsDurable
<1>8. ASSUME ~closed[current] PROVE IInv'
  <2>1. Seal(current) /\ workerJob' = issued + 1
    BY <1>8 DEF FinalClose, Open
  <2>2. muxerPc' = "idle"
    BY <1>3, <1>4
  <2>3. /\ Numbered' /\ WithinLimits' /\ Requests' /\ Closing' /\ BytesInOrder'
        /\ jobs' \in Seq(Jobs) /\ job' \in Seq(Jobs) /\ bytes' \in Int /\ operations' \in Int
        /\ issued' \in Nat /\ done' \in Nat
        /\ closed' \in [Parts -> BOOLEAN] /\ sealed' \in [Parts -> Nat]
        /\ issued' = issued + 1 /\ done' = done /\ Executed' = Executed
        /\ \A f \in Parts : closed'[f] /\ sealed'[f] <= Executed => closed[f] /\ sealed[f] <= Executed
        /\ \A i \in DOMAIN Ahead' :
             (i \in DOMAIN Ahead /\ Ahead'[i] = Ahead[i]) \/ Ahead'[i].kind = "Close"
    BY <1>2, <1>4, <1>8, <2>1, <2>2, SealKeeps
  <2>4. Seals'
    <3>1. /\ closed' = [closed EXCEPT ![current] = TRUE]
          /\ sealed' = [sealed EXCEPT ![current] = issued + 1]
      BY <2>1 DEF Seal
    <3>2. current' = current /\ current' \in Parts
      BY <1>1, <1>4
    <3>3. QED
      BY <1>1, <1>2, <1>8, <2>1, <2>2, <2>3, <3>1, <3>2, SealsNext
  <2>5. Flushing'
    <3>1. error' = "ok" => \A f \in Parts :
            closed'[f] /\ sealed'[f] <= Executed' => durable'[f] = logical'[f]
      BY <1>4, <1>5, <2>3
    <3>2. flushed' = "ok" =>
            /\ disk'[current'] = logical'[current']
            /\ \A i \in DOMAIN Ahead' : Ahead'[i].file = current' => Ahead'[i].kind \notin Changing
      <4>1. "Close" \notin Changing
        BY DEF Changing
      <4>2. QED
        BY <1>2, <1>4, <1>6, <2>3, <4>1
    <3>3. finished' = "none" /\ workerPc' = "closing"
      BY <1>2, <1>3
    <3>4. QED
      BY <3>1, <3>2, <3>3 DEF Flushing
  <2>6. TypeOK'
    <3>1. workerJob' \in Nat
      BY <1>1, <2>1
    <3>2. QED
      BY <1>1, <1>2, <1>4, <2>3, <3>1 DEF TypeOK
  <2>7. QED
    BY <1>7, <2>3, <2>4, <2>5, <2>6 DEF IInv
<1>9. ASSUME closed[current] PROVE IInv'
  <2>1. workerJob' = sealed[current] /\ UNCHANGED <<queue, spacePending, flushPending, closed, sealed>>
    BY <1>2, <1>9 DEF FinalClose, Open
  <2>2. /\ WithinLimits' /\ Requests' /\ Closing' /\ BytesInOrder' /\ Numbered'
        /\ Ahead' = Ahead /\ Executed' = Executed
        /\ UNCHANGED <<error, disk, durable, logical, closed, sealed, current>>
    BY <1>2, <2>1, QuietWorker
  <2>3. TypeOK'
    <3>1. workerJob' \in Nat
      BY <1>1, <2>1
    <3>2. QED
      BY <1>2, <2>1, <3>1, QuietWorker
  <2>4. Seals'
    BY <1>2, <1>3, <1>9, <2>1, QuietWorker
  <2>5. Flushing'
    BY <1>2, <1>3, <1>5, <1>6, <2>2 DEF Flushing
  <2>6. QED
    BY <1>7, <2>2, <2>3, <2>4, <2>5 DEF IInv
<1>10. QED
  BY <1>8, <1>9

\* Close returns S_OK: the Close of the current part was carried out without an
\* error, and so were those of the parts sealed before it.
LEMMA CloseReturnsKeepsIInv ==
  ASSUME IInv, CloseReturns
  PROVE  IInv'
<1>1. /\ TypeOK /\ Numbered /\ Seals /\ Flushing /\ SuccessIsDurable
      /\ current \in Parts /\ issued \in Nat /\ done \in Nat /\ workerJob \in Nat
      /\ sealed \in [Parts -> Nat]
  BY DEF IInv, TypeOK
<1>2. /\ workerPc = "closing" /\ workerPc' = "release" /\ done >= workerJob /\ finished' = error
      /\ UNCHANGED <<workerJob, flushed>> /\ WorkerFrame
      /\ UNCHANGED <<queue, spacePending, flushPending, closed, sealed>>
  BY DEF CloseReturns, Passed
<1>3. muxerPc = "idle" /\ closed[current] /\ sealed[current] <= done
  BY <1>1, <1>2 DEF Seals
<1>4. /\ WithinLimits' /\ Requests' /\ Closing' /\ BytesInOrder' /\ Numbered'
      /\ Ahead' = Ahead /\ Executed' = Executed
      /\ UNCHANGED <<error, disk, durable, logical, closed, sealed, current>>
  BY <1>2, QuietWorker
<1>5. TypeOK' /\ Seals'
  BY <1>1, <1>2, <1>3, QuietWorker
<1>6. /\ error = "ok" => \A f \in Parts : closed[f] /\ sealed[f] <= Executed => durable[f] = logical[f]
      /\ flushed = "ok" =>
           /\ disk[current] = logical[current]
           /\ \A i \in DOMAIN Ahead : Ahead[i].file = current => Ahead[i].kind \notin Changing
  BY <1>1 DEF Flushing
<1>7. Flushing'
  BY <1>2, <1>4, <1>6 DEF Flushing
<1>8. ASSUME error = "ok", NEW f \in 1 .. current PROVE durable[f] = logical[f]
  <2>1. f \in Parts /\ f \in Int /\ current \in Int /\ f <= current
    BY <1>1, FilesAssumption DEF Parts
  <2>2. closed[f] /\ sealed[f] <= sealed[current]
    <3>1. CASE f = current
      BY <1>1, <1>3, <3>1
    <3>2. CASE f # current
      <4>1. f < current
        BY <2>1, <3>2
      <4>2. closed[f] /\ sealed[f] < sealed[current]
        BY <1>1, <1>3, <2>1, <4>1 DEF Seals
      <4>3. QED
        BY <1>1, <2>1, <4>2
    <3>3. QED
      BY <3>1, <3>2
  <2>3. Executed \in Int /\ done <= Executed
    BY <1>1, QueueIs
  <2>4. sealed[f] \in Nat /\ sealed[current] \in Nat
    BY <1>1, <2>1
  <2>5. sealed[f] <= Executed
    BY <1>1, <1>3, <2>2, <2>3, <2>4
  <2>6. QED
    BY <1>6, <1>8, <2>1, <2>2, <2>5
<1>9. SuccessIsDurable'
  BY <1>1, <1>2, <1>4, <1>8 DEF SuccessIsDurable
<1>10. QED
  BY <1>4, <1>5, <1>7, <1>9 DEF IInv

LEMMA ReleaseJoinKeepsIInv ==
  ASSUME IInv, Release \/ Join
  PROVE  IInv'
<1>1. /\ UNCHANGED <<jobs, job, storagePc, issued, done, bytes, operations>>
      /\ UNCHANGED <<flushPending, spacePending, error>>
      /\ UNCHANGED <<disk, durable, closes, logical, length, closed, sealed>>
      /\ UNCHANGED <<position, muxerPc, muxerJob, current>>
      /\ UNCHANGED <<workerJob, flushed, finished>>
      /\ workerPc \in {"release", "join"} /\ workerPc' \in {"join", "ended"}
  <2>1. CASE Release
    BY <2>1 DEF Release, queue, streams, files, muxer
  <2>2. CASE Join
    BY <2>2 DEF Join, WorkerFrame, queue, storage, streams, files, muxer
  <2>3. QED
    BY <2>1, <2>2
<1>2. /\ WithinLimits' /\ Requests' /\ Closing' /\ BytesInOrder'
      /\ Pending' = Pending /\ Ahead' = Ahead /\ Executed' = Executed
  BY <1>1, StillQueued
<1>3. Numbered'
  BY <1>1, <1>2 DEF IInv, Numbered
<1>4. TypeOK'
  BY <1>1 DEF IInv, TypeOK
<1>5. Seals'
  <2>1. issued' \in Nat /\ issued' >= issued /\ done' \in Nat /\ done' >= done
    BY <1>1 DEF IInv, TypeOK
  <2>2. muxerPc = "idle" /\ closed[current] /\ sealed[current] <= done
    BY <1>1 DEF IInv, Seals
  <2>3. QED
    BY <1>1, <2>1, <2>2, SealsStay DEF IInv
<1>6. /\ error = "ok" => \A f \in Parts : closed[f] /\ sealed[f] <= Executed => durable[f] = logical[f]
      /\ flushed = "ok" =>
           /\ disk[current] = logical[current]
           /\ \A i \in DOMAIN Ahead : Ahead[i].file = current => Ahead[i].kind \notin Changing
  BY DEF IInv, Flushing
<1>7. Flushing'
  BY <1>1, <1>2, <1>6 DEF Flushing
<1>8. SuccessIsDurable'
  BY <1>1 DEF IInv, SuccessIsDurable
<1>9. QED
  BY <1>2, <1>3, <1>4, <1>5, <1>7, <1>8 DEF IInv

-----------------------------------------------------------------------------
(* The storage thread between two executions                               *)

\* A failure that becomes known only weakens what is promised.
LEMMA QuietStorage ==
  ASSUME IInv, Ahead' = Ahead, Executed' = Executed, issued' = issued, done' \in Nat, done' >= done,
         error' = "ok" => error = "ok", error' \in {"ok"} \cup Errors,
         UNCHANGED <<files, logical, length, closed, sealed, position, muxer, worker>>,
         jobs' \in Seq(Jobs), job' \in Seq(Jobs), bytes' \in Int, operations' \in Int,
         flushPending' \in [Parts -> BOOLEAN], spacePending' \in BOOLEAN
  PROVE  /\ TypeOK' /\ Closing' /\ BytesInOrder' /\ Flushing' /\ SuccessIsDurable' /\ Seals'
<1>1. /\ UNCHANGED <<disk, durable, closes, logical, length, closed, sealed, position>>
      /\ UNCHANGED <<current, muxerPc, muxerJob, workerPc, workerJob, flushed, finished>>
  BY DEF files, muxer, worker
<1>2. TypeOK /\ Closing /\ BytesInOrder /\ Flushing /\ SuccessIsDurable /\ Seals
  BY DEF IInv
<1>3. TypeOK'
  <2>1. issued' \in Nat
    BY <1>2 DEF TypeOK
  <2>2. QED
    BY <1>1, <1>2, <2>1 DEF TypeOK
<1>4. Closing'
  BY <1>1, <1>2 DEF Closing
<1>5. BytesInOrder'
  BY <1>1, <1>2 DEF BytesInOrder
<1>6. Flushing'
  BY <1>1, <1>2 DEF Flushing
<1>7. SuccessIsDurable'
  BY <1>1, <1>2 DEF SuccessIsDurable
<1>8. Seals'
  <2>1. issued' \in Nat /\ issued' >= issued
    BY <1>2 DEF TypeOK
  <2>2. /\ muxerPc # "idle" => ~closed[current] /\ workerPc \in {"loop", "finalizing"}
        /\ workerPc = "flush" => ~closed[current]
        /\ workerPc = "closing" => closed[current] /\ workerJob = sealed[current]
        /\ workerPc \in {"release", "join", "ended"} => closed[current] /\ sealed[current] <= done
    BY <1>2 DEF Seals
  <2>3. QED
    BY <1>1, <1>2, <2>1, <2>2, SealsStay
<1>9. QED
  BY <1>3, <1>4, <1>5, <1>6, <1>7, <1>8

LEMMA StorageStartExitKeepsIInv ==
  ASSUME IInv, StorageStart \/ StorageExit
  PROVE  IInv'
<1>1. /\ UNCHANGED <<jobs, job, bytes, operations, issued, done, flushPending, spacePending>>
      /\ UNCHANGED <<files, logical, length, closed, sealed, position, muxer, worker>>
      /\ storagePc \in {"start", "wait"} /\ storagePc' \in {"wait", "joined"}
  <2>1. CASE StorageStart
    BY <2>1 DEF StorageStart, StorageFrame, queue, files, streams
  <2>2. CASE StorageExit
    BY <2>2 DEF StorageExit, StorageFrame, queue, files, streams
  <2>3. QED
    BY <2>1, <2>2
<1>2. (error' = "ok" => error = "ok") /\ error' \in {"ok"} \cup Errors
  <2>1. error \in {"ok"} \cup Errors
    BY DEF IInv, TypeOK
  <2>2. CASE StorageStart
    BY <2>1, <2>2 DEF StorageStart, Fail
  <2>3. CASE StorageExit
    BY <2>1, <2>3 DEF StorageExit
  <2>4. QED
    BY <2>2, <2>3
<1>3. Pending' = Pending /\ Ahead' = Ahead
  BY <1>1 DEF Pending, Ahead
<1>4. Executed' = Executed
  BY <1>1, <1>3 DEF Executed
<1>5. TypeOK' /\ Closing' /\ BytesInOrder' /\ Flushing' /\ SuccessIsDurable' /\ Seals'
  <2>1. /\ jobs' \in Seq(Jobs) /\ job' \in Seq(Jobs) /\ bytes' \in Int /\ operations' \in Int
        /\ flushPending' \in [Parts -> BOOLEAN] /\ spacePending' \in BOOLEAN
        /\ done' \in Nat /\ done' >= done
    BY <1>1 DEF IInv, TypeOK
  <2>2. QED
    BY <1>1, <1>2, <1>3, <1>4, <2>1, QuietStorage
<1>6. WithinLimits'
  BY <1>1, <1>3 DEF IInv, WithinLimits
<1>7. Numbered'
  <2>1. muxerPc' = muxerPc /\ muxerJob' = muxerJob
    BY <1>1 DEF muxer
  <2>2. job = <<>> /\ job' = <<>>
    BY <1>1 DEF IInv, Numbered
  <2>3. storagePc' \notin {"execute", "executed", "settled"}
    BY <1>1
  <2>4. QED
    BY <1>1, <1>3, <2>1, <2>2, <2>3 DEF IInv, Numbered
<1>8. Requests'
  BY <1>1, <1>3 DEF IInv, Requests
<1>9. QED
  BY <1>5, <1>6, <1>7, <1>8 DEF IInv

LEMMA PopKeepsIInv ==
  ASSUME IInv, Pop
  PROVE  IInv'
<1>1. /\ storagePc = "wait" /\ jobs # <<>> /\ job' = <<Head(jobs)>> /\ jobs' = Tail(jobs)
      /\ storagePc' = "execute"
      /\ UNCHANGED <<bytes, operations, issued, done, flushPending, spacePending, error>>
      /\ UNCHANGED <<files, logical, length, closed, sealed, position, muxer, worker>>
  BY DEF Pop, StorageFrame, streams
<1>2. jobs \in Seq(Jobs) /\ job = <<>>
  BY <1>1 DEF IInv, TypeOK, Numbered
<1>3. /\ Tail(jobs) \in Seq(Jobs) /\ Head(jobs) = jobs[1] /\ jobs[1] \in Jobs
      /\ \A i \in DOMAIN jobs : i # 1 => i - 1 \in DOMAIN Tail(jobs) /\ Tail(jobs)[i - 1] = jobs[i]
  BY <1>1, <1>2, TailIs
<1>4. job' \in Seq(Jobs) /\ Len(job') = 1 /\ job'[1] = jobs[1]
  BY <1>1, <1>3
<1>5. Pending = jobs /\ Ahead = jobs
  <2>1. <<>> \o jobs = jobs
    BY <1>2
  <2>2. QED
    BY <1>1, <1>2, <2>1 DEF Pending, Ahead
<1>6. Pending' = jobs /\ Ahead' = jobs
  <2>1. \A s \in Seq(Jobs) : s # <<>> => <<Head(s)>> \o Tail(s) = s
    <3>1. ASSUME NEW s \in Seq(Jobs), s # <<>> PROVE <<Head(s)>> \o Tail(s) = s
      <4>1. <<Head(s)>> \o Tail(s) \in Seq(Jobs)
        BY <3>1
      <4>2. Len(<<Head(s)>> \o Tail(s)) = Len(s)
        BY <3>1
      <4>3. \A i \in 1 .. Len(s) : (<<Head(s)>> \o Tail(s))[i] = s[i]
        BY <3>1
      <4>4. QED
        BY <4>1, <4>2, <4>3, SeqEqual
    <3>2. QED
      BY <3>1
  <2>2. QED
    BY <1>1, <1>2, <2>1 DEF Pending, Ahead
<1>7. Pending' = Pending /\ Ahead' = Ahead /\ Executed' = Executed
  <2>1. Pending' = Pending /\ Ahead' = Ahead
    BY <1>5, <1>6
  <2>2. QED
    BY <1>1, <2>1 DEF Executed
<1>8. TypeOK' /\ Closing' /\ BytesInOrder' /\ Flushing' /\ SuccessIsDurable' /\ Seals'
  <2>1. /\ jobs' \in Seq(Jobs) /\ bytes' \in Int /\ operations' \in Int
        /\ flushPending' \in [Parts -> BOOLEAN] /\ spacePending' \in BOOLEAN
        /\ done' \in Nat /\ done' >= done /\ error' \in {"ok"} \cup Errors
    BY <1>1, <1>3 DEF IInv, TypeOK
  <2>2. QED
    BY <1>1, <1>4, <1>7, <2>1, QuietStorage
<1>9. WithinLimits'
  BY <1>1, <1>7 DEF IInv, WithinLimits
<1>10. Numbered'
  <2>1. muxerPc' = muxerPc /\ muxerJob' = muxerJob
    BY <1>1 DEF muxer
  <2>2. QED
    BY <1>1, <1>4, <1>7, <2>1 DEF IInv, Numbered
<1>11. Requests'
  <2>1. ASSUME NEW f \in Parts, flushPending'[f]
        PROVE  \/ \E i \in DOMAIN jobs' : jobs'[i].coalesced /\ jobs'[i].file = f
               \/ storagePc' \in {"execute", "executed"} /\ job'[1].coalesced /\ job'[1].file = f
    <3>1. PICK i \in DOMAIN jobs : jobs[i].coalesced /\ jobs[i].file = f
      BY <1>1, <2>1 DEF IInv, Requests
    <3>2. CASE i = 1
      BY <1>1, <1>4, <3>1, <3>2
    <3>3. CASE i # 1
      BY <1>1, <1>3, <3>1, <3>3
    <3>4. QED
      BY <3>2, <3>3
  <2>2. spacePending' => \E i \in DOMAIN Pending' : Pending'[i].kind = "Space"
    BY <1>1, <1>7 DEF IInv, Requests
  <2>3. QED
    BY <2>1, <2>2 DEF Requests
<1>12. QED
  BY <1>8, <1>9, <1>10, <1>11 DEF IInv

LEMMA SettleKeepsIInv ==
  ASSUME IInv, Settle
  PROVE  IInv'
<1>1. /\ storagePc = "executed" /\ storagePc' = "settled"
      /\ flushPending' = IF job[1].coalesced
                         THEN [flushPending EXCEPT ![job[1].file] = FALSE] ELSE flushPending
      /\ UNCHANGED <<jobs, job, bytes, operations, issued, done, spacePending, error>>
      /\ UNCHANGED <<files, logical, length, closed, sealed, position, muxer, worker>>
  BY DEF Settle, queue
<1>2. Pending' = Pending /\ Ahead' = Ahead
  BY <1>1 DEF Pending, Ahead
<1>3. Executed' = Executed
  BY <1>1, <1>2 DEF Executed
<1>4. flushPending \in [Parts -> BOOLEAN] /\ flushPending' \in [Parts -> BOOLEAN]
  <2>1. flushPending \in [Parts -> BOOLEAN]
    BY DEF IInv, TypeOK
  <2>2. [flushPending EXCEPT ![job[1].file] = FALSE] \in [Parts -> BOOLEAN]
    BY <2>1
  <2>3. QED
    BY <1>1, <2>1, <2>2
<1>5. TypeOK' /\ Closing' /\ BytesInOrder' /\ Flushing' /\ SuccessIsDurable' /\ Seals'
  <2>1. /\ jobs' \in Seq(Jobs) /\ job' \in Seq(Jobs) /\ bytes' \in Int /\ operations' \in Int
        /\ spacePending' \in BOOLEAN
        /\ done' \in Nat /\ done' >= done /\ error' \in {"ok"} \cup Errors
    BY <1>1 DEF IInv, TypeOK
  <2>2. QED
    BY <1>1, <1>2, <1>3, <1>4, <2>1, QuietStorage
<1>6. WithinLimits'
  BY <1>1, <1>2 DEF IInv, WithinLimits
<1>7. Numbered'
  <2>1. muxerPc' = muxerPc /\ muxerJob' = muxerJob
    BY <1>1 DEF muxer
  <2>2. Len(job') = 1
    BY <1>1 DEF IInv, Numbered
  <2>3. QED
    BY <1>1, <1>2, <2>1, <2>2 DEF IInv, Numbered
<1>8. Requests'
  <2>1. ASSUME NEW f \in Parts, flushPending'[f]
        PROVE  \E i \in DOMAIN jobs' : jobs'[i].coalesced /\ jobs'[i].file = f
    <3>1. flushPending[f] /\ ~(job[1].coalesced /\ job[1].file = f)
      BY <1>1, <1>4, <2>1
    <3>2. \E i \in DOMAIN jobs : jobs[i].coalesced /\ jobs[i].file = f
      BY <3>1 DEF IInv, Requests
    <3>3. QED
      BY <1>1, <3>2
  <2>2. spacePending' => \E i \in DOMAIN Pending' : Pending'[i].kind = "Space"
    BY <1>1, <1>2 DEF IInv, Requests
  <2>3. QED
    BY <2>1, <2>2 DEF Requests
<1>9. QED
  BY <1>5, <1>6, <1>7, <1>8 DEF IInv

\* The job in hand is reported done: it leaves the queue's counts.
LEMMA CompleteKeepsIInv ==
  ASSUME IInv, Complete
  PROVE  IInv'
<1>1. /\ storagePc = "settled" /\ storagePc' = "wait" /\ bytes' = bytes - job[1].size
      /\ operations' = operations - 1 /\ done' = job[1].sequence /\ job' = <<>>
      /\ spacePending' = (spacePending /\ job[1].kind # "Space")
      /\ UNCHANGED <<jobs, issued, error, flushPending>>
      /\ UNCHANGED <<files, logical, length, closed, sealed, position, muxer, worker>>
  BY DEF Complete, Done, StorageFrame, streams
<1>2. /\ jobs \in Seq(Jobs) /\ job \in Seq(Jobs) /\ Len(job) = 1 /\ bytes \in Int /\ operations \in Int
      /\ issued \in Nat /\ done \in Nat /\ TypeOK /\ Numbered /\ Pending \in Seq(Jobs)
      /\ spacePending \in BOOLEAN /\ flushPending \in [Parts -> BOOLEAN]
  BY <1>1, QueueIs DEF IInv, TypeOK, Numbered
<1>3. /\ Len(Pending) = Len(jobs) + 1 /\ Len(jobs) \in Nat /\ Pending[1] = job[1] /\ job[1] \in Jobs
      /\ \A i \in 1 .. Len(jobs) : Pending[i + 1] = jobs[i]
  <2>1. /\ Len(job \o jobs) = Len(jobs) + 1 /\ Len(jobs) \in Nat /\ (job \o jobs)[1] = job[1]
        /\ job[1] \in Jobs /\ \A i \in 1 .. Len(jobs) : (job \o jobs)[i + 1] = jobs[i]
    BY <1>2, ConcatIs
  <2>2. QED
    BY <2>1 DEF Pending
<1>4. Pending' = jobs
  <2>1. <<>> \o jobs = jobs
    BY <1>2
  <2>2. QED
    BY <1>1, <2>1 DEF Pending
<1>5. Ahead' = Ahead /\ Executed' = Executed
  <2>1. Ahead = jobs /\ Ahead' = jobs
    BY <1>1 DEF Ahead
  <2>2. QED
    BY <1>1, <2>1 DEF Executed
<1>6. /\ issued = done + Len(Pending)
      /\ \A i \in DOMAIN Pending : Pending[i].sequence = done + i
      /\ \A i \in DOMAIN Pending : Pending[i].kind = "Write" => Pending[i].size > 0
  BY <1>2 DEF Numbered
<1>7. DOMAIN Pending = 1 .. Len(jobs) + 1 /\ DOMAIN jobs = 1 .. Len(jobs)
  BY <1>2, <1>3
<1>8. done' = done + 1
  <2>1. 1 \in DOMAIN Pending
    BY <1>3, <1>7
  <2>2. QED
    BY <1>1, <1>3, <1>6, <2>1
<1>9. \A i \in DOMAIN jobs : i \in Nat /\ i + 1 \in DOMAIN Pending /\ Pending[i + 1] = jobs[i]
  BY <1>3, <1>7
<1>10. job[1].size \in Nat
  BY <1>3 DEF Jobs
<1>11. TypeOK' /\ Closing' /\ BytesInOrder' /\ Flushing' /\ SuccessIsDurable' /\ Seals'
  <2>1. /\ jobs' \in Seq(Jobs) /\ job' \in Seq(Jobs) /\ bytes' \in Int /\ operations' \in Int
        /\ done' \in Nat /\ done' >= done
    BY <1>1, <1>2, <1>8, <1>10
  <2>2. spacePending' \in BOOLEAN /\ flushPending' \in [Parts -> BOOLEAN]
    <3>1. flushPending' \in [Parts -> BOOLEAN]
      BY <1>1, <1>2
    <3>2. spacePending' \in BOOLEAN
      BY <1>1
    <3>3. QED
      BY <3>1, <3>2
  <2>3. error' \in {"ok"} \cup Errors /\ (error' = "ok" => error = "ok")
    BY <1>1, <1>2 DEF TypeOK
  <2>4. QED
    BY <1>1, <1>5, <2>1, <2>2, <2>3, QuietStorage
<1>12. WithinLimits'
  <2> DEFINE I == {i \in DOMAIN Pending : ~Final(Pending[i])}
             K == {i \in DOMAIN Pending' : ~Final(Pending'[i])}
  <2>1. operations = Len(Pending) /\ bytes <= ByteLimit /\ Cardinality(I) <= OperationLimit
    BY DEF IInv, WithinLimits
  <2>2. operations' = Len(Pending')
    BY <1>1, <1>3, <1>4, <2>1
  <2>3. bytes' <= ByteLimit
    <3>1. ByteLimit \in Int
      BY LimitsAssumption
    <3>2. QED
      BY <1>1, <1>2, <1>10, <2>1, <3>1
  <2>4. Cardinality(K) <= Cardinality(I) /\ Cardinality(K) \in Nat /\ Cardinality(I) \in Nat
    <3> DEFINE g == [i \in K |-> i + 1]
    <3>1. \A i \in K : i \in Nat /\ i + 1 \in I
      BY <1>4, <1>9
    <3>2. g \in Injection(K, I)
      <4>1. g \in [K -> I]
        BY <3>1
      <4>2. \A a, b \in K : g[a] = g[b] => a = b
        BY <3>1
      <4>3. QED
        BY <4>1, <4>2 DEF Injection, IsInjective
    <3>3. IsFiniteSet(I)
      <4>1. IsFiniteSet(1 .. Len(jobs) + 1)
        BY <1>3, FS_Interval
      <4>2. I \in SUBSET (1 .. Len(jobs) + 1)
        BY <1>7
      <4>3. QED
        BY <4>1, <4>2, FS_Subset
    <3> HIDE DEF I, K, g
    <3>4. IsFiniteSet(K) /\ Cardinality(K) <= Cardinality(I)
      BY <3>2, <3>3, FS_Injection
    <3>5. QED
      BY <3>3, <3>4, FS_CardinalityType
  <2>5. Cardinality(K) <= OperationLimit
    <3>1. OperationLimit \in Int
      BY LimitsAssumption
    <3> HIDE DEF I, K
    <3>2. QED
      BY <2>1, <2>4, <3>1
  <2>6. QED
    BY <2>2, <2>3, <2>5 DEF WithinLimits
<1>13. Numbered'
  <2>1. muxerPc' = muxerPc /\ muxerJob' = muxerJob
    BY <1>1 DEF muxer
  <2>2. issued' = done' + Len(Pending')
    BY <1>1, <1>2, <1>3, <1>4, <1>6, <1>8
  <2>3. \A i \in DOMAIN Pending' : Pending'[i].sequence = done' + i
    <3>1. ASSUME NEW i \in DOMAIN jobs PROVE jobs[i].sequence = done' + i
      <4>1. jobs[i].sequence = done + (i + 1) /\ i \in Nat
        BY <1>6, <1>9
      <4>2. QED
        BY <1>2, <1>8, <4>1
    <3>2. QED
      BY <1>4, <3>1
  <2>4. \A i \in DOMAIN Pending' : Pending'[i].kind = "Write" => Pending'[i].size > 0
    <3>1. \A i \in DOMAIN jobs : jobs[i].kind = "Write" => jobs[i].size > 0
      BY <1>6, <1>9
    <3>2. QED
      BY <1>4, <3>1
  <2>5. storagePc' \notin {"execute", "executed", "settled"} /\ job' = <<>>
    BY <1>1
  <2>6. muxerPc' = "write" => muxerJob' > 0
    BY <1>2, <2>1 DEF Numbered
  <2>7. QED
    BY <2>2, <2>3, <2>4, <2>5, <2>6 DEF Numbered
<1>14. Requests'
  <2>1. ASSUME NEW f \in Parts, flushPending'[f]
        PROVE  \E i \in DOMAIN jobs' : jobs'[i].coalesced /\ jobs'[i].file = f
    BY <1>1, <2>1 DEF IInv, Requests
  <2>2. ASSUME spacePending'
        PROVE  \E i \in DOMAIN Pending' : Pending'[i].kind = "Space"
    <3>1. spacePending /\ job[1].kind # "Space"
      BY <1>1, <2>2
    <3>2. PICK i \in DOMAIN Pending : Pending[i].kind = "Space"
      BY <3>1 DEF IInv, Requests
    <3>3. i # 1
      BY <1>3, <3>1, <3>2
    <3>4. i - 1 \in DOMAIN jobs /\ (i - 1) + 1 = i
      BY <1>3, <1>7, <3>2, <3>3
    <3>5. jobs[i - 1] = Pending[i]
      BY <1>9, <3>4
    <3>6. QED
      BY <1>4, <3>2, <3>4, <3>5
  <2>3. QED
    BY <2>1, <2>2 DEF Requests
<1>15. QED
  BY <1>11, <1>12, <1>13, <1>14 DEF IInv

-----------------------------------------------------------------------------
(* The storage thread carries out a job                                    *)

LEMMA PatchedTyped ==
  ASSUME NEW c \in Contents, NEW p \in Nat, NEW n \in Nat, NEW w \in Nat
  PROVE  Patched(c, p, n, w) \in Contents
<1>1. c \in Seq(Nat) /\ Len(c) \in Nat /\ p + n \in Nat
  BY DEF Contents
<1>2. PICK m \in Nat : m = IF p + n > Len(c) THEN p + n ELSE Len(c)
  BY <1>1
<1> DEFINE e(i) == IF i > p /\ i <= p + n THEN w ELSE IF i <= Len(c) THEN c[i] ELSE 0
<1>3. \A i \in 1 .. m : e(i) \in Nat
  BY <1>1
<1>4. Patched(c, p, n, w) = [i \in 1 .. m |-> e(i)]
  BY <1>2 DEF Patched
<1> HIDE DEF e
<1>5. [i \in 1 .. m |-> e(i)] \in Seq(Nat)
  BY <1>3
<1>6. QED
  BY <1>4, <1>5 DEF Contents

LEMMA ResizedTyped ==
  ASSUME NEW c \in Contents, NEW n \in Nat
  PROVE  Resized(c, n) \in Contents
<1>1. c \in Seq(Nat) /\ Len(c) \in Nat
  BY DEF Contents
<1> DEFINE e(i) == IF i <= Len(c) THEN c[i] ELSE 0
<1>2. \A i \in 1 .. n : e(i) \in Nat
  BY <1>1
<1>3. Resized(c, n) = [i \in 1 .. n |-> e(i)]
  BY DEF Resized
<1> HIDE DEF e
<1>4. [i \in 1 .. n |-> e(i)] \in Seq(Nat)
  BY <1>2
<1>5. QED
  BY <1>3, <1>4 DEF Contents

\* What carrying out j does to the files: only a Write and a Resize change the
\* contents, only a Flush and a Close make them durable, and what succeeds does
\* so in full.
Carries(j) ==
  /\ disk' \in [Parts -> Contents] /\ durable' \in [Parts -> Contents]
  /\ closes' \in [Parts -> Nat] /\ error' \in {"ok"} \cup Errors
  /\ error' = "ok" => error = "ok"
  /\ closes' = IF j.kind = "Close" THEN [closes EXCEPT ![j.file] = @ + 1] ELSE closes
  /\ \A f \in Parts : j.file # f \/ j.kind \notin Changing => disk'[f] = disk[f]
  /\ \A f \in Parts : durable'[f] = durable[f]
                      \/ (j.file = f /\ j.kind \in {"Flush", "Close"} /\ durable'[f] = disk[f])
  /\ error' = "ok" => \A f \in Parts :
       /\ disk'[f] = After(disk[f], j, f)
       /\ j.file = f /\ j.kind \in {"Flush", "Close"} => durable'[f] = disk[f]

\* A job that is skipped, or touches no file.
LEMMA CarriesNothing ==
  ASSUME TypeOK, NEW j, UNCHANGED files, error' \in {"ok"} \cup Errors, error' = "ok" => error = "ok",
         j.kind \in Kinds, error' = "ok" => j.kind \in {"Read", "Space"},
         j.kind # "Close"
  PROVE  Carries(j)
<1>1. disk' = disk /\ durable' = durable /\ closes' = closes
  BY DEF files
<1>2. disk \in [Parts -> Contents] /\ durable \in [Parts -> Contents] /\ closes \in [Parts -> Nat]
  BY DEF TypeOK
<1>3. error' = "ok" => \A f \in Parts : disk'[f] = After(disk[f], j, f)
  BY <1>1, AfterOthers DEF Changing
<1>4. error' = "ok" => j.kind \notin {"Flush", "Close"}
  OBVIOUS
<1>5. QED
  BY <1>1, <1>2, <1>3, <1>4 DEF Carries

LEMMA CarriesWrite ==
  ASSUME TypeOK, NEW j \in Jobs, j.kind = "Write", j.size > 0,
         NEW hr \in {"ok"} \cup Errors, Fail(hr), ExecuteWrite(j, hr)
  PROVE  Carries(j)
<1>1. /\ disk \in [Parts -> Contents] /\ durable \in [Parts -> Contents] /\ closes \in [Parts -> Nat]
      /\ error \in {"ok"} \cup Errors
  BY DEF TypeOK
<1>2. j.file \in Parts /\ j.size \in Nat /\ j.position \in Nat /\ j.sequence \in Nat
  BY DEF Jobs
<1>3. error' \in {"ok"} \cup Errors /\ (error' = "ok" => error = "ok" /\ hr = "ok")
  BY <1>1 DEF Fail
<1>4. durable' = durable /\ closes' = closes
  BY DEF ExecuteWrite
<1>5. PICK n \in IF hr = "ok" THEN {j.size} ELSE 0 .. j.size - 1 :
        disk' = IF n = 0 THEN disk
                ELSE [disk EXCEPT ![j.file] = Patched(@, j.position, n, j.sequence)]
  BY DEF ExecuteWrite
<1>6. n \in Nat
  BY <1>2, <1>5
<1>7. PICK c \in Contents : c = disk[j.file]
  BY <1>1, <1>2
<1>8. PICK d \in Contents : d = Patched(c, j.position, n, j.sequence)
  BY <1>2, <1>6, PatchedTyped
<1>9. disk' = IF n = 0 THEN disk ELSE [disk EXCEPT ![j.file] = d]
  BY <1>5, <1>7, <1>8
<1>10. disk' \in [Parts -> Contents]
  BY <1>1, <1>2, <1>9
<1>11. \A f \in Parts : j.file # f => disk'[f] = disk[f]
  BY <1>1, <1>2, <1>9
<1>12. ASSUME error' = "ok", NEW f \in Parts PROVE disk'[f] = After(disk[f], j, f)
  <2>1. n = j.size /\ n # 0
    BY <1>2, <1>3, <1>5, <1>12
  <2>2. CASE j.file = f
    <3>1. disk'[f] = d
      BY <1>1, <1>2, <1>9, <2>1, <2>2
    <3>2. After(disk[f], j, f) = d
      BY <1>7, <1>8, <2>1, <2>2 DEF After, Effect
    <3>3. QED
      BY <3>1, <3>2
  <2>3. CASE j.file # f
    BY <1>11, <2>3 DEF After
  <2>4. QED
    BY <2>2, <2>3
<1>13. j.kind \in Changing
  BY DEF Changing
<1>14. QED
  BY <1>1, <1>3, <1>4, <1>10, <1>11, <1>12, <1>13 DEF Carries

LEMMA CarriesResize ==
  ASSUME TypeOK, NEW j \in Jobs, j.kind = "Resize",
         NEW hr \in {"ok"} \cup Errors, Fail(hr), ExecuteResize(j, hr)
  PROVE  Carries(j)
<1>1. /\ disk \in [Parts -> Contents] /\ durable \in [Parts -> Contents] /\ closes \in [Parts -> Nat]
      /\ error \in {"ok"} \cup Errors
  BY DEF TypeOK
<1>2. j.file \in Parts /\ j.position \in Nat
  BY DEF Jobs
<1>3. error' \in {"ok"} \cup Errors /\ (error' = "ok" => error = "ok" /\ hr = "ok")
  BY <1>1 DEF Fail
<1>4. durable' = durable /\ closes' = closes
  BY DEF ExecuteResize
<1>5. PICK c \in Contents : c = disk[j.file]
  BY <1>1, <1>2
<1>6. PICK d \in Contents : d = Resized(c, j.position)
  BY <1>2, ResizedTyped
<1>7. disk' = IF hr = "ok" THEN [disk EXCEPT ![j.file] = d] ELSE disk
  BY <1>5, <1>6 DEF ExecuteResize
<1>8. disk' \in [Parts -> Contents]
  BY <1>1, <1>2, <1>7
<1>9. \A f \in Parts : j.file # f => disk'[f] = disk[f]
  BY <1>1, <1>2, <1>7
<1>10. ASSUME error' = "ok", NEW f \in Parts PROVE disk'[f] = After(disk[f], j, f)
  <2>1. CASE j.file = f
    <3>1. disk'[f] = d
      BY <1>1, <1>2, <1>3, <1>7, <1>10, <2>1
    <3>2. After(disk[f], j, f) = d
      BY <1>5, <1>6, <2>1 DEF After, Effect
    <3>3. QED
      BY <3>1, <3>2
  <2>2. CASE j.file # f
    BY <1>9, <2>2 DEF After
  <2>3. QED
    BY <2>1, <2>2
<1>11. j.kind \in Changing
  BY DEF Changing
<1>12. QED
  BY <1>1, <1>3, <1>4, <1>8, <1>9, <1>10, <1>11 DEF Carries

\* A Flush, and a Close: its flush, and the close whatever that returned.
LEMMA CarriesFlush ==
  ASSUME TypeOK, NEW j \in Jobs, j.kind \in {"Flush", "Close"},
         NEW hr \in {"ok"} \cup Errors, error' \in {"ok"} \cup Errors,
         error' = "ok" => error = "ok" /\ hr = "ok",
         durable' = IF hr = "ok" THEN [durable EXCEPT ![j.file] = disk[j.file]] ELSE durable,
         disk' = disk,
         closes' = IF j.kind = "Close" THEN [closes EXCEPT ![j.file] = @ + 1] ELSE closes
  PROVE  Carries(j)
<1>1. disk \in [Parts -> Contents] /\ durable \in [Parts -> Contents] /\ closes \in [Parts -> Nat]
  BY DEF TypeOK
<1>2. j.file \in Parts
  BY DEF Jobs
<1>3. closes' \in [Parts -> Nat]
  <2>1. [closes EXCEPT ![j.file] = @ + 1] \in [Parts -> Nat]
    BY <1>1, <1>2
  <2>2. QED
    BY <1>1, <2>1
<1>4. durable' \in [Parts -> Contents]
  BY <1>1, <1>2
<1>5. \A f \in Parts : durable'[f] = durable[f] \/ (j.file = f /\ durable'[f] = disk[f])
  BY <1>1, <1>2
<1>6. error' = "ok" => \A f \in Parts : j.file = f => durable'[f] = disk[f]
  BY <1>1, <1>2
<1>7. j.kind \notin Changing
  BY DEF Changing
<1>8. \A f \in Parts : disk'[f] = disk[f] /\ disk'[f] = After(disk[f], j, f)
  BY <1>7, AfterOthers
<1>9. error' = "ok" => error = "ok"
  OBVIOUS
<1>10. disk' \in [Parts -> Contents]
  BY <1>1
<1>11. QED
  BY <1>3, <1>4, <1>5, <1>6, <1>8, <1>9, <1>10 DEF Carries

\* The job carried out was the first ahead; the rest stays ahead.
LEMMA ExecuteIs ==
  ASSUME IInv, Execute
  PROVE  /\ Ahead \in Seq(Jobs) /\ Ahead # <<>> /\ job[1] = Ahead[1] /\ Ahead' = Tail(Ahead)
         /\ Executed' = Executed + 1 /\ Executed \in Int /\ job[1].sequence = Executed + 1
         /\ job[1] \in Jobs /\ Pending' = Pending /\ Len(job) = 1
         /\ job[1].kind = "Write" => job[1].size > 0
         /\ \A i \in DOMAIN Ahead : Ahead[i].sequence = Executed + i
<1>1. /\ TypeOK /\ Numbered /\ storagePc = "execute" /\ storagePc' = "executed"
      /\ UNCHANGED <<jobs, job, issued>>
  BY DEF IInv, Execute, queue
<1>2. /\ jobs \in Seq(Jobs) /\ job \in Seq(Jobs) /\ Len(job) = 1 /\ issued \in Nat
      /\ Pending \in Seq(Jobs) /\ Ahead \in Seq(Jobs) /\ Executed \in Int
      /\ \A i \in DOMAIN Ahead : Ahead[i].sequence = Executed + i
      /\ \A i \in DOMAIN Pending : Pending[i].kind = "Write" => Pending[i].size > 0
  BY <1>1, QueueIs DEF TypeOK, Numbered
<1>3. Ahead = Pending /\ Ahead' = jobs /\ Pending = job \o jobs /\ Pending' = Pending
  BY <1>1 DEF Ahead, Pending
<1>4. /\ Len(Ahead) = Len(jobs) + 1 /\ Len(jobs) \in Nat /\ Ahead[1] = job[1] /\ job[1] \in Jobs
      /\ \A i \in 1 .. Len(jobs) : Ahead[i + 1] = jobs[i]
  BY <1>2, <1>3, ConcatIs
<1>5. Ahead # <<>> /\ 1 \in DOMAIN Ahead
  BY <1>2, <1>4
<1>6. PICK t \in Seq(Jobs) : t = Tail(Ahead) /\ Len(t) = Len(jobs)
  <2>1. Tail(Ahead) \in Seq(Jobs) /\ Len(Tail(Ahead)) = Len(Ahead) - 1
    BY <1>2, <1>5, TailIs
  <2>2. Len(Tail(Ahead)) = Len(jobs)
    BY <1>4, <2>1
  <2>3. QED
    BY <2>1, <2>2
<1>7. \A i \in 1 .. Len(jobs) : t[i] = jobs[i]
  <2>1. \A i \in DOMAIN t : t[i] = Ahead[i + 1]
    BY <1>2, <1>5, <1>6, TailIs
  <2>2. DOMAIN t = 1 .. Len(jobs)
    BY <1>6
  <2>3. QED
    BY <1>4, <2>1, <2>2
<1>8. Ahead' = Tail(Ahead)
  BY <1>2, <1>3, <1>6, <1>7, SeqEqual
<1>9. Executed' = Executed + 1
  <2>1. Executed' = issued' - Len(Ahead') /\ Executed = issued - Len(Ahead)
    BY DEF Executed
  <2>2. issued' = issued /\ Len(Ahead') = Len(jobs)
    BY <1>1, <1>3
  <2>3. QED
    BY <1>2, <1>4, <2>1, <2>2
<1>10. job[1].sequence = Executed + 1
  BY <1>2, <1>4, <1>5
<1>11. job[1].kind = "Write" => job[1].size > 0
  BY <1>2, <1>3, <1>4, <1>5
<1>12. QED
  BY <1>2, <1>3, <1>4, <1>5, <1>8, <1>9, <1>10, <1>11

LEMMA ExecuteCarries ==
  ASSUME IInv, Execute
  PROVE  Carries(job[1])
<1>1. PICK j \in Jobs : j = job[1] /\ (j.kind = "Write" => j.size > 0)
  BY ExecuteIs
<1>2. TypeOK /\ error \in {"ok"} \cup Errors /\ j.kind \in Kinds
  BY DEF IInv, TypeOK, Jobs
<1>3. CASE ~Runs(j)
  <2>1. UNCHANGED <<error, files>>
    BY <1>1, <1>3 DEF Execute
  <2>2. error # "ok" /\ j.kind # "Close"
    BY <1>3 DEF Runs
  <2>3. QED
    BY <1>1, <1>2, <2>1, <2>2, CarriesNothing
<1>4. CASE Runs(j)
  <2>1. PICK hr \in {"ok"} \cup Errors, close \in {"ok"} \cup Errors :
          CASE j.kind = "Write"  -> Fail(hr) /\ ExecuteWrite(j, hr)
            [] j.kind = "Resize" -> Fail(hr) /\ ExecuteResize(j, hr)
            [] j.kind = "Flush"  -> Fail(hr) /\ ExecuteFlush(j, hr)
            [] j.kind = "Close"  -> Fail(CloseResult(hr, close)) /\ ExecuteClose(j, hr)
            [] j.kind = "Read"   -> Fail(hr) /\ UNCHANGED files
            [] j.kind = "Space"  -> UNCHANGED <<error, files>>
    BY <1>1, <1>4 DEF Execute
  <2>2. CASE j.kind = "Write"
    <3>1. Fail(hr) /\ ExecuteWrite(j, hr)
      BY <2>1, <2>2
    <3>2. QED
      BY <1>1, <1>2, <2>2, <3>1, CarriesWrite
  <2>3. CASE j.kind = "Resize"
    <3>1. Fail(hr) /\ ExecuteResize(j, hr)
      BY <2>1, <2>3
    <3>2. QED
      BY <1>1, <1>2, <2>3, <3>1, CarriesResize
  <2>4. CASE j.kind = "Flush"
    <3>1. Fail(hr) /\ ExecuteFlush(j, hr)
      BY <2>1, <2>4
    <3>2. error' \in {"ok"} \cup Errors /\ (error' = "ok" => error = "ok" /\ hr = "ok")
      BY <1>2, <3>1 DEF Fail
    <3>3. /\ durable' = IF hr = "ok" THEN [durable EXCEPT ![j.file] = disk[j.file]] ELSE durable
          /\ disk' = disk /\ closes' = closes
      BY <3>1 DEF ExecuteFlush
    <3>4. QED
      BY <1>1, <1>2, <2>4, <3>2, <3>3, CarriesFlush
  <2>5. CASE j.kind = "Close"
    <3>1. Fail(CloseResult(hr, close)) /\ ExecuteClose(j, hr)
      BY <2>1, <2>5
    <3>2. error' \in {"ok"} \cup Errors /\ (error' = "ok" => error = "ok" /\ hr = "ok")
      BY <1>2, <3>1 DEF Fail, CloseResult
    <3>3. /\ durable' = IF hr = "ok" THEN [durable EXCEPT ![j.file] = disk[j.file]] ELSE durable
          /\ disk' = disk /\ closes' = [closes EXCEPT ![j.file] = @ + 1]
      BY <3>1 DEF ExecuteClose
    <3>4. QED
      BY <1>1, <1>2, <2>5, <3>2, <3>3, CarriesFlush
  <2>6. CASE j.kind = "Read"
    <3>1. Fail(hr) /\ UNCHANGED files
      BY <2>1, <2>6
    <3>2. error' \in {"ok"} \cup Errors /\ (error' = "ok" => error = "ok")
      BY <1>2, <3>1 DEF Fail
    <3>3. QED
      BY <1>1, <1>2, <2>6, <3>1, <3>2, CarriesNothing
  <2>7. CASE j.kind = "Space"
    <3>1. UNCHANGED <<error, files>>
      BY <2>1, <2>7
    <3>2. QED
      BY <1>1, <1>2, <2>7, <3>1, CarriesNothing
  <2>8. QED
    BY <1>2, <2>2, <2>3, <2>4, <2>5, <2>6, <2>7 DEF Kinds
<1>5. QED
  BY <1>3, <1>4

LEMMA ExecuteBytesInOrder ==
  ASSUME IInv, Execute
  PROVE  BytesInOrder'
<1>1. length' = length /\ logical' = logical
  BY DEF Execute, StorageFrame, streams
<1>2. BytesInOrder
  BY DEF IInv
<1>3. Ahead \in Seq(Jobs) /\ Ahead # <<>> /\ job[1] = Ahead[1] /\ Ahead' = Tail(Ahead)
  BY ExecuteIs
<1>4. ASSUME error' = "ok", NEW f \in Parts PROVE Image(disk'[f], Ahead', f) = logical'[f]
  <2>1. error = "ok" /\ disk'[f] = After(disk[f], job[1], f)
    BY <1>4, ExecuteCarries DEF Carries
  <2>2. Image(disk[f], Ahead, f) = logical[f]
    BY <1>2, <2>1 DEF BytesInOrder
  <2>3. Head(Ahead) = job[1]
    BY <1>3, TailIs
  <2>4. Image(After(disk[f], Head(Ahead), f), Tail(Ahead), f) = Image(disk[f], Ahead, f)
    BY <1>3, ImageOfTail
  <2>5. QED
    BY <1>1, <1>3, <2>1, <2>2, <2>3, <2>4
<1>5. QED
  BY <1>1, <1>2, <1>4 DEF BytesInOrder

LEMMA ExecuteClosing ==
  ASSUME IInv, Execute
  PROVE  Closing'
<1> DEFINE j == job[1]
<1>1. /\ Ahead \in Seq(Jobs) /\ Ahead # <<>> /\ j = Ahead[1] /\ Ahead' = Tail(Ahead)
      /\ Executed' = Executed + 1 /\ Executed \in Int /\ j.sequence = Executed + 1 /\ j \in Jobs
      /\ \A i \in DOMAIN Ahead : Ahead[i].sequence = Executed + i
  BY ExecuteIs
<1>2. closes' = IF j.kind = "Close" THEN [closes EXCEPT ![j.file] = @ + 1] ELSE closes
  BY ExecuteCarries DEF Carries
<1> HIDE DEF j
<1>3. /\ closed' = closed /\ sealed' = sealed /\ Closing
      /\ closes \in [Parts -> Nat] /\ sealed \in [Parts -> Nat] /\ closed \in [Parts -> BOOLEAN]
  BY DEF Execute, StorageFrame, streams, IInv, TypeOK
<1>4. /\ 1 \in DOMAIN Ahead
      /\ \A i \in DOMAIN Ahead' : i \in Nat /\ i > 0 /\ i + 1 \in DOMAIN Ahead /\ Ahead'[i] = Ahead[i + 1]
  BY <1>1, TailIs
<1>5. j.file \in Parts
  BY <1>1 DEF Jobs
<1>6. \A f \in Parts : closes'[f] = IF j.kind = "Close" /\ j.file = f THEN closes[f] + 1 ELSE closes[f]
  BY <1>2, <1>3, <1>5
<1>7. ASSUME NEW f \in Parts
      PROVE  IF closed[f] /\ sealed[f] <= Executed + 1
             THEN closes'[f] = 1 /\ \A i \in DOMAIN Ahead' : Ahead'[i].file = f => Ahead'[i].kind = "Space"
             ELSE /\ closes'[f] = 0
                  /\ \A i \in DOMAIN Ahead' : Ahead'[i].file = f /\ Ahead'[i].kind # "Space" =>
                       IF closed[f]
                       THEN /\ Ahead'[i].sequence <= sealed[f]
                            /\ Ahead'[i].kind = "Close" => Ahead'[i].sequence = sealed[f]
                       ELSE Ahead'[i].kind # "Close"
                  /\ closed[f] => \A i \in DOMAIN Ahead' : Ahead'[i].sequence = sealed[f] =>
                       Ahead'[i].file = f /\ Ahead'[i].kind = "Close"
  <2>1. CASE closed[f] /\ sealed[f] <= Executed
    <3>1. closes[f] = 1 /\ \A i \in DOMAIN Ahead : Ahead[i].file = f => Ahead[i].kind = "Space"
      BY <1>3, <2>1 DEF Closing
    <3>2. closes'[f] = 1
      BY <1>1, <1>4, <1>6, <3>1
    <3>3. \A i \in DOMAIN Ahead' : Ahead'[i].file = f => Ahead'[i].kind = "Space"
      BY <1>4, <3>1
    <3>4. sealed[f] <= Executed + 1
      BY <1>1, <1>3, <2>1
    <3>5. QED
      BY <2>1, <3>2, <3>3, <3>4
  <2>2. CASE closed[f] /\ ~(sealed[f] <= Executed)
    <3>1. /\ closes[f] = 0
          /\ \A i \in DOMAIN Ahead : Ahead[i].file = f /\ Ahead[i].kind # "Space" =>
               /\ Ahead[i].sequence <= sealed[f]
               /\ Ahead[i].kind = "Close" => Ahead[i].sequence = sealed[f]
          /\ \A i \in DOMAIN Ahead : Ahead[i].sequence = sealed[f] =>
               Ahead[i].file = f /\ Ahead[i].kind = "Close"
      BY <1>3, <2>2 DEF Closing
    <3>2. sealed[f] \in Nat
      BY <1>3
    <3>3. CASE sealed[f] = Executed + 1
      <4>1. j.file = f /\ j.kind = "Close"
        BY <1>1, <1>4, <3>1, <3>3
      <4>2. closes'[f] = 1
        BY <1>6, <3>1, <4>1
      <4>3. \A i \in DOMAIN Ahead' : ~(Ahead'[i].sequence <= sealed[f])
        <5>1. ASSUME NEW i \in DOMAIN Ahead' PROVE ~(Ahead'[i].sequence <= sealed[f])
          <6>1. i \in Nat /\ i > 0 /\ Ahead'[i].sequence = Executed + (i + 1)
            BY <1>1, <1>4
          <6>2. QED
            BY <1>1, <3>3, <6>1
        <5>2. QED
          BY <5>1
      <4>4. \A i \in DOMAIN Ahead' : Ahead'[i].file = f => Ahead'[i].kind = "Space"
        BY <1>4, <3>1, <4>3
      <4>5. sealed[f] <= Executed + 1
        BY <1>1, <3>3
      <4>6. QED
        BY <2>2, <4>2, <4>4, <4>5
    <3>4. CASE sealed[f] # Executed + 1
      <4>1. ~(sealed[f] <= Executed + 1)
        BY <1>1, <2>2, <3>2, <3>4
      <4>2. closes'[f] = 0
        BY <1>1, <1>4, <1>6, <3>1, <3>4
      <4>3. QED
        BY <1>4, <2>2, <3>1, <4>1, <4>2
    <3>5. QED
      BY <3>3, <3>4
  <2>3. CASE ~closed[f]
    <3>1. /\ closes[f] = 0
          /\ \A i \in DOMAIN Ahead : Ahead[i].file = f /\ Ahead[i].kind # "Space" => Ahead[i].kind # "Close"
      BY <1>3, <2>3 DEF Closing
    <3>2. closes'[f] = 0
      BY <1>1, <1>4, <1>6, <3>1
    <3>3. QED
      BY <1>4, <2>3, <3>1, <3>2
  <2>4. QED
    BY <2>1, <2>2, <2>3
<1>8. QED
  BY <1>1, <1>3, <1>7 DEF Closing

\* The Close of a part leaves it durable: nothing of the part but queries of the
\* free space comes after it.
LEMMA ExecuteSealed ==
  ASSUME IInv, Execute, error' = "ok", NEW f \in Parts, closed[f], sealed[f] <= Executed + 1
  PROVE  durable'[f] = logical[f]
<1> DEFINE j == job[1]
<1>1. /\ Ahead \in Seq(Jobs) /\ Ahead # <<>> /\ j = Ahead[1]
      /\ Executed \in Int /\ j.sequence = Executed + 1 /\ j \in Jobs
      /\ \A i \in DOMAIN Ahead : Ahead[i].sequence = Executed + i
  BY ExecuteIs
<1>2. Carries(j)
  BY ExecuteCarries
<1> HIDE DEF j
<1>3. TypeOK /\ Numbered /\ Closing /\ Flushing /\ BytesInOrder /\ sealed[f] \in Nat
  BY DEF IInv, TypeOK
<1>4. error = "ok"
  BY <1>2 DEF Carries
<1>5. 1 \in DOMAIN Ahead
  BY <1>1, TailIs
<1>6. CASE sealed[f] <= Executed
  <2>1. durable[f] = logical[f]
    BY <1>3, <1>4, <1>6 DEF Flushing
  <2>2. j.file = f => j.kind = "Space"
    BY <1>1, <1>3, <1>5, <1>6 DEF Closing
  <2>3. durable'[f] = durable[f]
    BY <1>2, <2>2 DEF Carries
  <2>4. QED
    BY <2>1, <2>3
<1>7. CASE ~(sealed[f] <= Executed)
  <2>1. sealed[f] = Executed + 1
    BY <1>1, <1>3, <1>7
  <2>2. /\ \A i \in DOMAIN Ahead : Ahead[i].file = f /\ Ahead[i].kind # "Space" =>
             Ahead[i].sequence <= sealed[f]
        /\ \A i \in DOMAIN Ahead : Ahead[i].sequence = sealed[f] =>
             Ahead[i].file = f /\ Ahead[i].kind = "Close"
    BY <1>3, <1>7 DEF Closing
  <2>3. j.file = f /\ j.kind = "Close"
    BY <1>1, <1>5, <2>1, <2>2
  <2>4. durable'[f] = disk[f]
    <3>1. \A g \in Parts : j.file = g /\ j.kind \in {"Flush", "Close"} => durable'[g] = disk[g]
      BY <1>2 DEF Carries
    <3>2. QED
      BY <2>3, <3>1
  <2>5. \A i \in DOMAIN Ahead : Ahead[i].file = f => Ahead[i].kind \notin Changing
    <3>1. ASSUME NEW i \in DOMAIN Ahead, Ahead[i].file = f PROVE Ahead[i].kind \in {"Close", "Space"}
      <4>1. CASE i = 1
        BY <1>1, <2>3, <4>1
      <4>2. CASE i # 1
        <5>1. i \in Nat /\ i > 1 /\ Ahead[i].sequence = Executed + i
          BY <1>1, <4>2
        <5>2. ~(Ahead[i].sequence <= sealed[f])
          BY <1>1, <2>1, <5>1
        <5>3. QED
          BY <2>2, <3>1, <5>2
      <4>3. QED
        BY <4>1, <4>2
    <3>2. QED
      BY <3>1 DEF Changing
  <2>6. disk[f] = logical[f]
    BY <1>3, <1>4, <2>5, NothingAhead
  <2>7. QED
    BY <2>4, <2>6
<1>8. QED
  BY <1>6, <1>7

\* The final Flush leaves the current part durable.
LEMMA ExecuteFlushed ==
  ASSUME IInv, Execute, error' = "ok", workerPc = "flush", workerJob <= Executed + 1
  PROVE  durable'[current] = logical[current]
<1> DEFINE j == job[1]
<1>1. /\ Ahead \in Seq(Jobs) /\ Ahead # <<>> /\ j = Ahead[1]
      /\ Executed \in Int /\ j.sequence = Executed + 1 /\ j \in Jobs
      /\ \A i \in DOMAIN Ahead : Ahead[i].sequence = Executed + i
  BY ExecuteIs
<1>2. Carries(j)
  BY ExecuteCarries
<1> HIDE DEF j
<1>3. TypeOK /\ Numbered /\ Flushing /\ BytesInOrder /\ current \in Parts /\ workerJob \in Nat
  BY DEF IInv, TypeOK
<1>4. error = "ok"
  BY <1>2 DEF Carries
<1>5. 1 \in DOMAIN Ahead
  BY <1>1, TailIs
<1>6. /\ \A i \in DOMAIN Ahead :
           /\ Ahead[i].sequence = workerJob => Ahead[i].kind = "Flush" /\ Ahead[i].file = current
           /\ Ahead[i].sequence > workerJob /\ Ahead[i].file = current => Ahead[i].kind \notin Changing
      /\ workerJob <= Executed => durable[current] = logical[current]
  BY <1>3, <1>4 DEF Flushing
<1>7. \A i \in DOMAIN Ahead : Ahead[i].file = current => Ahead[i].kind \notin Changing
  <2>1. ASSUME NEW i \in DOMAIN Ahead PROVE Ahead[i].sequence = workerJob \/ Ahead[i].sequence > workerJob
    <3>1. i \in Nat /\ i > 0 /\ Ahead[i].sequence = Executed + i
      BY <1>1
    <3>2. QED
      BY <1>1, <1>3, <3>1
  <2>2. "Flush" \notin Changing
    BY DEF Changing
  <2>3. QED
    BY <1>6, <2>1, <2>2
<1>8. disk[current] = logical[current]
  BY <1>3, <1>4, <1>7, NothingAhead
<1>9. CASE workerJob <= Executed
  <2>1. durable[current] = logical[current]
    BY <1>6, <1>9
  <2>2. durable'[current] = durable[current] \/ durable'[current] = disk[current]
    BY <1>2, <1>3 DEF Carries
  <2>3. QED
    BY <1>8, <2>1, <2>2
<1>10. CASE ~(workerJob <= Executed)
  <2>1. workerJob = Executed + 1
    BY <1>1, <1>3, <1>10
  <2>2. j.kind = "Flush" /\ j.file = current
    BY <1>1, <1>5, <1>6, <2>1
  <2>3. durable'[current] = disk[current]
    <3>1. \A g \in Parts : j.file = g /\ j.kind \in {"Flush", "Close"} => durable'[g] = disk[g]
      BY <1>2 DEF Carries
    <3>2. QED
      BY <1>3, <2>2, <3>1
  <2>4. QED
    BY <1>8, <2>3
<1>11. QED
  BY <1>9, <1>10

LEMMA ExecuteFlushing ==
  ASSUME IInv, Execute
  PROVE  Flushing' /\ SuccessIsDurable'
<1> DEFINE j == job[1]
<1>1. /\ Ahead \in Seq(Jobs) /\ Ahead # <<>> /\ j = Ahead[1] /\ Ahead' = Tail(Ahead)
      /\ Executed' = Executed + 1 /\ Executed \in Int /\ j.sequence = Executed + 1 /\ j \in Jobs
  BY ExecuteIs
<1>2. Carries(j)
  BY ExecuteCarries
<1> HIDE DEF j
<1>3. /\ Closing /\ Flushing /\ SuccessIsDurable /\ Seals /\ current \in Parts
      /\ TypeOK /\ Numbered /\ sealed \in [Parts -> Nat] /\ done \in Nat
  BY DEF IInv, TypeOK
<1>4. /\ UNCHANGED <<closed, sealed, logical, current, issued>>
      /\ UNCHANGED <<workerPc, workerJob, flushed, finished>>
  BY DEF Execute, StorageFrame, streams, muxer, worker, queue
<1>5. error' = "ok" => error = "ok"
  BY <1>2 DEF Carries
<1>6. 1 \in DOMAIN Ahead /\ \A i \in DOMAIN Ahead' : i + 1 \in DOMAIN Ahead /\ Ahead'[i] = Ahead[i + 1]
  BY <1>1, TailIs
<1>7. error' = "ok" => \A f \in Parts :
        closed'[f] /\ sealed'[f] <= Executed' => durable'[f] = logical'[f]
  BY <1>1, <1>4, ExecuteSealed
<1>8. workerPc' = "flush" =>
        /\ workerJob' <= issued'
        /\ \A i \in DOMAIN Ahead' :
             /\ Ahead'[i].sequence = workerJob' => Ahead'[i].kind = "Flush" /\ Ahead'[i].file = current'
             /\ Ahead'[i].sequence > workerJob' /\ Ahead'[i].file = current' => Ahead'[i].kind \notin Changing
        /\ error' = "ok" /\ workerJob' <= Executed' => durable'[current'] = logical'[current']
  <2>1. ASSUME workerPc = "flush"
        PROVE  /\ workerJob <= issued
               /\ \A i \in DOMAIN Ahead :
                    /\ Ahead[i].sequence = workerJob => Ahead[i].kind = "Flush" /\ Ahead[i].file = current
                    /\ Ahead[i].sequence > workerJob /\ Ahead[i].file = current => Ahead[i].kind \notin Changing
    BY <1>3, <2>1 DEF Flushing
  <2>2. ASSUME workerPc = "flush"
        PROVE  /\ \A i \in DOMAIN Ahead' :
                    /\ Ahead'[i].sequence = workerJob => Ahead'[i].kind = "Flush" /\ Ahead'[i].file = current
                    /\ Ahead'[i].sequence > workerJob /\ Ahead'[i].file = current => Ahead'[i].kind \notin Changing
    BY <1>6, <2>1, <2>2
  <2>3. workerPc = "flush" /\ error' = "ok" /\ workerJob <= Executed + 1 =>
          durable'[current] = logical[current]
    BY ExecuteFlushed
  <2>4. QED
    BY <1>1, <1>4, <2>1, <2>2, <2>3
<1>9. ASSUME flushed = "ok"
      PROVE  /\ disk'[current] = logical[current] /\ durable'[current] = logical[current]
             /\ \A i \in DOMAIN Ahead' : Ahead'[i].file = current => Ahead'[i].kind \notin Changing
  <2>1. /\ disk[current] = logical[current]
        /\ \A i \in DOMAIN Ahead : Ahead[i].file = current => Ahead[i].kind \notin Changing
        /\ durable[current] = logical[current]
    BY <1>3, <1>9 DEF Flushing, SuccessIsDurable
  <2>2. disk'[current] = disk[current]
    <3>1. j.file # current \/ j.kind \notin Changing
      BY <1>1, <1>6, <2>1
    <3>2. QED
      BY <1>2, <1>3, <3>1 DEF Carries
  <2>3. durable'[current] = durable[current] \/ durable'[current] = disk[current]
    BY <1>2, <1>3 DEF Carries
  <2>4. QED
    BY <1>6, <2>1, <2>2, <2>3
<1>10. Flushing'
  <2>1. /\ finished' # "none" => workerPc' \in {"release", "join", "ended"}
        /\ flushed' # "none" => workerPc' \in {"close", "closing", "release", "join", "ended"}
    BY <1>3, <1>4 DEF Flushing
  <2>2. flushed' = "ok" =>
          /\ disk'[current'] = logical'[current']
          /\ \A i \in DOMAIN Ahead' : Ahead'[i].file = current' => Ahead'[i].kind \notin Changing
    BY <1>4, <1>9
  <2>3. QED
    BY <1>7, <1>8, <2>1, <2>2 DEF Flushing
<1>11. ASSUME finished = "ok", NEW f \in 1 .. current PROVE durable'[f] = logical[f]
  <2>1. f \in Parts /\ f \in Int /\ current \in Int /\ f <= current
    BY <1>3, FilesAssumption DEF Parts
  <2>2. workerPc \in {"release", "join", "ended"}
    BY <1>3, <1>11 DEF Flushing
  <2>3. closed[current] /\ sealed[current] <= done
    BY <1>3, <2>2 DEF Seals
  <2>4. closed[f] /\ sealed[f] <= sealed[current]
    <3>1. CASE f = current
      BY <1>3, <2>3, <3>1
    <3>2. CASE f # current
      <4>1. f < current
        BY <2>1, <3>2
      <4>2. closed[f] /\ sealed[f] < sealed[current]
        BY <1>3, <2>1, <2>3, <4>1 DEF Seals
      <4>3. QED
        BY <1>3, <2>1, <4>2
    <3>3. QED
      BY <3>1, <3>2
  <2>5. done <= Executed
    BY <1>3, QueueIs
  <2>6. sealed[f] <= Executed
    BY <1>1, <1>3, <2>1, <2>3, <2>4, <2>5
  <2>7. j.file = f => j.kind = "Space"
    BY <1>1, <1>3, <1>6, <2>1, <2>4, <2>6 DEF Closing
  <2>8. durable'[f] = durable[f]
    BY <1>2, <2>1, <2>7 DEF Carries
  <2>9. durable[f] = logical[f]
    BY <1>3, <1>11 DEF SuccessIsDurable
  <2>10. QED
    BY <2>8, <2>9
<1>12. SuccessIsDurable'
  BY <1>4, <1>9, <1>11 DEF SuccessIsDurable
<1>13. QED
  BY <1>10, <1>12

LEMMA ExecuteKeepsIInv ==
  ASSUME IInv, Execute
  PROVE  IInv'
<1>1. /\ storagePc = "execute" /\ storagePc' = "executed"
      /\ UNCHANGED <<jobs, job, bytes, operations, issued, done, spacePending, flushPending>>
      /\ UNCHANGED <<logical, length, closed, sealed, position, current, muxerPc, muxerJob>>
      /\ UNCHANGED <<workerPc, workerJob, flushed, finished>>
  BY DEF Execute, queue, StorageFrame, streams, muxer, worker
<1>2. Pending' = Pending /\ Len(job) = 1
  BY ExecuteIs
<1>3. TypeOK'
  <2>1. /\ disk' \in [Parts -> Contents] /\ durable' \in [Parts -> Contents]
        /\ closes' \in [Parts -> Nat] /\ error' \in {"ok"} \cup Errors
    BY ExecuteCarries DEF Carries
  <2>2. QED
    BY <1>1, <2>1 DEF IInv, TypeOK
<1>4. Numbered'
  BY <1>1, <1>2 DEF IInv, Numbered
<1>5. WithinLimits'
  BY <1>1, <1>2 DEF IInv, WithinLimits
<1>6. Requests'
  BY <1>1, <1>2 DEF IInv, Requests
<1>7. Seals'
  BY <1>1 DEF IInv, Seals
<1>8. Closing' /\ BytesInOrder' /\ Flushing' /\ SuccessIsDurable'
  BY ExecuteClosing, ExecuteBytesInOrder, ExecuteFlushing
<1>9. QED
  BY <1>3, <1>4, <1>5, <1>6, <1>7, <1>8 DEF IInv

-----------------------------------------------------------------------------
(* The theorems                                                            *)

LEMMA InitIInv ==
  ASSUME Init
  PROVE  IInv
<1>1. 1 \in Parts
  BY FilesAssumption DEF Parts
<1>2. <<>> \in Seq(Jobs) /\ <<>> \in Contents
  BY DEF Contents
<1>3. TypeOK
  <2>1. /\ jobs \in Seq(Jobs) /\ job \in Seq(Jobs) /\ bytes \in Int /\ operations \in Int
        /\ issued \in Nat /\ done \in Nat /\ error \in {"ok"} \cup Errors
        /\ spacePending \in BOOLEAN /\ flushPending \in [Parts -> BOOLEAN]
    <3>1. jobs = <<>> /\ job = <<>> /\ bytes = 0 /\ operations = 0 /\ issued = 0 /\ done = 0
      BY DEF Init
    <3>2. error = "ok" /\ spacePending = FALSE /\ flushPending = [f \in Parts |-> FALSE]
      BY DEF Init
    <3>3. /\ jobs \in Seq(Jobs) /\ job \in Seq(Jobs) /\ bytes \in Int /\ operations \in Int
          /\ issued \in Nat /\ done \in Nat
      BY <1>2, <3>1
    <3>4. error \in {"ok"} \cup Errors /\ spacePending \in BOOLEAN /\ flushPending \in [Parts -> BOOLEAN]
      BY <3>2
    <3>5. QED
      BY <3>3, <3>4
  <2>2. /\ position \in [Parts -> Nat] /\ length \in [Parts -> Nat]
        /\ closed \in [Parts -> BOOLEAN] /\ sealed \in [Parts -> Nat]
        /\ current \in Parts /\ muxerJob \in Nat /\ workerJob \in Nat /\ closes \in [Parts -> Nat]
    BY <1>1 DEF Init
  <2>3. /\ disk \in [Parts -> Contents] /\ durable \in [Parts -> Contents]
        /\ logical \in [Parts -> Contents]
    BY <1>2 DEF Init
  <2>4. QED
    BY <2>1, <2>2, <2>3 DEF TypeOK
<1>4. Pending = <<>> /\ Ahead = <<>> /\ Executed = 0
  <2>1. Pending = <<>> /\ Ahead = <<>>
    <3>1. <<>> \o <<>> = <<>>
      OBVIOUS
    <3>2. QED
      BY <3>1 DEF Init, Pending, Ahead
  <2>2. issued = 0 /\ Len(<<>>) = 0
    BY DEF Init
  <2>3. Executed = 0 - 0
    BY <2>1, <2>2 DEF Executed
  <2>4. QED
    BY <2>1, <2>3
<1>5. Numbered
  BY <1>4 DEF Init, Numbered
<1>6. WithinLimits
  <2>1. {i \in DOMAIN Pending : ~Final(Pending[i])} = {}
    BY <1>4
  <2>2. Cardinality({}) = 0
    BY FS_EmptySet
  <2>3. Len(Pending) = 0
    BY <1>4
  <2>4. QED
    BY <2>1, <2>2, <2>3, LimitsAssumption DEF Init, WithinLimits
<1>7. Requests
  BY DEF Init, Requests
<1>8. Seals
  <2>1. \A f \in Parts : ~(f < 1) /\ ~closed[f]
    BY DEF Init, Parts
  <2>2. current = 1 /\ muxerPc = "idle" /\ workerPc = "loop"
    BY DEF Init
  <2>3. QED
    BY <2>1, <2>2 DEF Seals
<1>9. Closing
  <2>1. \A f \in Parts : ~closed[f] /\ closes[f] = 0
    BY DEF Init
  <2>2. DOMAIN Ahead = {}
    BY <1>4
  <2>3. QED
    BY <2>1, <2>2 DEF Closing
<1>10. BytesInOrder
  <2>1. \A f \in Parts : length[f] = 0 /\ logical[f] = <<>> /\ disk[f] = <<>>
    BY DEF Init
  <2>2. \A f \in Parts : Image(<<>>, <<>>, f) = <<>>
    BY ImageOfNone
  <2>3. Len(<<>>) = 0
    OBVIOUS
  <2>4. QED
    BY <1>4, <2>1, <2>2, <2>3 DEF BytesInOrder
<1>11. Flushing
  <2>1. \A f \in Parts : ~closed[f]
    BY DEF Init
  <2>2. flushed = "none" /\ finished = "none" /\ workerPc = "loop"
    BY DEF Init
  <2>3. QED
    BY <2>1, <2>2 DEF Flushing
<1>12. SuccessIsDurable
  BY DEF Init, SuccessIsDurable
<1>13. QED
  BY <1>3, <1>5, <1>6, <1>7, <1>8, <1>9, <1>10, <1>11, <1>12 DEF IInv

LEMMA StutterKeepsIInv ==
  ASSUME IInv, UNCHANGED vars
  PROVE  IInv'
<1>1. /\ UNCHANGED <<jobs, job, storagePc, issued, done, bytes, operations>>
      /\ UNCHANGED <<flushPending, spacePending, error>>
      /\ UNCHANGED <<disk, durable, closes, logical, length, closed, sealed>>
      /\ UNCHANGED <<position, muxerPc, muxerJob, current, worker>>
  BY DEF vars, queue, storage, streams, muxer, files
<1>2. /\ WithinLimits' /\ Requests' /\ Closing' /\ BytesInOrder'
      /\ Pending' = Pending /\ Ahead' = Ahead /\ Executed' = Executed
  BY <1>1, StillQueued
<1>3. Flushing' /\ SuccessIsDurable'
  BY <1>1, <1>2, StillFlushing
<1>4. Numbered'
  BY <1>1, <1>2 DEF IInv, Numbered
<1>5. TypeOK' /\ Seals'
  BY <1>1 DEF IInv, TypeOK, Seals, worker
<1>6. QED
  BY <1>2, <1>3, <1>4, <1>5 DEF IInv

LEMMA NextKeepsIInv ==
  ASSUME IInv, [Next]_vars
  PROVE  IInv'
<1>1. CASE StorageStep
  BY <1>1, StorageStartExitKeepsIInv, PopKeepsIInv, ExecuteKeepsIInv, SettleKeepsIInv,
     CompleteKeepsIInv DEF StorageStep
<1>2. CASE CanAccept \/ Seek \/ EndRead
  BY <1>2, QuietMuxerKeepsIInv
<1>3. CASE SetLength \/ Read \/ Roll \/ Write
  BY <1>3, SetLengthKeepsIInv, ReadKeepsIInv, RollKeepsIInv, WriteKeepsIInv
<1>4. CASE RequestFlush \/ RequestSpace \/ LeaveLoop \/ FinalFlush
  BY <1>4, RequestFlushKeepsIInv, RequestSpaceKeepsIInv, LeaveLoopKeepsIInv, FinalFlushKeepsIInv
<1>5. CASE WorkerWaits
  BY <1>5, FlushReturnsKeepsIInv, FinalCloseKeepsIInv, CloseReturnsKeepsIInv, ReleaseJoinKeepsIInv
     DEF WorkerWaits
<1>6. CASE UNCHANGED vars
  BY <1>6, StutterKeepsIInv
<1>7. QED
  BY <1>1, <1>2, <1>3, <1>4, <1>5, <1>6 DEF Next, MuxerStep

\* The inductive invariant: the three threads keep the queue's counters, the
\* numbering of its jobs, the order of the seals and what every job still ahead
\* will do to the files in step with each other, whatever fails.
THEOREM StorageInvariance == Spec => []IInv
<1>1. Init => IInv
  BY InitIInv
<1>2. IInv /\ [Next]_vars => IInv'
  BY NextKeepsIInv
<1>3. QED
  BY <1>1, <1>2, PTL DEF Spec

\* While nothing failed, each file and the jobs still queued for it amount to
\* exactly what the muxer wrote and resized, in that order and at those
\* positions, however the storage thread lags behind the muxer.
THEOREM BytesInOrderHolds == Spec => []BytesInOrder
<1>1. IInv => BytesInOrder
  BY DEF IInv
<1>2. QED
  BY <1>1, StorageInvariance, PTL

\* Flush and Close return S_OK only when every byte they answer for is in its
\* file and flushed, in the parts retired without waiting too.
THEOREM SuccessIsDurableHolds == Spec => []SuccessIsDurable
<1>1. IInv => SuccessIsDurable
  BY DEF IInv
<1>2. QED
  BY <1>1, StorageInvariance, PTL

\* The queue never exceeds its limits but for the calls that are waited for, and
\* its counters are what it holds.
THEOREM WithinLimitsHolds == Spec => []WithinLimits
<1>1. IInv => WithinLimits
  BY DEF IInv
<1>2. QED
  BY <1>1, StorageInvariance, PTL

\* Every part that was muxed is closed exactly once and last, even after errors.
THEOREM ClosedOnceAndLastHolds == Spec => []ClosedOnceAndLast
<1>1. IInv => ClosedOnceAndLast
  <2> SUFFICES ASSUME IInv PROVE ClosedOnceAndLast
    OBVIOUS
  <2>1. /\ TypeOK /\ Numbered /\ Seals /\ Closing /\ current \in Parts /\ Ahead \in Seq(Jobs)
        /\ sealed \in [Parts -> Nat] /\ done \in Nat /\ Executed \in Int /\ done <= Executed
    BY QueueIs DEF IInv, TypeOK
  <2>2. ASSUME NEW i \in DOMAIN Ahead, Ahead[i].kind # "Space" PROVE closes[Ahead[i].file] = 0
    <3>1. PICK f \in Parts : f = Ahead[i].file
      <4>1. i \in 1 .. Len(Ahead)
        BY <2>1
      <4>2. Ahead[i] \in Jobs
        BY <2>1, <4>1, ElementOfSeq
      <4>3. QED
        BY <4>2 DEF Jobs
    <3>2. CASE closed[f] /\ sealed[f] <= Executed
      BY <2>1, <2>2, <3>1, <3>2 DEF Closing
    <3>3. CASE ~(closed[f] /\ sealed[f] <= Executed)
      BY <2>1, <3>1, <3>3 DEF Closing
    <3>4. QED
      BY <3>2, <3>3
  <2>3. ASSUME workerPc = "ended", NEW f \in 1 .. current PROVE closes[f] = 1
    <3>1. f \in Parts /\ f \in Int /\ current \in Int /\ f <= current
      BY <2>1, FilesAssumption DEF Parts
    <3>2. closed[current] /\ sealed[current] <= done
      BY <2>1, <2>3 DEF Seals
    <3>3. closed[f] /\ sealed[f] <= sealed[current]
      <4>1. CASE f = current
        BY <2>1, <3>2, <4>1
      <4>2. CASE f # current
        <5>1. f < current
          BY <3>1, <4>2
        <5>2. closed[f] /\ sealed[f] < sealed[current]
          BY <2>1, <3>1, <3>2, <5>1 DEF Seals
        <5>3. QED
          BY <2>1, <3>1, <5>2
      <4>3. QED
        BY <4>1, <4>2
    <3>4. sealed[f] <= Executed
      BY <2>1, <3>1, <3>2, <3>3
    <3>5. QED
      BY <2>1, <3>1, <3>3, <3>4 DEF Closing
  <2>4. QED
    BY <2>2, <2>3 DEF ClosedOnceAndLast
<1>2. QED
  BY <1>1, StorageInvariance, PTL

\* A coalescing bit always stands for a request still queued or in execution, so
\* no refusal and no failure turns the periodic flushes and space checks off.
THEOREM RequestsServedHolds == Spec => []RequestsServed
<1>1. IInv => RequestsServed
  <2> SUFFICES ASSUME IInv PROVE RequestsServed
    OBVIOUS
  <2>1. TypeOK /\ Numbered /\ Requests /\ jobs \in Seq(Jobs) /\ job \in Seq(Jobs)
    BY DEF IInv, TypeOK
  <2>2. ASSUME NEW f \in Parts, flushPending[f]
        PROVE  \E i \in DOMAIN Pending : Pending[i].coalesced /\ Pending[i].file = f
    <3>1. CASE storagePc \in {"execute", "executed", "settled"}
      <4>1. Len(job) = 1
        BY <2>1, <3>1 DEF Numbered
      <4>2. /\ Len(Pending) = Len(jobs) + 1 /\ Len(jobs) \in Nat /\ Pending[1] = job[1]
            /\ \A i \in 1 .. Len(jobs) : Pending[i + 1] = jobs[i]
        BY <2>1, <4>1, ConcatIs DEF Pending
      <4>3. DOMAIN Pending = 1 .. Len(jobs) + 1 /\ DOMAIN jobs = 1 .. Len(jobs)
        <5>1. Pending \in Seq(Jobs)
          BY <2>1, QueueIs
        <5>2. QED
          BY <2>1, <4>2, <5>1
      <4>4. CASE \E i \in DOMAIN jobs : jobs[i].coalesced /\ jobs[i].file = f
        <5>1. PICK i \in 1 .. Len(jobs) : jobs[i].coalesced /\ jobs[i].file = f
          BY <4>3, <4>4
        <5>2. i + 1 \in DOMAIN Pending /\ Pending[i + 1] = jobs[i]
          BY <4>2, <4>3
        <5>3. QED
          BY <5>1, <5>2
      <4>5. CASE job[1].coalesced /\ job[1].file = f
        <5>1. 1 \in DOMAIN Pending
          BY <4>2, <4>3
        <5>2. QED
          BY <4>2, <4>5, <5>1
      <4>6. QED
        BY <2>1, <2>2, <4>4, <4>5 DEF Requests
    <3>2. CASE storagePc \notin {"execute", "executed", "settled"}
      <4>1. job = <<>>
        BY <2>1, <3>2 DEF Numbered
      <4>2. <<>> \o jobs = jobs
        BY <2>1
      <4>3. Pending = jobs
        BY <4>1, <4>2 DEF Pending
      <4>4. QED
        BY <2>1, <2>2, <3>2, <4>3 DEF Requests
    <3>3. QED
      BY <3>1, <3>2
  <2>3. spacePending => \E i \in DOMAIN Pending : Pending[i].kind = "Space"
    BY <2>1 DEF Requests
  <2>4. QED
    BY <2>2, <2>3 DEF RequestsServed
<1>2. QED
  BY <1>1, StorageInvariance, PTL
=============================================================================
