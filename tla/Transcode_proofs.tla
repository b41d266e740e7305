-------------------------- MODULE Transcode_proofs --------------------------
(***************************************************************************)
(* Theorems about Transcode, for packets of any number of frames, codecs   *)
(* of any delay that may reorder, any number of packets, errors and slots. *)
(***************************************************************************)
EXTENDS Transcode, SequenceTheorems, TLAPS

-----------------------------------------------------------------------------
(* Sequences of frames. *)

\* The constants are of the right type.
LEMMA Constants ==
  /\ MaxPackets \in Nat /\ MaxSlots \in Nat /\ MaxErrors \in Nat
  /\ DecoderDelay \in Nat /\ EncoderDelay \in Nat
  /\ FramesUpTo[0] = 0
  /\ \A p \in 0..MaxPackets : FramesUpTo[p] \in Nat
  /\ \A p, q \in 0..MaxPackets : p <= q => FramesUpTo[p] <= FramesUpTo[q]
  BY TranscodeAssumption

\* Frames are numbers.
LEMMA Numbers ==
  ASSUME NEW s \in Seq(Frame)
  PROVE  Len(s) \in Nat /\ \A i \in 1..Len(s) : s[i] \in Frame /\ s[i] \in Nat
<1>1. FramesUpTo[MaxPackets] \in Nat
  BY Constants
<1>2. Frame \subseteq Nat
  BY <1>1 DEF Frame
<1>. QED
  BY <1>2, LenProperties, ElementOfSeq

\* Two sequences, one behind the other.
LEMMA Join ==
  ASSUME NEW s \in Seq(Frame), NEW t \in Seq(Frame)
  PROVE  /\ s \o t \in Seq(Frame) /\ Len(s \o t) = Len(s) + Len(t)
         /\ \A i \in 1..Len(s) : i \in 1..Len(s \o t) /\ (s \o t)[i] = s[i]
         /\ \A i \in 1..Len(t) :
              Len(s) + i \in 1..Len(s \o t) /\ (s \o t)[Len(s) + i] = t[i]
         /\ \A i \in 1..Len(s \o t) :
              \/ i \in 1..Len(s) /\ (s \o t)[i] = s[i]
              \/ /\ i - Len(s) \in 1..Len(t) /\ i > Len(s)
                 /\ (s \o t)[i] = t[i - Len(s)]
<1>1. Len(s) \in Nat /\ Len(t) \in Nat
  BY LenProperties
<1>2. /\ s \o t \in Seq(Frame) /\ Len(s \o t) = Len(s) + Len(t)
      /\ \A i \in 1..Len(s) + Len(t) :
           (s \o t)[i] = IF i <= Len(s) THEN s[i] ELSE t[i - Len(s)]
  BY ConcatProperties
<1>. DEFINE a == Len(s)
            b == Len(t)
            st == s \o t
<1>3. /\ a \in Nat /\ b \in Nat /\ st \in Seq(Frame) /\ Len(st) = a + b
      /\ \A i \in 1..a + b : st[i] = IF i <= a THEN s[i] ELSE t[i - a]
  BY <1>1, <1>2
<1>. HIDE DEF a, b, st
<1>4. ASSUME NEW i \in 1..a PROVE i \in 1..Len(st) /\ st[i] = s[i]
  <2>1. i \in 1..a + b /\ i <= a
    BY <1>3
  <2>. QED
    BY <1>3, <2>1
<1>5. ASSUME NEW i \in 1..b PROVE a + i \in 1..Len(st) /\ st[a + i] = t[i]
  <2>1. a + i \in 1..a + b /\ ~(a + i <= a) /\ (a + i) - a = i
    BY <1>3
  <2>. QED
    BY <1>3, <2>1
<1>6. ASSUME NEW i \in 1..Len(st)
      PROVE  \/ i \in 1..a /\ st[i] = s[i]
             \/ i - a \in 1..b /\ i > a /\ st[i] = t[i - a]
  BY <1>3
<1>. QED
  BY <1>3, <1>4, <1>5, <1>6 DEF a, b, st

\* A sequence without its i-th element.
LEMMA Removed ==
  ASSUME NEW s \in Seq(Frame), NEW i \in 1..Len(s)
  PROVE  /\ Remove(s, i) \in Seq(Frame) /\ Len(Remove(s, i)) = Len(s) - 1
         /\ \A j \in 1..Len(s) - 1 :
              Remove(s, i)[j] = IF j < i THEN s[j] ELSE s[j + 1]
<1>. DEFINE n == Len(s)
            a == SubSeq(s, 1, i - 1)
            b == SubSeq(s, i + 1, n)
<1>1. n \in Nat /\ i \in 1..n /\ \A j \in 1..n : s[j] \in Frame
  BY Numbers
<1>2. /\ a \in Seq(Frame) /\ Len(a) = i - 1
      /\ \A j \in 1..i - 1 : a[j] = s[j]
  <2>1. \A j \in 1..i - 1 : s[j] \in Frame
    BY <1>1
  <2>. HIDE DEF n
  <2>2. /\ a \in Seq(Frame)
        /\ Len(a) = IF 1 <= i - 1 THEN (i - 1) - 1 + 1 ELSE 0
        /\ \A j \in 1..(i - 1) - 1 + 1 : a[j] = s[1 + j - 1]
    BY <1>1, <2>1, SubSeqProperties
  <2>. HIDE DEF a
  <2>. QED
    BY <1>1, <2>2
<1>3. /\ b \in Seq(Frame) /\ Len(b) = n - i
      /\ \A j \in 1..n - i : b[j] = s[i + j]
  <2>1. \A j \in (i + 1)..n : s[j] \in Frame
    BY <1>1
  <2>. HIDE DEF n
  <2>2. /\ b \in Seq(Frame)
        /\ Len(b) = IF i + 1 <= n THEN n - (i + 1) + 1 ELSE 0
        /\ \A j \in 1..n - (i + 1) + 1 : b[j] = s[(i + 1) + j - 1]
    BY <1>1, <2>1, SubSeqProperties
  <2>. HIDE DEF b
  <2>3. ASSUME NEW j \in 1..n - i PROVE b[j] = s[i + j]
    <3>1. j \in 1..n - (i + 1) + 1 /\ (i + 1) + j - 1 = i + j
      BY <1>1
    <3>. QED
      BY <2>2, <3>1
  <2>. QED
    BY <1>1, <2>2, <2>3
<1>4. Remove(s, i) = a \o b
  BY DEF Remove
<1>. HIDE DEF n, a, b
<1>5. /\ a \o b \in Seq(Frame) /\ Len(a \o b) = (i - 1) + (n - i)
      /\ \A j \in 1..(i - 1) + (n - i) :
           (a \o b)[j] = IF j <= i - 1 THEN a[j] ELSE b[j - (i - 1)]
  <2>1. /\ a \o b \in Seq(Frame) /\ Len(a \o b) = Len(a) + Len(b)
        /\ \A j \in 1..Len(a) + Len(b) :
             (a \o b)[j] = IF j <= Len(a) THEN a[j] ELSE b[j - Len(a)]
    BY <1>2, <1>3, ConcatProperties
  <2>. QED
    BY <1>2, <1>3, <2>1, Zenon
<1>6. ASSUME NEW j \in 1..n - 1
      PROVE  (a \o b)[j] = IF j < i THEN s[j] ELSE s[j + 1]
  <2>1. j \in 1..(i - 1) + (n - i)
    BY <1>1
  <2>2. CASE j < i
    <3>1. j <= i - 1 /\ j \in 1..i - 1
      BY <1>1, <2>2
    <3>. QED
      BY <1>2, <1>5, <2>1, <2>2, <3>1
  <2>3. CASE ~(j < i)
    <3>1. /\ ~(j <= i - 1) /\ j - (i - 1) \in 1..n - i
          /\ i + (j - (i - 1)) = j + 1
      BY <1>1, <2>3
    <3>. QED
      BY <1>3, <1>5, <2>1, <2>3, <3>1
  <2>. QED
    BY <2>2, <2>3
<1>7. (i - 1) + (n - i) = n - 1
  BY <1>1
<1>. QED
  BY <1>4, <1>5, <1>6, <1>7 DEF n

\* What is left comes from where it was, in its order, and is not the i-th.
LEMMA RemovedFrom ==
  ASSUME NEW s \in Seq(Frame), NEW i \in 1..Len(s)
  PROVE  /\ \A j \in 1..Len(Remove(s, i)) :
              \E k \in 1..Len(s) : k # i /\ Remove(s, i)[j] = s[k]
         /\ \A k \in 1..Len(s) : k # i =>
              \E j \in 1..Len(Remove(s, i)) : Remove(s, i)[j] = s[k]
         /\ Increasing(s) => Increasing(Remove(s, i))
<1>. DEFINE n == Len(s)
            t == Remove(s, i)
<1>1. /\ n \in Nat /\ i \in 1..n /\ Len(t) = n - 1
      /\ \A j \in 1..n - 1 : t[j] = IF j < i THEN s[j] ELSE s[j + 1]
  BY Removed, Numbers
<1>. HIDE DEF n, t
<1>2. ASSUME NEW j \in 1..n - 1
      PROVE  \E k \in 1..n : k # i /\ t[j] = s[k]
  <2>1. CASE j < i
    <3>1. j \in 1..n /\ j # i /\ t[j] = s[j]
      BY <1>1, <2>1
    <3>. QED
      BY <3>1
  <2>2. CASE ~(j < i)
    <3>1. j + 1 \in 1..n /\ j + 1 # i /\ t[j] = s[j + 1]
      BY <1>1, <2>2
    <3>. QED
      BY <3>1
  <2>. QED
    BY <2>1, <2>2
<1>3. ASSUME NEW k \in 1..n, k # i
      PROVE  \E j \in 1..n - 1 : t[j] = s[k]
  <2>1. CASE k < i
    <3>1. k \in 1..n - 1 /\ t[k] = s[k]
      BY <1>1, <2>1
    <3>. QED
      BY <3>1
  <2>2. CASE ~(k < i)
    <3>1. k - 1 \in 1..n - 1 /\ ~(k - 1 < i) /\ (k - 1) + 1 = k
      BY <1>1, <1>3, <2>2
    <3>2. t[k - 1] = s[k]
      BY <1>1, <3>1
    <3>. QED
      BY <3>1, <3>2
  <2>. QED
    BY <2>1, <2>2
<1>4. ASSUME Increasing(s) PROVE Increasing(t)
  <2>. SUFFICES ASSUME NEW j \in 1..n - 1, NEW k \in 1..n - 1, j < k
                PROVE  t[j] < t[k]
    BY <1>1 DEF Increasing
  <2>1. \A a, b \in 1..n : a < b => s[a] < s[b]
    BY <1>4 DEF Increasing, n
  <2>. DEFINE at(m) == IF m < i THEN m ELSE m + 1
  <2>2. at(j) \in 1..n /\ at(k) \in 1..n /\ at(j) < at(k)
    BY <1>1
  <2>3. t[j] = s[at(j)] /\ t[k] = s[at(k)]
    BY <1>1
  <2>. QED
    BY <2>1, <2>2, <2>3
<1>. QED
  BY <1>1, <1>2, <1>3, <1>4 DEF n, t

\* One element.
LEMMA Single ==
  ASSUME NEW x \in Frame
  PROVE  <<x>> \in Seq(Frame) /\ Len(<<x>>) = 1 /\ <<x>>[1] = x
  OBVIOUS

-----------------------------------------------------------------------------
(* The frames in the chain: q is out, e in the Encoder's codec, w between the
   codecs, d in the decoder's codec, all up to the n-th. *)

Within(s, n) == \A i \in 1..Len(s) : s[i] <= n
Apart(s, t) == \A i \in 1..Len(s), j \in 1..Len(t) : s[i] # t[j]

InLine(q, e, w, d, n) ==
  /\ Increasing(e) /\ Increasing(w) /\ Increasing(d)
  /\ Below(e, w) /\ Below(e, d) /\ Below(w, d)
  /\ Distinct(q) /\ Apart(q, e) /\ Below(q, w) /\ Below(q, d)
  /\ Within(q, n) /\ Within(e, n) /\ Within(w, n) /\ Within(d, n)
Strict(q, e) == Increasing(q) /\ Below(q, e)

Among(f, s) == \E i \in 1..Len(s) : s[i] = f
Whole(q, e, w, d, n) ==
  /\ Len(q) + Len(e) + Len(w) + Len(d) = n
  /\ \A f \in 1..n : Among(f, q) \/ Among(f, e) \/ Among(f, w) \/ Among(f, d)

\* The empty sequence is in order with any other.
LEMMA Empty ==
  /\ <<>> \in Seq(Frame) /\ Len(<<>>) = 0
  /\ Increasing(<<>>) /\ Distinct(<<>>)
  /\ \A s, n : /\ Below(s, <<>>) /\ Below(<<>>, s) /\ Apart(s, <<>>)
               /\ Apart(<<>>, s) /\ Within(<<>>, n)
<1>1. <<>> \in Seq(Frame) /\ Len(<<>>) = 0 /\ 1..0 = {}
  BY EmptySeq
<1>. QED
  BY <1>1 DEF Increasing, Distinct, Below, Apart, Within

\* The bound may be raised.
LEMMA LineMore ==
  ASSUME NEW q \in Seq(Frame), NEW e \in Seq(Frame), NEW w \in Seq(Frame),
         NEW d \in Seq(Frame), NEW m \in Nat, NEW n \in Nat, m <= n,
         InLine(q, e, w, d, m)
  PROVE  InLine(q, e, w, d, n)
<1>1. ASSUME NEW s \in Seq(Frame), Within(s, m) PROVE Within(s, n)
  BY <1>1, Numbers DEF Within
<1>. QED
  BY <1>1 DEF InLine

\* The frames of a packet enter behind all the others.
LEMMA LineEnters ==
  ASSUME NEW q \in Seq(Frame), NEW e \in Seq(Frame), NEW w \in Seq(Frame),
         NEW d \in Seq(Frame), NEW m \in Nat, NEW n \in Nat, m <= n,
         NEW f \in Seq(Frame), f = [i \in 1..n - m |-> m + i]
  PROVE  /\ InLine(q, e, w, d, m) => InLine(q, e, w, d \o f, n)
         /\ Whole(q, e, w, d, m) => Whole(q, e, w, d \o f, n)
<1>1. Len(f) = n - m /\ \A i \in 1..n - m : f[i] = m + i
  OBVIOUS
<1>2. n - m \in Nat
  OBVIOUS
<1>3. ASSUME InLine(q, e, w, d, m) PROVE InLine(q, e, w, d \o f, n)
  <2>1. InLine(q, e, w, d, n)
    BY <1>3, LineMore
  <2>2. ASSUME NEW s \in Seq(Frame), Within(s, m) PROVE Below(s, f)
    BY <1>1, <2>2, Numbers DEF Within, Below
  <2>3. ASSUME NEW s \in Seq(Frame), Below(s, d), Below(s, f)
        PROVE  Below(s, d \o f)
    <3>. SUFFICES ASSUME NEW i \in 1..Len(s), NEW j \in 1..Len(d \o f)
                  PROVE  s[i] < (d \o f)[j]
      BY DEF Below
    <3>1. \/ j \in 1..Len(d) /\ (d \o f)[j] = d[j]
          \/ j - Len(d) \in 1..Len(f) /\ (d \o f)[j] = f[j - Len(d)]
      BY Join
    <3>. QED
      BY <2>3, <3>1, Zenon DEF Below
  <2>4. Within(d \o f, n)
    <3>1. \A i \in 1..Len(d) : d[i] <= n
      BY <2>1 DEF InLine, Within
    <3>2. \A i \in 1..Len(f) : f[i] <= n
      BY <1>1
    <3>. QED
      BY <3>1, <3>2, Join DEF Within
  <2>5. Increasing(d \o f)
    <3>1. Increasing(d) /\ Below(d, f)
      BY <1>3, <2>2 DEF InLine
    <3>2. \A i, j \in 1..Len(f) : i < j => f[i] < f[j]
      BY <1>1
    <3>. SUFFICES ASSUME NEW i \in 1..Len(d \o f), NEW j \in 1..Len(d \o f),
                         i < j
                  PROVE  (d \o f)[i] < (d \o f)[j]
      BY DEF Increasing
    <3>3. Len(d) \in Nat /\ Len(f) \in Nat /\ Len(d \o f) = Len(d) + Len(f)
      BY Join, LenProperties
    <3>4. CASE j \in 1..Len(d)
      <4>1. i \in 1..Len(d)
        BY <3>3, <3>4
      <4>. QED
        BY <3>1, <3>4, <4>1, Join DEF Increasing
    <3>5. CASE i \in 1..Len(d) /\ j \notin 1..Len(d)
      <4>1. /\ (d \o f)[i] = d[i]
            /\ j - Len(d) \in 1..Len(f) /\ (d \o f)[j] = f[j - Len(d)]
        BY <3>5, Join
      <4>. QED
        BY <3>1, <3>5, <4>1, Zenon DEF Below
    <3>6. CASE i \notin 1..Len(d) /\ j \notin 1..Len(d)
      <4>1. /\ i - Len(d) \in 1..Len(f) /\ (d \o f)[i] = f[i - Len(d)]
            /\ j - Len(d) \in 1..Len(f) /\ (d \o f)[j] = f[j - Len(d)]
        BY <3>6, Join
      <4>2. i - Len(d) < j - Len(d)
        BY <3>3
      <4>. QED
        BY <3>2, <4>1, <4>2
    <3>. QED
      BY <3>3, <3>4, <3>5, <3>6
  <2>6. /\ Below(q, d \o f) /\ Below(e, d \o f) /\ Below(w, d \o f)
    <3>1. Below(q, f) /\ Below(e, f) /\ Below(w, f)
      BY <1>3, <2>2 DEF InLine
    <3>. QED
      BY <1>3, <2>3, <3>1 DEF InLine
  <2>. QED
    BY <2>1, <2>4, <2>5, <2>6 DEF InLine
<1>4. ASSUME Whole(q, e, w, d, m) PROVE Whole(q, e, w, d \o f, n)
  <2>1. Len(q) + Len(e) + Len(w) + Len(d \o f) = n
    <3>1. Len(q) \in Nat /\ Len(e) \in Nat /\ Len(w) \in Nat /\ Len(d) \in Nat
      BY LenProperties
    <3>2. Len(d \o f) = Len(d) + (n - m)
      <4>1. Len(d \o f) = Len(d) + Len(f)
        BY Join
      <4>. QED
        BY <1>1, <4>1, Zenon
    <3>3. Len(q) + Len(e) + Len(w) + Len(d) = m
      BY <1>4, Zenon DEF Whole
    <3>4. Len(q) + Len(e) + Len(w) + (Len(d) + (n - m)) = n
      <4>. DEFINE i == Len(q)
                  j == Len(e)
                  k == Len(w)
                  l == Len(d)
      <4>1. i \in Nat /\ j \in Nat /\ k \in Nat /\ l \in Nat
            /\ i + j + k + l = m
        BY <3>1, <3>3
      <4>. HIDE DEF i, j, k, l
      <4>2. i + j + k + (l + (n - m)) = n
        BY <4>1
      <4>. QED
        BY <4>2, Zenon DEF i, j, k, l
    <3>. QED
      BY <3>2, <3>4, Zenon
  <2>2. ASSUME NEW x \in 1..n
        PROVE  Among(x, q) \/ Among(x, e) \/ Among(x, w) \/ Among(x, d \o f)
    <3>1. CASE x <= m
      <4>1. Among(x, d) => Among(x, d \o f)
        BY Join DEF Among
      <4>2. x \in 1..m
        BY <3>1
      <4>. QED
        BY <1>4, <4>1, <4>2 DEF Whole
    <3>2. CASE ~(x <= m)
      <4>1. x - m \in 1..Len(f) /\ f[x - m] = x
        BY <1>1, <3>2
      <4>2. Len(d) + (x - m) \in 1..Len(d \o f)
            /\ (d \o f)[Len(d) + (x - m)] = x
        BY <4>1, Join
      <4>. QED
        BY <4>2 DEF Among
    <3>. QED
      BY <3>1, <3>2
  <2>. QED
    BY <2>1, <2>2 DEF Whole
<1>. QED
  BY <1>3, <1>4

\* The decoder's codec gives its first frame, which is lost ...
LEMMA LineLoses ==
  ASSUME NEW q \in Seq(Frame), NEW e \in Seq(Frame), NEW w \in Seq(Frame),
         NEW d \in Seq(Frame), NEW n \in Nat, InLine(q, e, w, d, n),
         1 \in 1..Len(d)
  PROVE  InLine(q, e, w, Remove(d, 1), n)
<1>. DEFINE r == Remove(d, 1)
<1>1. /\ r \in Seq(Frame) /\ (Increasing(d) => Increasing(r))
      /\ \A j \in 1..Len(r) : \E k \in 1..Len(d) : r[j] = d[k]
  BY Removed, RemovedFrom
<1>. HIDE DEF r
<1>2. \A s \in Seq(Frame) : Below(s, d) => Below(s, r)
  BY <1>1 DEF Below
<1>3. Within(d, n) => Within(r, n)
  BY <1>1 DEF Within
<1>. QED
  BY <1>1, <1>2, <1>3 DEF InLine, r

\* ... or goes to the Encoder.
LEMMA LineMoves ==
  ASSUME NEW q \in Seq(Frame), NEW e \in Seq(Frame), NEW d \in Seq(Frame),
         NEW n \in Nat, 1 \in 1..Len(d)
  PROVE  /\ InLine(q, e, <<>>, d, n)
              => InLine(q, e, <<d[1]>>, Remove(d, 1), n)
         /\ Whole(q, e, <<>>, d, n) => Whole(q, e, <<d[1]>>, Remove(d, 1), n)
<1>. DEFINE r == Remove(d, 1)
            w == <<d[1]>>
<1>1. d[1] \in Frame /\ d[1] \in Nat
  BY Numbers
<1>2. w \in Seq(Frame) /\ Len(w) = 1 /\ w[1] = d[1]
  BY <1>1, Single
<1>3. /\ r \in Seq(Frame) /\ Len(r) = Len(d) - 1
      /\ \A j \in 1..Len(r) : \E k \in 1..Len(d) : k # 1 /\ r[j] = d[k]
      /\ \A k \in 1..Len(d) : k # 1 => \E j \in 1..Len(r) : r[j] = d[k]
  BY Removed, RemovedFrom
<1>. HIDE DEF r, w
<1>4. ASSUME InLine(q, e, <<>>, d, n) PROVE InLine(q, e, w, r, n)
  <2>1. InLine(q, e, <<>>, r, n)
    BY <1>4, LineLoses, Empty DEF r
  <2>2. \A s \in Seq(Frame) : Below(s, d) => Below(s, w)
    BY <1>2 DEF Below
  <2>3. Below(w, r)
    <3>1. \A k \in 1..Len(d) : k # 1 => d[1] < d[k]
      BY <1>4, LenProperties DEF InLine, Increasing
    <3>2. \A j \in 1..Len(r) : d[1] < r[j]
      BY <1>3, <3>1, Zenon
    <3>. QED
      BY <1>2, <3>2 DEF Below
  <2>4. Increasing(w) /\ Within(w, n)
    BY <1>2, <1>4 DEF Increasing, Within, InLine
  <2>5. Below(q, d) /\ Below(e, d)
    BY <1>4 DEF InLine
  <2>. QED
    BY <2>1, <2>2, <2>3, <2>4, <2>5 DEF InLine
<1>5. ASSUME Whole(q, e, <<>>, d, n) PROVE Whole(q, e, w, r, n)
  <2>1. Len(q) + Len(e) + Len(w) + Len(r) = n
    <3>1. /\ Len(q) \in Nat /\ Len(e) \in Nat /\ Len(d) \in Nat
          /\ Len(w) = 1 /\ Len(r) = Len(d) - 1
          /\ Len(q) + Len(e) + 0 + Len(d) = n
      BY <1>2, <1>3, <1>5, Empty, LenProperties, Zenon DEF Whole
    <3>2. Len(q) + Len(e) + 1 + (Len(d) - 1) = n
      <4>. DEFINE i == Len(q)
                  j == Len(e)
                  l == Len(d)
      <4>1. i \in Nat /\ j \in Nat /\ l \in Nat /\ i + j + 0 + l = n
        BY <3>1, Zenon
      <4>. HIDE DEF i, j, l
      <4>2. i + j + 1 + (l - 1) = n
        BY <4>1
      <4>. QED
        BY <4>2, Zenon DEF i, j, l
    <3>. QED
      BY <3>1, <3>2, Zenon
  <2>2. ASSUME NEW f \in 1..n
        PROVE  Among(f, q) \/ Among(f, e) \/ Among(f, w) \/ Among(f, r)
    <3>1. ~Among(f, <<>>)
      BY Empty DEF Among
    <3>2. ASSUME Among(f, d) PROVE Among(f, w) \/ Among(f, r)
      <4>1. PICK k \in 1..Len(d) : d[k] = f
        BY <3>2, Zenon DEF Among
      <4>2. CASE k = 1
        <5>1. 1 \in 1..Len(w) /\ w[1] = f
          BY <1>2, <4>1, <4>2
        <5>. QED
          BY <5>1, Zenon DEF Among
      <4>3. CASE k # 1
        BY <1>3, <4>1, <4>3, Zenon DEF Among
      <4>. QED
        BY <4>2, <4>3
    <3>. QED
      BY <1>5, <3>1, <3>2 DEF Whole
  <2>. QED
    BY <2>1, <2>2 DEF Whole
<1>. QED
  BY <1>4, <1>5 DEF r, w

\* The frame between the codecs goes into the Encoder's.
LEMMA LineEncodes ==
  ASSUME NEW q \in Seq(Frame), NEW e \in Seq(Frame), NEW d \in Seq(Frame),
         NEW n \in Nat, NEW x \in Frame
  PROVE  /\ InLine(q, e, <<x>>, d, n) => InLine(q, e \o <<x>>, <<>>, d, n)
         /\ Strict(q, e) /\ InLine(q, e, <<x>>, d, n)
              => Strict(q, e \o <<x>>)
         /\ Whole(q, e, <<x>>, d, n) => Whole(q, e \o <<x>>, <<>>, d, n)
<1>. DEFINE w == <<x>>
            g == e \o w
<1>1. w \in Seq(Frame) /\ Len(w) = 1 /\ w[1] = x
  BY Single
<1>. HIDE DEF w
<1>2. /\ Len(e) \in Nat /\ g \in Seq(Frame) /\ Len(g) = Len(e) + 1
      /\ \A i \in 1..Len(e) : i \in 1..Len(g) /\ g[i] = e[i]
      /\ Len(e) + 1 \in 1..Len(g) /\ g[Len(e) + 1] = x
  <2>1. 1 \in 1..Len(w)
    BY <1>1
  <2>2. Len(g) = Len(e) + Len(w) /\ g[Len(e) + 1] = w[1]
    BY <1>1, <2>1, Join, Zenon
  <2>3. g \in Seq(Frame) /\ Len(e) \in Nat
    BY <1>1, Join, LenProperties
  <2>4. \A i \in 1..Len(e) : i \in 1..Len(g) /\ g[i] = e[i]
    BY <1>1, Join, Zenon
  <2>. HIDE DEF g
  <2>. QED
    BY <1>1, <2>2, <2>3, <2>4
<1>. HIDE DEF g
<1>3. \A i \in 1..Len(g) : i \in 1..Len(e) \/ i = Len(e) + 1
  BY <1>2
<1>4. ASSUME InLine(q, e, w, d, n) PROVE InLine(q, g, <<>>, d, n)
  <2>1. Increasing(g)
    <3>1. \A i \in 1..Len(e) : e[i] < x
      BY <1>1, <1>4 DEF InLine, Below
    <3>. SUFFICES ASSUME NEW i \in 1..Len(g), NEW j \in 1..Len(g), i < j
                  PROVE  g[i] < g[j]
      BY DEF Increasing
    <3>2. i \in 1..Len(e)
      BY <1>2
    <3>3. CASE j \in 1..Len(e)
      BY <1>2, <1>4, <3>2, <3>3 DEF InLine, Increasing
    <3>4. CASE j = Len(e) + 1
      BY <1>2, <3>1, <3>2, <3>4
    <3>. QED
      BY <1>3, <3>3, <3>4
  <2>2. Below(g, d)
    BY <1>1, <1>2, <1>3, <1>4 DEF InLine, Below
  <2>3. Apart(q, g)
    <3>1. \A i \in 1..Len(q) : q[i] < x /\ q[i] \in Nat /\ x \in Nat
      BY <1>1, <1>4, Numbers DEF InLine, Below
    <3>2. \A i \in 1..Len(q) : q[i] # x
      BY <3>1
    <3>. QED
      BY <1>2, <1>3, <1>4, <3>2 DEF InLine, Apart
  <2>4. Within(g, n)
    <3>1. w[1] <= n /\ \A i \in 1..Len(e) : e[i] <= n
      BY <1>1, <1>4 DEF InLine, Within
    <3>. QED
      BY <1>1, <1>2, <1>3, <3>1 DEF Within
  <2>. QED
    BY <1>4, <2>1, <2>2, <2>3, <2>4, Empty DEF InLine
<1>5. ASSUME Strict(q, e), InLine(q, e, w, d, n) PROVE Strict(q, g)
  BY <1>1, <1>2, <1>3, <1>5 DEF Strict, InLine, Below
<1>6. ASSUME Whole(q, e, w, d, n) PROVE Whole(q, g, <<>>, d, n)
  <2>1. Len(q) + Len(g) + Len(<<>>) + Len(d) = n
    BY <1>1, <1>2, <1>6, Empty, LenProperties DEF Whole
  <2>2. \A f : Among(f, e) \/ Among(f, w) => Among(f, g)
    BY <1>1, <1>2 DEF Among
  <2>. QED
    BY <1>6, <2>1, <2>2 DEF Whole
<1>. QED
  BY <1>4, <1>5, <1>6 DEF g, w

\* The Encoder's codec gives the i-th packet that it holds.
LEMMA LineSignals ==
  ASSUME NEW q \in Seq(Frame), NEW e \in Seq(Frame), NEW d \in Seq(Frame),
         NEW w \in Seq(Frame), NEW n \in Nat, NEW i \in 1..Len(e),
         InLine(q, e, w, d, n)
  PROVE  /\ InLine(Append(q, e[i]), Remove(e, i), w, d, n)
         /\ Strict(q, e) /\ i = 1 => Strict(Append(q, e[i]), Remove(e, i))
<1>. DEFINE x == e[i]
            p == Append(q, x)
            r == Remove(e, i)
<1>1. x \in Frame /\ x \in Nat /\ Len(e) \in Nat
  BY Numbers
<1>2. /\ Len(q) \in Nat /\ p \in Seq(Frame) /\ Len(p) = Len(q) + 1
      /\ \A j \in 1..Len(q) : p[j] = q[j] /\ q[j] \in Nat
      /\ p[Len(q) + 1] = x
  BY <1>1, Numbers, AppendProperties
<1>3. /\ r \in Seq(Frame) /\ (Increasing(e) => Increasing(r))
      /\ \A j \in 1..Len(r) :
           \E k \in 1..Len(e) : k # i /\ r[j] = e[k]
  BY Removed, RemovedFrom
<1>. HIDE DEF p, r
<1>4. \A j \in 1..Len(p) : j \in 1..Len(q) \/ j = Len(q) + 1
  BY <1>2
<1>5. Increasing(e) /\ Apart(q, e) /\ Distinct(q)
  BY DEF InLine
<1>6. ASSUME NEW k \in 1..Len(e), k # i PROVE e[k] # x
  <2>1. e[k] \in Nat /\ (k < i \/ i < k)
    BY <1>1, <1>6, Numbers
  <2>2. e[k] < x \/ x < e[k]
    BY <1>5, <2>1 DEF Increasing
  <2>. QED
    BY <1>1, <2>1, <2>2
<1>7. InLine(p, r, w, d, n)
  <2>1. Distinct(p)
    <3>1. \A j \in 1..Len(q) : q[j] # x
      BY <1>5 DEF Apart
    <3>. SUFFICES ASSUME NEW j \in 1..Len(p), NEW k \in 1..Len(p), j # k
                  PROVE  p[j] # p[k]
      BY DEF Distinct
    <3>. QED
      BY <1>2, <1>4, <1>5, <3>1 DEF Distinct
  <2>2. Apart(p, r)
    <3>1. \A j \in 1..Len(r) : r[j] # x
      BY <1>3, <1>6
    <3>2. Apart(q, r)
      BY <1>3, <1>5 DEF Apart
    <3>. QED
      BY <1>2, <1>4, <3>1, <3>2 DEF Apart
  <2>3. Below(p, w) /\ Below(p, d) /\ Within(p, n)
    BY <1>2, <1>4 DEF InLine, Below, Within
  <2>4. Below(r, w) /\ Below(r, d) /\ Within(r, n)
    BY <1>3 DEF InLine, Below, Within
  <2>. QED
    BY <1>3, <2>1, <2>2, <2>3, <2>4 DEF InLine
<1>8. ASSUME Strict(q, e), i = 1 PROVE Strict(p, r)
  <2>1. \A j \in 1..Len(q) : q[j] < x
    BY <1>8 DEF Strict, Below
  <2>2. Increasing(p)
    <3>. SUFFICES ASSUME NEW j \in 1..Len(p), NEW k \in 1..Len(p), j < k
                  PROVE  p[j] < p[k]
      BY DEF Increasing
    <3>1. j \in 1..Len(q)
      BY <1>2
    <3>. QED
      BY <1>2, <1>4, <1>8, <2>1, <3>1 DEF Strict, Increasing
  <2>3. \A j \in 1..Len(r) : x < r[j]
    <3>1. \A k \in 1..Len(e) : k # 1 => x < e[k]
      BY <1>1, <1>5, <1>8 DEF Increasing
    <3>. QED
      BY <1>3, <1>8, <3>1
  <2>4. Below(q, r)
    BY <1>3, <1>8 DEF Strict, Below
  <2>5. Below(p, r)
    BY <1>2, <1>4, <2>3, <2>4 DEF Below
  <2>. QED
    BY <2>2, <2>5 DEF Strict
<1>. QED
  BY <1>7, <1>8 DEF p, r

\* Nothing is lost when it does.
LEMMA LineKeeps ==
  ASSUME NEW q \in Seq(Frame), NEW e \in Seq(Frame), NEW d \in Seq(Frame),
         NEW w \in Seq(Frame), NEW n \in Nat, NEW i \in 1..Len(e),
         Whole(q, e, w, d, n)
  PROVE  Whole(Append(q, e[i]), Remove(e, i), w, d, n)
<1>. DEFINE p == Append(q, e[i])
            r == Remove(e, i)
<1>1. /\ Len(q) \in Nat /\ Len(p) = Len(q) + 1
      /\ \A j \in 1..Len(q) : j \in 1..Len(p) /\ p[j] = q[j]
      /\ Len(q) + 1 \in 1..Len(p) /\ p[Len(q) + 1] = e[i]
  <2>1. e[i] \in Frame
    BY Numbers
  <2>. QED
    BY <2>1, LenProperties, AppendProperties
<1>2. /\ Len(r) = Len(e) - 1 /\ Len(e) \in Nat
      /\ \A k \in 1..Len(e) : k # i => \E j \in 1..Len(r) : r[j] = e[k]
  BY Removed, RemovedFrom, LenProperties
<1>. HIDE DEF p, r
<1>3. Len(p) + Len(r) + Len(w) + Len(d) = n
  <2>1. Len(w) \in Nat /\ Len(d) \in Nat /\ Len(q) + Len(e) + Len(w) + Len(d) = n
    BY LenProperties, Zenon DEF Whole
  <2>2. (Len(q) + 1) + (Len(e) - 1) + Len(w) + Len(d) = n
    <3>. DEFINE a == Len(q)
                b == Len(e)
                c == Len(w)
                l == Len(d)
    <3>1. a \in Nat /\ b \in Nat /\ c \in Nat /\ l \in Nat
          /\ a + b + c + l = n
      BY <1>1, <1>2, <2>1, Zenon
    <3>. HIDE DEF a, b, c, l
    <3>2. (a + 1) + (b - 1) + c + l = n
      BY <3>1
    <3>. QED
      BY <3>2, Zenon DEF a, b, c, l
  <2>. QED
    BY <1>1, <1>2, <2>2, Zenon
<1>4. \A f : Among(f, q) => Among(f, p)
  BY <1>1 DEF Among
<1>5. \A f : Among(f, e) => Among(f, p) \/ Among(f, r)
  BY <1>1, <1>2 DEF Among
<1>. QED
  BY <1>3, <1>4, <1>5 DEF Whole, p, r

-----------------------------------------------------------------------------
(* The types. *)

\* The frames of a packet are those after the packet before.
LEMMA FramesOfPacket ==
  ASSUME NEW p \in 1..MaxPackets
  PROVE  /\ FramesUpTo[p - 1] \in Nat /\ FramesUpTo[p] \in Nat
         /\ FramesUpTo[p - 1] <= FramesUpTo[p]
         /\ FramesOf(p) \in Seq(Frame)
<1>1. /\ p - 1 \in 0..MaxPackets /\ p \in 0..MaxPackets
      /\ MaxPackets \in 0..MaxPackets
  BY Constants
<1>2. /\ FramesUpTo[p - 1] \in Nat /\ FramesUpTo[p] \in Nat
      /\ FramesUpTo[MaxPackets] \in Nat
      /\ FramesUpTo[p - 1] <= FramesUpTo[p]
      /\ FramesUpTo[p] <= FramesUpTo[MaxPackets]
  BY <1>1, Constants
<1>. DEFINE m == FramesUpTo[p - 1]
            n == FramesUpTo[p]
            last == FramesUpTo[MaxPackets]
<1>3. m \in Nat /\ n \in Nat /\ last \in Nat /\ m <= n /\ n <= last
  BY <1>2
<1>. HIDE DEF m, n, last
<1>4. [i \in 1..n - m |-> m + i] \in Seq(1..last)
  BY <1>3
<1>. QED
  BY <1>2, <1>4, Zenon DEF m, n, last, FramesOf, Frame

\* What a codec holds after a send.
LEMMA Accepts ==
  ASSUME NEW context, Context(context), NEW frames \in Seq(Frame),
         NEW delay \in Nat, NEW c \in Accept(context, frames, delay)
  PROVE  /\ Context(c) /\ c.held = context.held \o frames
         /\ Len(c.held) - c.ready <= delay
<1>1. PICK r \in {n \in context.ready..Len(context.held \o frames) :
                    Len(context.held \o frames) - n <= delay} :
        c = [held |-> context.held \o frames, ready |-> r]
  BY DEF Accept
<1>2. /\ context.held \o frames \in Seq(Frame)
      /\ Len(context.held \o frames) \in Nat
      /\ context.ready \in Nat
  BY ConcatProperties, LenProperties DEF Context
<1>3. c.held = context.held \o frames /\ c.ready = r
  BY <1>1
<1>4. r \in 0..Len(context.held \o frames)
  BY <1>1, <1>2
<1>. QED
  BY <1>1, <1>2, <1>3, <1>4 DEF Context

\* What a codec gives, and what it holds after that.
LEMMA Gives ==
  ASSUME NEW context, Context(context), context.ready > 0,
         NEW i \in 1..Len(context.held)
  PROVE  /\ context.held[i] \in Frame
         /\ Context(Give(context, i))
         /\ Give(context, i).held = Remove(context.held, i)
         /\ Give(context, i).ready = context.ready - 1
         /\ Len(Give(context, i).held) - Give(context, i).ready
              = Len(context.held) - context.ready
<1>. DEFINE held == context.held
<1>1. /\ held \in Seq(Frame) /\ context.ready \in 0..Len(held)
      /\ Len(held) \in Nat /\ held[i] \in Frame
  BY Numbers DEF Context
<1>2. /\ Remove(held, i) \in Seq(Frame)
      /\ Len(Remove(held, i)) = Len(held) - 1
  BY <1>1, Removed
<1>3. /\ Give(context, i).held = Remove(held, i)
      /\ Give(context, i).ready = context.ready - 1
  BY DEF Give
<1>4. context.ready - 1 \in 0..Len(held) - 1
  BY <1>1
<1>5. (Len(held) - 1) - (context.ready - 1) = Len(held) - context.ready
  BY <1>1
<1>. QED
  BY <1>1, <1>2, <1>3, <1>4, <1>5, Zenon DEF Context

\* A codec with output ready holds a frame to give, the first one or any.
LEMMA Ready ==
  ASSUME NEW context, Context(context), context.ready > 0
  PROVE  1 \in 1..Len(context.held)
  BY LenProperties DEF Context

LEMMA Chosen ==
  ASSUME Context(enc), enc.ready > 0, NEW i \in Choices
  PROVE  i \in 1..Len(enc.held) /\ (~reorders => i = 1)
  BY Ready DEF Choices

\* A new codec context.
LEMMA FreshContext ==
  Context(Fresh) /\ Fresh.held = <<>> /\ Fresh.ready = 0 /\ Len(Fresh.held) = 0
<1>1. Fresh.held = <<>> /\ Fresh.ready = 0
  BY DEF Fresh
<1>2. <<>> \in Seq(Frame) /\ Len(<<>>) = 0
  BY EmptySeq
<1>. QED
  BY <1>1, <1>2 DEF Context

\* What is one of a few values.
GraphTypes ==
  /\ source \in {"reader", "unpacker", "dataless"}
  /\ {careful, reorders, known, playing, decoded, twice} \subseteq BOOLEAN
  /\ encoder \in {"null", "unopened", "open"}
  /\ building \in {"no", "context", "open"}
  /\ codec \in {"none", "named", "source"}
  /\ crashed \in {"no", "nullData", "nullContext", "freed", "terminate"}

\* The slots, the forwarding thread and the codecs.  Inside the loops, a packet
\* has been read; an Encoder's slot has a frame.
WorkTypes ==
  /\ slots \in [Decoders -> 0..MaxSlots] /\ calls \in [Decoders -> 0..MaxSlots]
  /\ links \in 0..MaxSlots /\ runs \in 0..MaxSlots
  /\ read \in 0..MaxPackets /\ turn \in Decoders
  /\ pc \in {"idle", "send", "receive", "encode", "drain"}
  /\ Context(dec) /\ Context(enc)
  /\ frame \in Frame \cup {0} /\ out \in Seq(Frame)
  /\ errors \in 0..MaxErrors
  /\ pc # "idle" => read >= 1
  /\ pc \in {"encode", "drain"} => frame \in Frame

\* The parts are the types.
LEMMA TypeParts == GraphTypes /\ WorkTypes => TypeOK
  BY DEF GraphTypes, WorkTypes, TypeOK

\* A step is one of the user's or of the forwarding thread.
LEMMA Steps ==
  ASSUME [Next]_vars
  PROVE  \/ \E d \in Decoders : SubscribeDecoder(d) \/ UnsubscribeDecoder(d)
         \/ ConnectEncoder \/ EncoderContext \/ EncoderOpen
         \/ UnsubscribeEncoder \/ Play
         \/ Read \/ Send \/ Receive \/ Encode \/ Drain
         \/ UNCHANGED vars
  BY Zenon DEF Next, Subscriptions, Forwarding

\* The graph keeps its types.
THEOREM GraphCorrect == Spec => []GraphTypes
<1>1. Init => GraphTypes
  BY Zenon DEF Init, GraphTypes
<1>2. GraphTypes /\ [Next]_vars => GraphTypes'
  <2>. SUFFICES ASSUME GraphTypes, [Next]_vars PROVE GraphTypes'
    OBVIOUS
  <2>. USE DEF GraphTypes, setup, encoding, graph, work
  <2>1. ASSUME NEW d \in Decoders, SubscribeDecoder(d) PROVE GraphTypes'
    BY <2>1, Zenon DEF SubscribeDecoder, SubscribeCallback
  <2>2. ASSUME NEW d \in Decoders, UnsubscribeDecoder(d) PROVE GraphTypes'
    BY <2>2, Zenon DEF UnsubscribeDecoder
  <2>3. CASE ConnectEncoder
    BY <2>3, Zenon DEF ConnectEncoder
  <2>4. CASE EncoderContext
    BY <2>4, Zenon DEF EncoderContext
  <2>5. CASE EncoderOpen
    BY <2>5 DEF EncoderOpen
  <2>6. CASE UnsubscribeEncoder
    BY <2>6, Zenon DEF UnsubscribeEncoder
  <2>7. CASE Play
    BY <2>7, Zenon DEF Play
  <2>8. CASE Read
    BY <2>8, Zenon DEF Read
  <2>9. CASE Send
    BY <2>9, Zenon DEF Send
  <2>10. CASE Receive
    BY <2>10, Zenon DEF Receive
  <2>11. CASE Encode
    BY <2>11, Zenon DEF Encode
  <2>12. CASE Drain
    BY <2>12, Zenon DEF Drain
  <2>13. CASE UNCHANGED vars
    BY <2>13, Zenon DEF vars
  <2>. QED
    BY Steps, <2>1, <2>2, <2>3, <2>4, <2>5, <2>6, <2>7, <2>8, <2>9, <2>10,
       <2>11, <2>12, <2>13, Zenon
<1>. QED
  BY <1>1, <1>2, PTL DEF Spec

\* A signal runs one of the slots that are left, or returns.
LEMMA CallTypes ==
  ASSUME NEW left \in [Decoders -> 0..MaxSlots], Call(left), MaxSlots \in Nat
  PROVE  /\ calls' \in [Decoders -> 0..MaxSlots]
         /\ turn' \in Decoders /\ pc' \in {"idle", "send"}
         /\ left[1] + left[2] <= 1 => calls' = Nobody
<1>1. CASE left = Nobody
  BY <1>1 DEF Call, Decoders
<1>2. CASE left # Nobody
  <2>1. PICK d \in Decoders : /\ left[d] > 0
                              /\ calls' = [left EXCEPT ![d] = @ - 1]
                              /\ turn' = d /\ pc' = "send"
    BY <1>2 DEF Call
  <2>2. left[d] - 1 \in 0..MaxSlots
    BY <2>1 DEF Decoders
  <2>3. ASSUME left[1] + left[2] <= 1 PROVE calls' = Nobody
    <3>1. calls' = [e \in Decoders |-> IF e = d THEN left[d] - 1 ELSE left[e]]
      BY <2>1
    <3>2. left[1] \in 0..MaxSlots /\ left[2] \in 0..MaxSlots /\ d \in {1, 2}
      BY DEF Decoders
    <3>3. \A e \in Decoders : (IF e = d THEN left[d] - 1 ELSE left[e]) = 0
      BY <2>1, <2>3, <3>2 DEF Decoders
    <3>. QED
      BY <3>1, <3>3 DEF Nobody
  <2>. QED
    BY <2>1, <2>2, <2>3
<1>. QED
  BY <1>1, <1>2

\* The slots, the thread and the codecs keep their types.
THEOREM WorkCorrect == Spec => []WorkTypes
<1>. USE Constants
<1>1. Init => WorkTypes
  <2>1. <<>> \in Seq(Frame) /\ Nobody \in [Decoders -> 0..MaxSlots]
    BY EmptySeq DEF Nobody
  <2>. QED
    BY <2>1, FreshContext DEF Init, WorkTypes, Decoders
<1>2. WorkTypes /\ [Next]_vars => WorkTypes'
  <2>. SUFFICES ASSUME WorkTypes, [Next]_vars PROVE WorkTypes'
    OBVIOUS
  <2>1. ASSUME UNCHANGED <<turn, read, pc, dec, frame, out, errors>>,
               Context(enc'),
               slots' \in [Decoders -> 0..MaxSlots],
               calls' \in [Decoders -> 0..MaxSlots],
               links' \in 0..MaxSlots, runs' \in 0..MaxSlots
        PROVE  WorkTypes'
    BY <2>1, Zenon DEF WorkTypes, Context
  <2>2. ASSUME NEW d \in Decoders, SubscribeDecoder(d) PROVE WorkTypes'
    <3>1. slots[1] \in 0..MaxSlots /\ slots[2] \in 0..MaxSlots /\ d \in {1, 2}
      BY DEF WorkTypes, Decoders
    <3>2. slots[d] + 1 \in 0..MaxSlots
      BY <2>2, <3>1 DEF SubscribeDecoder
    <3>3. slots' \in [Decoders -> 0..MaxSlots]
      BY <2>2, <3>2 DEF SubscribeDecoder, WorkTypes
    <3>4. UNCHANGED <<links, calls, runs, work, enc>>
      BY <2>2, Zenon DEF SubscribeDecoder, emission
    <3>. QED
      BY <2>1, <3>3, <3>4, Zenon DEF work, WorkTypes
  <2>3. ASSUME NEW d \in Decoders, UnsubscribeDecoder(d) PROVE WorkTypes'
    <3>1. /\ slots' \in [Decoders -> 0..MaxSlots]
          /\ calls' \in [Decoders -> 0..MaxSlots]
      BY <2>3 DEF UnsubscribeDecoder, WorkTypes
    <3>2. UNCHANGED <<links, runs, work, enc>>
      BY <2>3, Zenon DEF UnsubscribeDecoder
    <3>. QED
      BY <2>1, <3>1, <3>2, Zenon DEF work, WorkTypes
  <2>4. CASE ConnectEncoder
    <3>1. links' \in 0..MaxSlots
      BY <2>4 DEF ConnectEncoder, WorkTypes
    <3>2. UNCHANGED <<slots, calls, runs, work, enc>>
      BY <2>4, Zenon DEF ConnectEncoder, emission
    <3>. QED
      BY <2>1, <3>1, <3>2, Zenon DEF work, WorkTypes
  <2>5. CASE UnsubscribeEncoder
    <3>1. links' \in 0..MaxSlots /\ runs' \in 0..MaxSlots
      BY <2>5 DEF UnsubscribeEncoder
    <3>2. UNCHANGED <<slots, calls, work, enc>>
      BY <2>5, Zenon DEF UnsubscribeEncoder
    <3>. QED
      BY <2>1, <3>1, <3>2, Zenon DEF work, WorkTypes
  <2>6. CASE EncoderContext \/ EncoderOpen \/ Play \/ UNCHANGED vars
    <3>1. UNCHANGED <<slots, links, calls, runs, work>>
      BY <2>6, Zenon DEF EncoderContext, EncoderOpen, Play, vars, emission,
         graph
    <3>2. enc' = enc \/ enc' = Fresh
      BY <2>6, Zenon DEF EncoderContext, EncoderOpen, Play, vars
    <3>3. Context(enc')
      BY <3>2, FreshContext, Zenon DEF WorkTypes
    <3>. QED
      BY <2>1, <3>1, <3>3, Zenon DEF work, WorkTypes
  <2>7. CASE Read
    <3>1. /\ Call(slots) /\ pc = "idle" /\ read' = read + 1 /\ read < MaxPackets
          /\ UNCHANGED <<slots, links, runs, dec, frame, enc, out, errors>>
      BY <2>7, Zenon DEF Read, At, graph
    <3>2. /\ calls' \in [Decoders -> 0..MaxSlots]
          /\ turn' \in Decoders /\ pc' \in {"idle", "send"}
      BY <3>1, CallTypes DEF WorkTypes
    <3>3. read' \in 1..MaxPackets
      BY <3>1 DEF WorkTypes
    <3>. QED
      BY <3>1, <3>2, <3>3 DEF WorkTypes, Context
  <2>8. CASE Send
    <3>1. read \in 1..MaxPackets
      BY <2>8 DEF Send, At, WorkTypes
    <3>2. /\ UNCHANGED <<slots, links, runs, read, frame, enc, out>>
          /\ \/ /\ dec' \in Accept(dec, FramesOf(read), DecoderDelay)
                /\ pc' = "receive" /\ UNCHANGED <<turn, calls, errors>>
             \/ /\ Call(calls) /\ UNCHANGED dec
                /\ errors' = errors \/ (errors < MaxErrors /\ errors' = errors + 1)
      BY <2>8, Zenon DEF Send, graph, Return
    <3>3. Context(dec')
      BY <3>1, <3>2, Accepts, FramesOfPacket DEF WorkTypes
    <3>4. /\ calls' \in [Decoders -> 0..MaxSlots]
          /\ turn' \in Decoders /\ pc' \in {"idle", "send", "receive"}
      BY <3>2, CallTypes DEF WorkTypes
    <3>5. errors' \in 0..MaxErrors
      BY <3>2 DEF WorkTypes
    <3>. QED
      BY <3>1, <3>2, <3>3, <3>4, <3>5 DEF WorkTypes, Context
  <2>9. CASE Receive
    <3>1. /\ read \in 1..MaxPackets
          /\ UNCHANGED <<slots, links, read, enc, out>>
      BY <2>9 DEF Receive, At, WorkTypes, graph
    <3>2. CASE /\ dec.ready > 0 /\ dec' = Give(dec, 1)
               /\ frame' = dec.held[1] /\ pc' = "encode" /\ links > 0
               /\ runs' = links - 1 /\ UNCHANGED <<turn, calls, errors>>
      <4>1. frame' \in Frame /\ Context(dec')
        BY <3>2, Gives, Ready DEF WorkTypes
      <4>2. runs' \in 0..MaxSlots
        BY <3>2 DEF WorkTypes
      <4>. QED
        BY <3>1, <3>2, <4>1, <4>2 DEF WorkTypes, Context
    <3>3. CASE /\ \/ dec.ready > 0 /\ dec' = Give(dec, 1)
                  \/ dec' = dec
               /\ UNCHANGED <<frame, runs>>
               /\ errors' = errors
                    \/ (errors < MaxErrors /\ errors' = errors + 1)
               /\ UNCHANGED <<pc, turn, calls>> \/ Call(calls)
      <4>1. Context(dec')
        BY <3>3, Gives, Ready DEF WorkTypes
      <4>2. /\ calls' \in [Decoders -> 0..MaxSlots]
            /\ turn' \in Decoders /\ pc' \in {"idle", "send", "receive"}
        BY <2>9, <3>3, CallTypes DEF WorkTypes, Receive, At
      <4>3. errors' \in 0..MaxErrors
        BY <3>3 DEF WorkTypes
      <4>. QED
        BY <3>1, <3>3, <4>1, <4>2, <4>3 DEF WorkTypes, Context
    <3>. QED
      BY <2>9, <3>2, <3>3, Zenon DEF Receive, Return
  <2>10. CASE Encode
    <3>1. /\ read \in 1..MaxPackets /\ frame \in Frame /\ pc = "encode"
          /\ UNCHANGED <<slots, links, calls, runs, read, turn, dec, frame, out>>
      BY <2>10 DEF Encode, At, WorkTypes, graph, emission
    <3>2. /\ \/ enc' = enc /\ pc' = pc
             \/ /\ enc' \in Accept(enc, <<frame>>, EncoderDelay)
                /\ pc' = "drain"
          /\ errors' = errors \/ (errors < MaxErrors /\ errors' = errors + 1)
      BY <2>10, Zenon DEF Encode
    <3>3. Context(enc')
      BY <3>1, <3>2, Single, Accepts DEF WorkTypes
    <3>4. errors' \in 0..MaxErrors
      BY <3>2 DEF WorkTypes
    <3>. QED
      BY <3>1, <3>2, <3>3, <3>4 DEF WorkTypes, Context
  <2>11. CASE Drain
    <3>1. /\ read \in 1..MaxPackets /\ frame \in Frame /\ pc = "drain"
          /\ UNCHANGED <<slots, links, calls, read, turn, dec>>
      BY <2>11 DEF Drain, At, WorkTypes, graph
    <3>2. CASE UNCHANGED <<pc, frame, runs, errors>> /\ enc.ready > 0 /\ Signal
      <4>1. PICK i \in Choices :
              /\ out' = IF twice THEN out ELSE Append(out, enc.held[i])
              /\ enc' = Give(enc, i)
        BY <3>2 DEF Signal
      <4>2. i \in 1..Len(enc.held)
        BY <3>2, Chosen DEF WorkTypes
      <4>3. Context(enc') /\ enc.held[i] \in Frame
        BY <3>2, <4>1, <4>2, Gives DEF WorkTypes
      <4>4. out' \in Seq(Frame)
        BY <4>1, <4>3, AppendProperties DEF WorkTypes
      <4>. QED
        BY <3>1, <3>2, <4>3, <4>4 DEF WorkTypes, Context
    <3>3. CASE /\ UNCHANGED <<pc, frame, runs, enc, out>>
               /\ errors' = errors
                    \/ (errors < MaxErrors /\ errors' = errors + 1)
      <4>1. errors' \in 0..MaxErrors
        BY <3>3 DEF WorkTypes
      <4>. QED
        BY <3>1, <3>3, <4>1 DEF WorkTypes, Context
    <3>4. CASE NextRun /\ UNCHANGED <<enc, out, errors>>
      <4>1. /\ pc' \in {"receive", "encode"} /\ runs' \in 0..MaxSlots
            /\ frame' \in Frame \cup {0} /\ (pc' = "encode" => frame' \in Frame)
        BY <3>1, <3>4 DEF NextRun, WorkTypes
      <4>. QED
        BY <3>1, <3>4, <4>1 DEF WorkTypes, Context
    <3>. QED
      BY <2>11, <3>2, <3>3, <3>4, Zenon DEF Drain
  <2>. QED
    BY Steps, <2>2, <2>3, <2>4, <2>5, <2>6, <2>7, <2>8, <2>9, <2>10, <2>11,
       Zenon
<1>. QED
  BY <1>1, <1>2, PTL DEF Spec

\* Every reachable state is of the right type.
THEOREM TypeCorrect == Spec => []TypeOK
  BY GraphCorrect, WorkCorrect, TypeParts, PTL

-----------------------------------------------------------------------------
(* The frames stay in their order. *)

\* Up to a signal that runs two slots, no slot is left to run when one runs,
\* and the frames in the chain are in their order.
LineInv ==
  ~twice =>
    /\ calls = Nobody /\ runs = 0
    /\ InLine(out, enc.held, Working, dec.held, FramesUpTo[Entered])
    /\ ~reorders => Strict(out, enc.held)

\* Nothing changes who made the Stream, nor the codecs.
LEMMA SetupStays ==
  ASSUME [Next]_vars
  PROVE  UNCHANGED setup
  BY Steps, Zenon DEF vars, SubscribeDecoder, UnsubscribeDecoder,
     ConnectEncoder, EncoderContext, EncoderOpen, UnsubscribeEncoder, Play,
     Read, Send, Receive, Encode, Drain

\* The parts of the line are sequences of frames.
LEMMA Parts ==
  ASSUME WorkTypes
  PROVE  /\ out \in Seq(Frame) /\ enc.held \in Seq(Frame)
         /\ Working \in Seq(Frame) /\ dec.held \in Seq(Frame)
         /\ Entered \in 0..MaxPackets /\ FramesUpTo[Entered] \in Nat
<1>1. Working \in Seq(Frame)
  <2>1. CASE pc = "encode"
    BY <2>1, Single DEF Working, WorkTypes
  <2>2. CASE pc # "encode"
    BY <2>2, EmptySeq, Zenon DEF Working
  <2>. QED
    BY <2>1, <2>2
<1>2. Entered \in 0..MaxPackets
  BY Constants DEF Entered, WorkTypes
<1>. QED
  BY <1>1, <1>2, Constants DEF WorkTypes, Context

\* Returning to the signal, with no slot left, ends the packet.
LEMMA Returns ==
  ASSUME Return, calls = Nobody
  PROVE  pc' = "idle" /\ calls' = Nobody
  BY DEF Return, Call

\* What a Decoder does to the line: a packet enters, its frames are lost, or go
\* to the Encoder.
LEMMA DecoderOrder ==
  ASSUME WorkTypes, LineInv, Send \/ Receive, ~twice'
  PROVE  LineInv'
<1>. DEFINE n == FramesUpTo[Entered]
<1>0. ~twice
  BY Zenon DEF Send, Receive
<1>1. /\ calls = Nobody /\ runs = 0
      /\ InLine(out, enc.held, Working, dec.held, n)
      /\ ~reorders => Strict(out, enc.held)
  BY <1>0 DEF LineInv
<1>2. /\ out \in Seq(Frame) /\ enc.held \in Seq(Frame)
      /\ dec.held \in Seq(Frame) /\ n \in Nat
      /\ Working = <<>> /\ read \in 1..MaxPackets
      /\ UNCHANGED <<out, enc, read, reorders>>
  <2>1. Working = <<>> /\ read \in 1..MaxPackets
    BY DEF Send, Receive, At, Working, WorkTypes
  <2>2. UNCHANGED <<out, enc, read, reorders>>
    BY Zenon DEF Send, Receive, setup
  <2>. QED
    BY <2>1, <2>2, Parts
<1>. SUFFICES /\ calls' = Nobody /\ runs' = 0
              /\ InLine(out, enc.held, Working', dec'.held,
                        FramesUpTo[Entered'])
  <2>1. out' = out /\ enc'.held = enc.held /\ reorders' = reorders
    BY <1>2, Zenon
  <2>. QED
    BY <1>1, <2>1, Zenon DEF LineInv
<1>3. CASE Send
  <2>1. pc = "send" /\ Entered = read - 1 /\ runs' = 0
    BY <1>1, <1>3 DEF Send, At, Entered
  <2>2. CASE /\ dec' \in Accept(dec, FramesOf(read), DecoderDelay)
             /\ pc' = "receive" /\ UNCHANGED calls
    <3>1. dec'.held = dec.held \o FramesOf(read) /\ FramesOf(read) \in Seq(Frame)
      BY <1>2, <2>2, Accepts, FramesOfPacket, Constants DEF WorkTypes
    <3>2. Working' = <<>> /\ Entered' = read
      BY <1>2, <2>2, Zenon DEF Working, Entered
    <3>. DEFINE k == FramesUpTo[read]
    <3>3. FramesOf(read) = [i \in 1..k - n |-> n + i]
      BY <2>1, Zenon DEF FramesOf
    <3>4. k \in Nat /\ n <= k
      BY <1>2, <2>1, FramesOfPacket
    <3>5. InLine(out, enc.held, <<>>, dec.held, n)
      BY <1>1, <1>2, Zenon
    <3>. HIDE DEF n, k
    <3>6. InLine(out, enc.held, <<>>, dec.held \o FramesOf(read), k)
      BY <1>2, <3>1, <3>3, <3>4, <3>5, Empty, LineEnters
    <3>. QED
      BY <1>1, <2>1, <2>2, <3>1, <3>2, <3>6, Zenon DEF k
  <2>3. CASE Return /\ UNCHANGED dec
    <3>1. pc' = "idle" /\ calls' = Nobody
      BY <1>1, <2>3, Returns
    <3>2. Working' = <<>> /\ Entered' = read /\ dec'.held = dec.held
      BY <1>2, <2>3, <3>1 DEF Working, Entered
    <3>. DEFINE k == FramesUpTo[read]
    <3>3. k \in Nat /\ n <= k
      BY <1>2, <2>1, FramesOfPacket
    <3>4. InLine(out, enc.held, <<>>, dec.held, n)
      BY <1>1, <1>2, Zenon
    <3>. HIDE DEF n, k
    <3>5. InLine(out, enc.held, <<>>, dec.held, k)
      BY <1>2, <3>3, <3>4, Empty, LineMore
    <3>. QED
      BY <2>1, <3>1, <3>2, <3>5, Zenon DEF k
  <2>. QED
    BY <1>3, <2>2, <2>3, Zenon DEF Send
<1>4. CASE Receive
  <2>1. pc = "receive" /\ Entered = read
    BY <1>4, Zenon DEF Receive, At, Entered
  <2>2. InLine(out, enc.held, <<>>, dec.held, n)
    BY <1>1, <1>2, Zenon
  <2>3. CASE /\ dec.ready > 0 /\ dec' = Give(dec, 1) /\ UNCHANGED calls
             /\ frame' = dec.held[1] /\ pc' = "encode" /\ links > 0
             /\ runs' = links - 1 /\ (twice' <=> (twice \/ links > 1))
    <3>1. 1 \in 1..Len(dec.held) /\ dec'.held = Remove(dec.held, 1)
      BY <2>3, Ready, Gives DEF WorkTypes
    <3>2. runs' = 0
      BY <2>3 DEF WorkTypes
    <3>3. Working' = <<dec.held[1]>> /\ Entered' = Entered
      BY <1>2, <2>1, <2>3, Zenon DEF Working, Entered
    <3>. HIDE DEF n
    <3>4. InLine(out, enc.held, <<dec.held[1]>>, Remove(dec.held, 1), n)
      BY <1>2, <2>2, <3>1, LineMoves
    <3>. QED
      BY <1>1, <2>3, <3>1, <3>2, <3>3, <3>4, Zenon DEF n
  <2>4. CASE /\ UNCHANGED runs /\ (UNCHANGED <<pc, calls>> \/ Return)
             /\ \/ dec.ready > 0 /\ dec' = Give(dec, 1)
                \/ UNCHANGED dec
    <3>1. pc' \in {"idle", "receive"} /\ calls' = Nobody
      BY <1>1, <2>1, <2>4, Returns
    <3>2. Working' = <<>> /\ Entered' = Entered
      BY <1>2, <2>1, <3>1 DEF Working, Entered
    <3>. HIDE DEF n
    <3>3. InLine(out, enc.held, <<>>, dec'.held, n)
      <4>1. CASE dec.ready > 0 /\ dec' = Give(dec, 1)
        <5>1. 1 \in 1..Len(dec.held) /\ dec'.held = Remove(dec.held, 1)
          BY <4>1, Ready, Gives DEF WorkTypes
        <5>. QED
          BY <1>2, <2>2, <5>1, Empty, LineLoses
      <4>2. CASE UNCHANGED dec
        BY <2>2, <4>2, Zenon
      <4>. QED
        BY <2>4, <4>1, <4>2
    <3>. QED
      BY <1>1, <2>4, <3>1, <3>2, <3>3, Zenon DEF n
  <2>. QED
    BY <1>4, <2>3, <2>4, Zenon DEF Receive
<1>. QED
  BY <1>3, <1>4

\* What the Encoder does to it: its codec takes the frame, or gives a packet.
LEMMA EncoderOrder ==
  ASSUME WorkTypes, LineInv, Encode \/ Drain, ~twice'
  PROVE  LineInv'
<1>. DEFINE n == FramesUpTo[Entered]
<1>1. /\ ~twice /\ calls = Nobody /\ runs = 0
      /\ InLine(out, enc.held, Working, dec.held, n)
      /\ ~reorders => Strict(out, enc.held)
  <2>1. ~twice
    BY Zenon DEF Encode, Drain
  <2>. QED
    BY <2>1 DEF LineInv
<1>2. /\ out \in Seq(Frame) /\ enc.held \in Seq(Frame)
      /\ dec.held \in Seq(Frame) /\ n \in Nat
  BY Parts
<1>3. UNCHANGED <<calls, dec, read, reorders>>
  BY Zenon DEF Encode, Drain, emission, setup
<1>4. CASE Encode
  <2>1. /\ pc = "encode" /\ frame \in Frame /\ Working = <<frame>>
        /\ UNCHANGED <<runs, frame, out>>
    BY <1>4 DEF Encode, At, Working, WorkTypes, emission
  <2>2. CASE UNCHANGED <<enc, pc>>
    <3>1. Working' = Working /\ Entered' = Entered
      BY <1>3, <2>1, <2>2, Zenon DEF Working, Entered
    <3>. QED
      BY <1>1, <1>3, <2>1, <2>2, <3>1, Zenon DEF LineInv
  <2>3. CASE enc' \in Accept(enc, <<frame>>, EncoderDelay) /\ pc' = "drain"
    <3>1. enc'.held = enc.held \o <<frame>>
      BY <2>1, <2>3, Single, Accepts, Constants DEF WorkTypes
    <3>2. Working' = <<>> /\ Entered' = Entered /\ dec'.held = dec.held
      BY <1>3, <2>1, <2>3, Zenon DEF Working, Entered
    <3>. HIDE DEF n
    <3>3. InLine(out, enc.held, <<frame>>, dec.held, n)
      BY <1>1, <2>1, Zenon
    <3>4. /\ InLine(out, enc.held \o <<frame>>, <<>>, dec.held, n)
          /\ ~reorders => Strict(out, enc.held \o <<frame>>)
      BY <1>1, <1>2, <2>1, <3>3, LineEncodes
    <3>5. out' = out /\ calls' = Nobody /\ runs' = 0 /\ reorders' = reorders
      BY <1>1, <1>3, <2>1, Zenon
    <3>. QED
      BY <3>1, <3>2, <3>4, <3>5, Zenon DEF LineInv, n
  <2>. QED
    BY <1>4, <2>2, <2>3, Zenon DEF Encode
<1>5. CASE Drain
  <2>1. pc = "drain" /\ Working = <<>>
    BY <1>5, Zenon DEF Drain, At, Working
  <2>2. InLine(out, enc.held, <<>>, dec.held, n)
    BY <1>1, <2>1, Zenon
  <2>3. CASE UNCHANGED <<pc, runs>> /\ enc.ready > 0 /\ Signal
    <3>1. PICK i \in Choices :
            /\ out' = IF twice THEN out ELSE Append(out, enc.held[i])
            /\ enc' = Give(enc, i)
      BY <2>3 DEF Signal
    <3>2. i \in 1..Len(enc.held) /\ (~reorders => i = 1)
      BY <2>3, Chosen DEF WorkTypes
    <3>3. enc'.held = Remove(enc.held, i) /\ out' = Append(out, enc.held[i])
      BY <1>1, <2>3, <3>1, <3>2, Gives DEF WorkTypes
    <3>4. Working' = <<>> /\ Entered' = Entered /\ dec'.held = dec.held
      BY <1>3, <2>1, <2>3, Zenon DEF Working, Entered
    <3>. HIDE DEF n
    <3>5. /\ InLine(Append(out, enc.held[i]), Remove(enc.held, i), <<>>,
                    dec.held, n)
          /\ ~reorders => Strict(Append(out, enc.held[i]), Remove(enc.held, i))
      BY <1>1, <1>2, <2>2, <3>2, Empty, LineSignals
    <3>6. calls' = Nobody /\ runs' = 0 /\ reorders' = reorders
      BY <1>1, <1>3, <2>3, Zenon
    <3>. QED
      BY <3>3, <3>4, <3>5, <3>6, Zenon DEF LineInv, n
  <2>4. CASE UNCHANGED <<pc, frame, runs, enc, out>> \/ (NextRun /\ UNCHANGED <<enc, out>>)
    <3>1. pc' \in {"drain", "receive"} /\ runs' = 0 /\ UNCHANGED <<enc, out>>
      BY <1>1, <2>1, <2>4 DEF NextRun
    <3>2. Working' = <<>> /\ Entered' = Entered
      BY <1>3, <2>1, <3>1 DEF Working, Entered
    <3>. QED
      BY <1>1, <1>3, <2>1, <3>1, <3>2, Zenon DEF LineInv
  <2>. QED
    BY <1>5, <2>3, <2>4, Zenon DEF Drain
<1>. QED
  BY <1>4, <1>5

\* At the start it is empty.
LEMMA LineStart == Init => LineInv
<1>. SUFFICES ASSUME Init PROVE LineInv
  OBVIOUS
<1>1. /\ out = <<>> /\ enc.held = <<>> /\ dec.held = <<>> /\ Working = <<>>
      /\ calls = Nobody /\ runs = 0
  BY FreshContext, Zenon DEF Init, Working
<1>2. InLine(<<>>, <<>>, <<>>, <<>>, FramesUpTo[Entered]) /\ Strict(<<>>, <<>>)
  BY Empty, Zenon DEF InLine, Strict
<1>. QED
  BY <1>1, <1>2, Zenon DEF LineInv

\* The line is in order: frames enter it behind those before.
LEMMA LineOrder ==
  ASSUME WorkTypes, LineInv, [Next]_vars
  PROVE  LineInv'
<1>. SUFFICES ASSUME ~twice' PROVE LineInv'
  BY Zenon DEF LineInv
<1>. DEFINE n == FramesUpTo[Entered]
<1>1. ASSUME UNCHANGED <<twice, out, enc, dec, pc, frame, read, reorders>>,
             calls' = calls \/ calls' = Nobody, runs' = runs \/ runs' = 0
      PROVE  LineInv'
  <2>1. Working' = Working /\ Entered' = Entered
    BY <1>1, Zenon DEF Working, Entered
  <2>. QED
    BY <1>1, <2>1, Zenon DEF LineInv
<1>2. ASSUME NEW d \in Decoders, SubscribeDecoder(d) PROVE LineInv'
  BY <1>1, <1>2, Zenon DEF SubscribeDecoder, emission, work, setup
<1>3. ASSUME NEW d \in Decoders, UnsubscribeDecoder(d) PROVE LineInv'
  <2>1. /\ UNCHANGED <<twice, out, enc, dec, pc, frame, read, reorders, runs>>
        /\ calls' = [calls EXCEPT ![d] = 0]
    BY <1>3, Zenon DEF UnsubscribeDecoder, work, setup
  <2>2. calls = Nobody => calls' = Nobody
    BY <2>1 DEF Nobody
  <2>3. Working' = Working /\ Entered' = Entered
    BY <2>1, Zenon DEF Working, Entered
  <2>. QED
    BY <2>1, <2>2, <2>3, Zenon DEF LineInv
<1>4. CASE ConnectEncoder \/ EncoderOpen \/ Play \/ UNCHANGED vars
  <2>1. UNCHANGED <<setup, emission, work, enc>>
    BY <1>4, Zenon DEF ConnectEncoder, EncoderOpen, Play, vars
  <2>. QED
    BY <1>1, <2>1, Zenon DEF emission, work, setup
<1>5. CASE UnsubscribeEncoder
  BY <1>1, <1>5, Zenon DEF UnsubscribeEncoder, work, setup
<1>6. CASE EncoderContext
  <2>1. UNCHANGED <<setup, emission, work>> /\ (enc' = enc \/ enc' = Fresh)
    BY <1>6, Zenon DEF EncoderContext
  <2>2. CASE enc' = enc
    BY <1>1, <2>1, <2>2, Zenon DEF emission, work, setup
  <2>3. CASE enc' = Fresh
    <3>1. enc'.held = <<>>
      BY <2>3, FreshContext, Zenon
    <3>2. UNCHANGED <<twice, out, dec, pc, frame, read, reorders, calls, runs>>
      BY <2>1, Zenon DEF emission, work, setup
    <3>3. Working' = Working /\ Entered' = Entered
      BY <3>2, Zenon DEF Working, Entered
    <3>4. ~twice
      BY <3>2, Zenon
    <3>5. /\ InLine(out, <<>>, Working, dec.held, n)
          /\ ~reorders => Strict(out, <<>>)
      BY <3>4, Empty, Zenon DEF LineInv, InLine, Strict
    <3>. QED
      BY <3>1, <3>2, <3>3, <3>5, Zenon DEF LineInv
  <2>. QED
    BY <2>1, <2>2, <2>3
<1>7. CASE Read
  <2>1. /\ pc = "idle" /\ read' = read + 1 /\ read < MaxPackets /\ ~twice
        /\ Call(slots) /\ ~(slots[1] + slots[2] > 1)
        /\ UNCHANGED <<reorders, runs, out, enc, dec>>
    BY <1>7, Zenon DEF Read, At, setup
  <2>2. calls' = Nobody /\ pc' \in {"idle", "send"}
    <3>1. slots[1] + slots[2] <= 1
      BY <2>1 DEF WorkTypes, Decoders
    <3>. QED
      BY <2>1, <3>1, CallTypes, Constants DEF WorkTypes
  <2>3. Working = <<>> /\ Working' = <<>>
    BY <2>1, <2>2 DEF Working
  <2>4. Entered \in 0..MaxPackets /\ Entered' \in 0..MaxPackets /\ Entered <= Entered'
    BY <2>1, <2>2, Constants DEF Entered, WorkTypes
  <2>. DEFINE k == FramesUpTo[Entered']
  <2>5. n \in Nat /\ k \in Nat /\ n <= k
    BY <2>4, Constants
  <2>6. InLine(out, enc.held, <<>>, dec.held, n)
    BY <2>1, <2>3, Zenon DEF LineInv
  <2>. HIDE DEF n, k
  <2>7. InLine(out, enc.held, <<>>, dec.held, k)
    BY <2>5, <2>6, Parts, Empty, LineMore
  <2>. QED
    BY <2>1, <2>2, <2>3, <2>7, Zenon DEF LineInv, k
<1>8. CASE Send \/ Receive
  BY <1>8, DecoderOrder
<1>9. CASE Encode \/ Drain
  BY <1>9, EncoderOrder
<1>. QED
  BY Steps, <1>2, <1>3, <1>4, <1>5, <1>6, <1>7, <1>8, <1>9, Zenon

\* Two ordered sequences, the first below the second, are ordered one behind
\* the other; so are two without repetitions or common elements.
LEMMA JoinOrder ==
  ASSUME NEW s \in Seq(Frame), NEW t \in Seq(Frame)
  PROVE  /\ Increasing(s) /\ Increasing(t) /\ Below(s, t) => Increasing(s \o t)
         /\ Distinct(s) /\ Distinct(t) /\ Apart(s, t) => Distinct(s \o t)
         /\ \A r : /\ Below(r, s) /\ Below(r, t) => Below(r, s \o t)
                   /\ Below(s, r) /\ Below(t, r) => Below(s \o t, r)
<1>. DEFINE a == Len(s)
            u == s \o t
<1>1. a \in Nat /\ Len(t) \in Nat /\ Len(u) = a + Len(t)
  BY Join, LenProperties
<1>2. \A i \in 1..Len(u) :
        \/ i \in 1..a /\ u[i] = s[i]
        \/ i - a \in 1..Len(t) /\ i > a /\ u[i] = t[i - a]
  BY Join
<1>. HIDE DEF a, u
<1>3. ASSUME Increasing(s), Increasing(t), Below(s, t) PROVE Increasing(u)
  <2>. SUFFICES ASSUME NEW i \in 1..Len(u), NEW j \in 1..Len(u), i < j
                PROVE  u[i] < u[j]
    BY DEF Increasing
  <2>1. CASE i \in 1..a /\ u[i] = s[i] /\ j \in 1..a /\ u[j] = s[j]
    BY <1>3, <2>1 DEF Increasing, a
  <2>2. CASE i \in 1..a /\ u[i] = s[i] /\ j - a \in 1..Len(t) /\ u[j] = t[j - a]
    BY <1>3, <2>2, Zenon DEF Below, a
  <2>3. CASE /\ i - a \in 1..Len(t) /\ u[i] = t[i - a]
             /\ j - a \in 1..Len(t) /\ u[j] = t[j - a]
    <3>1. i - a < j - a
      BY <1>1
    <3>. QED
      BY <1>3, <2>3, <3>1, Zenon DEF Increasing
  <2>4. ~(i > a /\ j \in 1..a)
    BY <1>1
  <2>. QED
    BY <1>2, <2>1, <2>2, <2>3, <2>4
<1>4. ASSUME Distinct(s), Distinct(t), Apart(s, t) PROVE Distinct(u)
  <2>. SUFFICES ASSUME NEW i \in 1..Len(u), NEW j \in 1..Len(u), i < j
                PROVE  u[i] # u[j]
    <3>1. \A i, j \in 1..Len(u) : i # j => i < j \/ j < i
      BY <1>1
    <3>. QED
      BY <3>1, Zenon DEF Distinct
  <2>1. CASE i \in 1..a /\ u[i] = s[i] /\ j \in 1..a /\ u[j] = s[j]
    BY <1>4, <2>1 DEF Distinct, a
  <2>2. CASE i \in 1..a /\ u[i] = s[i] /\ j - a \in 1..Len(t) /\ u[j] = t[j - a]
    BY <1>4, <2>2, Zenon DEF Apart, a
  <2>3. CASE /\ i - a \in 1..Len(t) /\ u[i] = t[i - a]
             /\ j - a \in 1..Len(t) /\ u[j] = t[j - a]
    <3>1. i - a # j - a
      BY <1>1
    <3>. QED
      BY <1>4, <2>3, <3>1, Zenon DEF Distinct
  <2>4. ~(i > a /\ j \in 1..a)
    BY <1>1
  <2>. QED
    BY <1>2, <2>1, <2>2, <2>3, <2>4
<1>5. ASSUME NEW r, Below(r, s), Below(r, t) PROVE Below(r, u)
  BY <1>2, <1>5, Zenon DEF Below, a
<1>6. ASSUME NEW r, Below(s, r), Below(t, r) PROVE Below(u, r)
  BY <1>2, <1>6, Zenon DEF Below, a
<1>. QED
  BY <1>3, <1>4, <1>5, <1>6 DEF u

\* Frames in order are distinct.
LEMMA OrderedDistinct ==
  ASSUME NEW s \in Seq(Frame), Increasing(s)
  PROVE  Distinct(s)
<1>1. \A i, j \in 1..Len(s) : i # j => i < j \/ j < i
  BY LenProperties
<1>2. \A i, j \in 1..Len(s) : i < j => s[i] # s[j]
  BY Numbers DEF Increasing
<1>. QED
  BY <1>1, <1>2 DEF Distinct

\* While each signal has had one slot at a time to run, the frames stay in their
\* order, each once, and a codec that does not reorder gives them in it.
THEOREM OrderCorrect == Spec => []InOrder
<1>1. Init => LineInv
  BY LineStart
<1>2. WorkTypes /\ LineInv /\ [Next]_vars => LineInv'
  BY LineOrder
<1>3. WorkTypes /\ LineInv => InOrder
  <2>. SUFFICES ASSUME WorkTypes, LineInv, ~twice
                PROVE  /\ Increasing(enc.held \o Coming)
                       /\ Distinct(out \o enc.held) /\ Below(out, Coming)
                       /\ ~reorders => Increasing(out \o enc.held)
    BY Zenon DEF InOrder
  <2>. DEFINE n == FramesUpTo[Entered]
  <2>1. /\ InLine(out, enc.held, Working, dec.held, n)
        /\ ~reorders => Strict(out, enc.held)
    BY DEF LineInv
  <2>2. /\ out \in Seq(Frame) /\ enc.held \in Seq(Frame)
        /\ Working \in Seq(Frame) /\ dec.held \in Seq(Frame)
    BY Parts
  <2>. HIDE DEF n
  <2>3. /\ Coming \in Seq(Frame) /\ Increasing(Coming)
        /\ Below(enc.held, Coming) /\ Below(out, Coming)
    BY <2>1, <2>2, Join, JoinOrder DEF Coming, InLine
  <2>4. Increasing(enc.held \o Coming)
    BY <2>1, <2>2, <2>3, JoinOrder DEF InLine
  <2>5. Distinct(out \o enc.held)
    BY <2>1, <2>2, OrderedDistinct, JoinOrder DEF InLine
  <2>6. ~reorders => Increasing(out \o enc.held)
    BY <2>1, <2>2, JoinOrder DEF InLine, Strict
  <2>. QED
    BY <2>3, <2>4, <2>5, <2>6
<1>. QED
  BY <1>1, <1>2, <1>3, WorkCorrect, PTL DEF Spec

-----------------------------------------------------------------------------
(* A chain built before playing loses nothing. *)

\* Before playing nothing is in the codecs, and a reader's Stream is fine.
Before ==
  ~playing =>
    /\ read = 0 /\ pc = "idle" /\ dec = Fresh /\ enc = Fresh /\ out = <<>>
    /\ errors = 0 /\ turn = 1 /\ ~twice /\ (source = "reader" => crashed = "no")

\* A careful user plays when the Encoder's context is open, with the Decoder
\* that the Encoder needs.
Built ==
  playing /\ careful =>
    building = "no" /\ (links > 0 => encoder = "open" /\ slots[1] > 0)

\* The loops of process() empty the codecs, and the line is whole.
Emptied ==
  playing /\ Chained /\ errors = 0 =>
    /\ pc \in {"idle", "send"} => dec.ready = 0
    /\ pc # "drain" => enc.ready = 0
    /\ crashed = "no" /\ turn = 1 /\ ~twice
    /\ Whole(out, enc.held, Working, dec.held, FramesUpTo[Entered])

\* The user acts before playing, if careful.
LEMMA CarefulUser ==
  ASSUME Subscriptions, careful
  PROVE  ~playing /\ playing' = playing
  BY Zenon DEF Subscriptions, MayBuild, SubscribeDecoder, UnsubscribeDecoder,
     ConnectEncoder, EncoderContext, EncoderOpen, UnsubscribeEncoder

\* The forwarding thread leaves the graph alone.
LEMMA ThreadLeavesGraph ==
  ASSUME Forwarding \/ UNCHANGED vars
  PROVE  UNCHANGED graph
  BY Zenon DEF Forwarding, Read, Send, Receive, Encode, Drain, vars

\* The thread starts with Play.
LEMMA BeforeStep ==
  ASSUME Before, [Next]_vars
  PROVE  Before'
<1>. SUFFICES ASSUME ~playing'
              PROVE  /\ read' = 0 /\ pc' = "idle" /\ dec' = Fresh
                     /\ enc' = Fresh /\ out' = <<>> /\ errors' = 0
                     /\ turn' = 1 /\ ~twice'
                     /\ source' = "reader" => crashed' = "no"
  BY Zenon DEF Before
<1>1. source' = source
  BY SetupStays, Zenon DEF setup
<1>2. CASE ~playing /\ UNCHANGED <<work, enc, crashed>>
  BY <1>1, <1>2, Zenon DEF Before, work
<1>3. ASSUME NEW d \in Decoders, SubscribeDecoder(d) PROVE Before'
  <2>1. ~playing /\ UNCHANGED <<work, enc>>
    BY <1>3, Zenon DEF SubscribeDecoder
  <2>2. source = "reader" => crashed' = "no"
    BY <1>3 DEF SubscribeDecoder
  <2>. QED
    BY <1>1, <2>1, <2>2, Zenon DEF Before, work
<1>4. CASE EncoderContext
  <2>1. ~playing /\ UNCHANGED work
    BY <1>4, Zenon DEF EncoderContext
  <2>2. pc = "idle" /\ enc = Fresh
    BY <2>1, Zenon DEF Before
  <2>3. enc' = Fresh /\ crashed' = crashed
    BY <1>4, <2>2 DEF EncoderContext
  <2>. QED
    BY <1>1, <2>1, <2>2, <2>3, Zenon DEF Before, work
<1>5. ASSUME NEW d \in Decoders, UnsubscribeDecoder(d) PROVE Before'
  <2>1. ~playing /\ UNCHANGED <<work, enc, crashed>>
    BY <1>5, Zenon DEF UnsubscribeDecoder
  <2>. QED
    BY <1>1, <2>1, Zenon DEF Before, work
<1>6. CASE ConnectEncoder \/ EncoderOpen \/ UnsubscribeEncoder \/ UNCHANGED vars
  <2>1. playing' = playing /\ UNCHANGED <<work, enc, crashed>>
    <3>1. CASE ConnectEncoder
      BY <3>1, Zenon DEF ConnectEncoder
    <3>2. CASE EncoderOpen
      BY <3>2, Zenon DEF EncoderOpen
    <3>3. CASE UnsubscribeEncoder
      BY <3>3, Zenon DEF UnsubscribeEncoder
    <3>4. CASE UNCHANGED vars
      BY <3>4, Zenon DEF vars, graph
    <3>. QED
      BY <1>6, <3>1, <3>2, <3>3, <3>4, Zenon
  <2>. QED
    BY <1>2, <2>1, Zenon
<1>7. ~Play
  BY Zenon DEF Play
<1>8. CASE Forwarding
  <2>1. ~playing
    BY <1>8, ThreadLeavesGraph, Zenon DEF graph
  <2>2. pc = "idle"
    BY <2>1, Zenon DEF Before
  <2>. QED
    BY <1>8, <2>1, <2>2 DEF Forwarding, Read, Send, Receive, Encode, Drain, At
<1>. QED
  BY Steps, <1>3, <1>4, <1>5, <1>6, <1>7, <1>8, Zenon DEF Before, Forwarding

\* A careful user builds nothing after Play.
LEMMA BuiltStep ==
  ASSUME Built, [Next]_vars
  PROVE  Built'
<1>. USE DEF Built
<1>1. careful' = careful
  BY SetupStays, Zenon DEF setup
<1>2. CASE Subscriptions
  BY <1>1, <1>2, CarefulUser, Zenon
<1>3. CASE Play
  BY <1>1, <1>3, Zenon DEF Play, encoding
<1>4. CASE Forwarding \/ UNCHANGED vars
  <2>1. UNCHANGED graph
    BY <1>4, ThreadLeavesGraph
  <2>. QED
    BY <1>1, <2>1, Zenon DEF graph, encoding
<1>. QED
  BY <1>2, <1>3, <1>4, Zenon DEF Next

\* With nothing in the codecs no frame is missing.
LEMMA NoFrames ==
  ASSUME Before, ~playing
  PROVE  Whole(out, enc.held, Working, dec.held, FramesUpTo[Entered])
<1>1. /\ out = <<>> /\ enc.held = <<>> /\ Working = <<>> /\ dec.held = <<>>
      /\ Entered = 0
  BY FreshContext, Zenon DEF Before, Working, Entered
<1>2. Whole(<<>>, <<>>, <<>>, <<>>, 0)
  BY Empty DEF Whole
<1>3. FramesUpTo[Entered] = 0
  BY <1>1, Constants, Zenon
<1>. QED
  BY <1>1, <1>2, <1>3, Zenon

\* What a careful user's chain is when no codec reports an error.
Running == playing /\ Chained /\ errors = 0 /\ errors' = 0

\* In such a chain the Decoder loses nothing: its codec takes each packet, for
\* its loop has emptied it, and each frame goes to the Encoder ...
LEMMA DecoderKeeps ==
  ASSUME WorkTypes, LineInv, Emptied, Running, Send \/ Receive
  PROVE  /\ pc' \in {"idle", "send"} => dec'.ready = 0
         /\ pc' # "drain" => enc'.ready = 0
         /\ crashed' = "no" /\ turn' = 1 /\ ~twice'
         /\ Whole(out', enc'.held, Working', dec'.held, FramesUpTo[Entered'])
<1>. DEFINE n == FramesUpTo[Entered]
<1>1. /\ pc \in {"idle", "send"} => dec.ready = 0
      /\ pc # "drain" => enc.ready = 0
      /\ crashed = "no" /\ turn = 1 /\ ~twice
      /\ Whole(out, enc.held, Working, dec.held, n)
      /\ calls = Nobody /\ links = 1 /\ Opened
  BY Zenon DEF Emptied, Running, LineInv, Chained, Opened
<1>2. /\ out \in Seq(Frame) /\ enc.held \in Seq(Frame)
      /\ dec.held \in Seq(Frame) /\ n \in Nat
      /\ Working = <<>> /\ read \in 1..MaxPackets
      /\ UNCHANGED <<out, enc, read, crashed>>
      /\ Whole(out, enc.held, <<>>, dec.held, n)
      /\ pc # "drain"
  <2>1. Working = <<>> /\ read \in 1..MaxPackets /\ pc # "drain"
    BY DEF Send, Receive, At, Working, WorkTypes
  <2>2. UNCHANGED <<out, enc, read, crashed>>
    BY Zenon DEF Send, Receive
  <2>. QED
    BY <1>1, <2>1, <2>2, Parts, Zenon
<1>3. errors' # errors + 1
  BY DEF Running
<1>4. CASE Send
  <2>1. pc = "send" /\ Entered = read - 1 /\ dec.ready = 0
    BY <1>1, <1>4 DEF Send, At, Entered
  <2>2. /\ dec' \in Accept(dec, FramesOf(read), DecoderDelay)
        /\ pc' = "receive" /\ UNCHANGED <<turn, twice>>
    BY <1>1, <1>3, <1>4, <2>1 DEF Send
  <2>3. dec'.held = dec.held \o FramesOf(read) /\ FramesOf(read) \in Seq(Frame)
    BY <1>2, <2>2, Accepts, FramesOfPacket, Constants DEF WorkTypes
  <2>4. Working' = <<>> /\ Entered' = read
    BY <1>2, <2>2, Zenon DEF Working, Entered
  <2>. DEFINE k == FramesUpTo[read]
  <2>5. FramesOf(read) = [i \in 1..k - n |-> n + i]
    BY <2>1, Zenon DEF FramesOf
  <2>6. k \in Nat /\ n <= k
    BY <1>2, <2>1, FramesOfPacket
  <2>. HIDE DEF n, k
  <2>7. Whole(out, enc.held, <<>>, dec.held \o FramesOf(read), k)
    BY <1>2, <2>3, <2>5, <2>6, Empty, LineEnters
  <2>8. /\ out' = out /\ enc'.held = enc.held /\ enc'.ready = 0
        /\ crashed' = "no" /\ turn' = 1 /\ ~twice'
        /\ pc' \notin {"idle", "send"}
    BY <1>1, <1>2, <2>2
  <2>. QED
    BY <2>3, <2>4, <2>7, <2>8, Zenon DEF k
<1>5. CASE Receive
  <2>1. pc = "receive" /\ Entered = read
    BY <1>5, Zenon DEF Receive, At, Entered
  <2>2. CASE /\ dec.ready > 0 /\ dec' = Give(dec, 1)
             /\ frame' = dec.held[1] /\ pc' = "encode"
             /\ UNCHANGED turn /\ ~twice'
    <3>1. 1 \in 1..Len(dec.held) /\ dec'.held = Remove(dec.held, 1)
      BY <2>2, Ready, Gives DEF WorkTypes
    <3>2. Working' = <<dec.held[1]>> /\ Entered' = Entered
      BY <1>2, <2>1, <2>2, Zenon DEF Working, Entered
    <3>. HIDE DEF n
    <3>3. Whole(out, enc.held, <<dec.held[1]>>, Remove(dec.held, 1), n)
      BY <1>2, <3>1, LineMoves
    <3>4. /\ out' = out /\ enc'.held = enc.held /\ enc'.ready = 0
          /\ crashed' = "no" /\ turn' = 1 /\ pc' \notin {"idle", "send"}
      BY <1>1, <1>2, <2>2
    <3>. QED
      BY <2>2, <3>1, <3>2, <3>3, <3>4, Zenon DEF n
  <2>3. CASE dec.ready = 0 /\ Return /\ UNCHANGED <<dec, twice>>
    <3>1. pc' = "idle" /\ turn' = 1
      BY <1>1, <2>3 DEF Return, Call
    <3>2. Working' = <<>> /\ Entered' = Entered
      BY <1>2, <2>1, <3>1 DEF Working, Entered
    <3>3. /\ out' = out /\ enc'.held = enc.held /\ enc'.ready = 0
          /\ crashed' = "no" /\ ~twice'
          /\ dec'.held = dec.held /\ dec'.ready = 0
      BY <1>1, <1>2, <2>3
    <3>. QED
      BY <1>2, <3>1, <3>2, <3>3, Zenon
  <2>. QED
    <3>1. ~(links > 1) /\ links > 0
      BY <1>1
    <3>. QED
      BY <1>1, <1>3, <1>5, <2>2, <2>3, <3>1, Zenon DEF Receive
<1>. QED
  BY <1>4, <1>5

\* ... and neither does the Encoder, which is open and has emptied its own.
LEMMA EncoderKeeps ==
  ASSUME WorkTypes, LineInv, Emptied, Running, Encode \/ Drain,
         encoder = "open"
  PROVE  /\ pc' \in {"idle", "send"} => dec'.ready = 0
         /\ pc' # "drain" => enc'.ready = 0
         /\ crashed' = "no" /\ turn' = 1 /\ ~twice'
         /\ Whole(out', enc'.held, Working', dec'.held, FramesUpTo[Entered'])
<1>. DEFINE n == FramesUpTo[Entered]
<1>1. /\ pc # "drain" => enc.ready = 0
      /\ crashed = "no" /\ turn = 1 /\ ~twice
      /\ Whole(out, enc.held, Working, dec.held, n) /\ runs = 0
  BY Zenon DEF Emptied, Running, LineInv
<1>2. /\ out \in Seq(Frame) /\ enc.held \in Seq(Frame)
      /\ dec.held \in Seq(Frame) /\ n \in Nat
      /\ UNCHANGED <<dec, read, turn, twice>>
  BY Parts DEF Encode, Drain
<1>3. errors' # errors + 1
  BY DEF Running
<1>4. CASE Encode
  <2>1. pc = "encode" /\ frame \in Frame /\ Working = <<frame>> /\ out' = out
    BY <1>4 DEF Encode, At, Working, WorkTypes
  <2>2. /\ enc' \in Accept(enc, <<frame>>, EncoderDelay) /\ pc' = "drain"
        /\ crashed' = crashed
    BY <1>1, <1>3, <1>4, <2>1 DEF Encode
  <2>3. enc'.held = enc.held \o <<frame>>
    BY <2>1, <2>2, Single, Accepts, Constants DEF WorkTypes
  <2>4. Working' = <<>> /\ Entered' = Entered /\ dec'.held = dec.held
    BY <1>2, <2>1, <2>2, Zenon DEF Working, Entered
  <2>. HIDE DEF n
  <2>5. Whole(out, enc.held, <<frame>>, dec.held, n)
    BY <1>1, <2>1, Zenon
  <2>6. Whole(out, enc.held \o <<frame>>, <<>>, dec.held, n)
    BY <1>2, <2>1, <2>5, LineEncodes
  <2>7. crashed' = "no" /\ turn' = 1 /\ ~twice' /\ pc' = "drain"
    BY <1>1, <1>2, <2>2, Zenon
  <2>. QED
    BY <2>1, <2>3, <2>4, <2>6, <2>7, Zenon DEF n
<1>5. CASE Drain
  <2>1. pc = "drain" /\ Working = <<>>
    BY <1>5, Zenon DEF Drain, At, Working
  <2>2. Whole(out, enc.held, <<>>, dec.held, n)
    BY <1>1, <2>1, Zenon
  <2>3. CASE UNCHANGED <<pc, crashed>> /\ enc.ready > 0 /\ Signal
    <3>1. PICK i \in Choices :
            /\ out' = IF twice THEN out ELSE Append(out, enc.held[i])
            /\ enc' = Give(enc, i)
      BY <2>3 DEF Signal
    <3>2. i \in 1..Len(enc.held)
      BY <2>3, Chosen DEF WorkTypes
    <3>3. enc'.held = Remove(enc.held, i) /\ out' = Append(out, enc.held[i])
      BY <1>1, <2>3, <3>1, <3>2, Gives DEF WorkTypes
    <3>4. Working' = <<>> /\ Entered' = Entered /\ dec'.held = dec.held
      BY <1>2, <2>1, <2>3, Zenon DEF Working, Entered
    <3>. HIDE DEF n
    <3>5. Whole(Append(out, enc.held[i]), Remove(enc.held, i), <<>>,
                dec.held, n)
      BY <1>2, <2>2, <3>2, Empty, LineKeeps
    <3>6. crashed' = "no" /\ turn' = 1 /\ ~twice' /\ pc' = "drain"
      BY <1>1, <1>2, <2>1, <2>3, Zenon
    <3>. QED
      BY <3>3, <3>4, <3>5, <3>6, Zenon DEF n
  <2>4. CASE enc.ready = 0 /\ NextRun /\ UNCHANGED <<enc, out, crashed>>
    <3>1. pc' = "receive"
      BY <1>1, <2>4 DEF NextRun
    <3>2. Working' = <<>> /\ Entered' = Entered
      BY <1>2, <2>1, <3>1 DEF Working, Entered
    <3>3. /\ crashed' = "no" /\ turn' = 1 /\ ~twice' /\ enc'.ready = 0
          /\ out' = out /\ enc'.held = enc.held /\ dec'.held = dec.held
          /\ pc' \notin {"idle", "send"}
      BY <1>1, <1>2, <2>4, <3>1
    <3>. QED
      BY <2>2, <3>2, <3>3, Zenon
  <2>5. encoder # "unopened"
    OBVIOUS
  <2>. QED
    BY <1>3, <1>5, <2>3, <2>4, <2>5, Zenon DEF Drain
<1>. QED
  BY <1>4, <1>5

\* The line of a chain stays whole.
LEMMA EmptiedStep ==
  ASSUME WorkTypes, WorkTypes', LineInv, Before, Built, Emptied, [Next]_vars
  PROVE  Emptied'
<1>. SUFFICES ASSUME playing', Chained', errors' = 0
              PROVE  /\ pc' \in {"idle", "send"} => dec'.ready = 0
                     /\ pc' # "drain" => enc'.ready = 0
                     /\ crashed' = "no" /\ turn' = 1 /\ ~twice'
                     /\ Whole(out', enc'.held, Working', dec'.held,
                              FramesUpTo[Entered'])
  BY Zenon DEF Emptied
<1>1. /\ source = "reader" /\ careful
      /\ slots' = [Nobody EXCEPT ![1] = 1] /\ links' = 1
  BY SetupStays, Zenon DEF setup, Chained
<1>2. CASE Subscriptions
  BY <1>1, <1>2, CarefulUser, Zenon
<1>3. CASE Play
  <2>1. ~playing /\ UNCHANGED <<work, enc, crashed>>
    BY <1>3, Zenon DEF Play
  <2>2. /\ pc = "idle" /\ dec = Fresh /\ enc = Fresh /\ crashed = "no" /\ ~twice
        /\ Whole(out, enc.held, Working, dec.held, FramesUpTo[Entered])
    BY <1>1, <2>1, NoFrames, Zenon DEF Before
  <2>3. dec'.ready = 0 /\ enc'.ready = 0 /\ crashed' = "no" /\ ~twice'
    BY <2>1, <2>2, FreshContext, Zenon DEF work
  <2>4. Working' = Working /\ Entered' = Entered
    BY <2>1, Zenon DEF Working, Entered, work
  <2>5. turn' = 1
    BY <2>1, Zenon DEF Before, work
  <2>. QED
    BY <2>1, <2>2, <2>3, <2>4, <2>5, Zenon DEF work
<1>4. CASE Forwarding \/ UNCHANGED vars
  <2>1. UNCHANGED graph
    BY <1>4, ThreadLeavesGraph
  <2>2. playing /\ Chained
    BY <1>1, <2>1, Zenon DEF graph, Chained
  <2>3. errors = 0
    <3>1. errors' = errors \/ errors' = errors + 1
      BY <1>4, Zenon DEF Forwarding, Read, Send, Receive, Encode, Drain, vars,
         work
    <3>. QED
      BY <3>1 DEF WorkTypes
  <2>4. Running
    BY <2>2, <2>3 DEF Running
  <2>5. encoder = "open"
    BY <1>1, <2>2 DEF Built, Chained
  <2>6. /\ pc \in {"idle", "send"} => dec.ready = 0
        /\ pc # "drain" => enc.ready = 0
        /\ crashed = "no" /\ turn = 1 /\ ~twice
        /\ Whole(out, enc.held, Working, dec.held, FramesUpTo[Entered])
    BY <2>2, <2>3, Zenon DEF Emptied
  <2>7. CASE Read
    <3>1. /\ pc = "idle" /\ read' = read + 1 /\ Call(slots)
          /\ UNCHANGED <<dec, enc, out, crashed>>
          /\ twice' = (twice \/ slots[1] + slots[2] > 1)
      BY <2>7, Zenon DEF Read, At
    <3>2. slots = [d \in Decoders |-> IF d = 1 THEN 1 ELSE 0]
      BY <1>1, <2>1 DEF graph, Nobody
    <3>3. slots[1] = 1 /\ slots[2] = 0 /\ slots # Nobody
      BY <3>2 DEF Decoders, Nobody
    <3>4. pc' = "send" /\ turn' = 1 /\ ~twice'
      <4>1. PICK d \in Decoders : slots[d] > 0 /\ turn' = d /\ pc' = "send"
        BY <3>1, <3>3, Zenon DEF Call
      <4>2. d = 1 /\ ~(slots[1] + slots[2] > 1)
        BY <3>3, <4>1 DEF Decoders
      <4>. QED
        BY <2>6, <3>1, <4>1, <4>2, Zenon
    <3>5. Working' = Working /\ Entered' = Entered
      BY <3>1, <3>4 DEF Working, Entered, WorkTypes
    <3>. QED
      BY <2>6, <3>1, <3>4, <3>5, Zenon
  <2>8. CASE Send \/ Receive
    BY <2>4, <2>8, DecoderKeeps
  <2>9. CASE Encode \/ Drain
    BY <2>4, <2>5, <2>9, EncoderKeeps
  <2>10. CASE UNCHANGED vars
    <3>1. UNCHANGED <<work, enc, crashed>>
      BY <2>10, Zenon DEF vars
    <3>2. Working' = Working /\ Entered' = Entered
      BY <3>1, Zenon DEF Working, Entered, work
    <3>. QED
      BY <2>6, <3>1, <3>2, Zenon DEF work
  <2>. QED
    BY <1>4, <2>7, <2>8, <2>9, <2>10, Zenon DEF Forwarding
<1>. QED
  BY <1>2, <1>3, <1>4, Zenon DEF Next

\* What holds of a chain in every state.
ChainInv == Before /\ Built /\ Emptied

\* Before playing both codecs are empty, a careful user builds nothing after it,
\* and until an error the loops of process() leave nothing ready in the codecs of
\* a chain, whose frames are all there.
THEOREM ChainCorrect == Spec => [](ChainInv /\ LineInv)
<1>1. Init => ChainInv /\ LineInv
  BY LineStart, Zenon DEF Init, ChainInv, Before, Built, Emptied
<1>2. WorkTypes /\ WorkTypes' /\ ChainInv /\ LineInv /\ [Next]_vars
        => ChainInv' /\ LineInv'
  BY BeforeStep, BuiltStep, EmptiedStep, LineOrder, Zenon DEF ChainInv
<1>. QED
  BY <1>1, <1>2, WorkCorrect, PTL DEF Spec

\* Until a codec reports an error, a chain built before playing loses no frame
\* and survives.
THEOREM DroppedCorrect == Spec => []NothingDropped
<1>1. WorkTypes /\ ChainInv => NothingDropped
  <2>. SUFFICES ASSUME WorkTypes, ChainInv, playing, Chained, errors = 0
                PROVE  /\ crashed = "no"
                       /\ Len(Pipeline) = FramesUpTo[Entered]
                       /\ \A f \in 1..FramesUpTo[Entered] : Among(f, Pipeline)
    BY Zenon DEF NothingDropped, Among
  <2>. DEFINE n == FramesUpTo[Entered]
              head == out \o enc.held
  <2>1. crashed = "no" /\ Whole(out, enc.held, Working, dec.held, n)
    BY Zenon DEF ChainInv, Emptied
  <2>2. /\ out \in Seq(Frame) /\ enc.held \in Seq(Frame)
        /\ Working \in Seq(Frame) /\ dec.held \in Seq(Frame)
    BY Parts
  <2>3. ASSUME NEW s \in Seq(Frame), NEW t \in Seq(Frame), NEW f,
               Among(f, s) \/ Among(f, t)
        PROVE  Among(f, s \o t)
    <3>1. CASE Among(f, s)
      BY <3>1, Join, Zenon DEF Among
    <3>2. CASE Among(f, t)
      <4>1. PICK i \in 1..Len(t) : t[i] = f
        BY <3>2, Zenon DEF Among
      <4>2. /\ Len(s) + i \in 1..Len(s \o t)
            /\ (s \o t)[Len(s) + i] = t[i]
        BY Join, Zenon
      <4>. QED
        BY <4>1, <4>2, Zenon DEF Among
    <3>. QED
      BY <2>3, <3>1, <3>2, Zenon
  <2>4. /\ head \in Seq(Frame) /\ Len(head) = Len(out) + Len(enc.held)
        /\ Coming \in Seq(Frame) /\ Len(Coming) = Len(Working) + Len(dec.held)
    BY <2>2, Join DEF Coming
  <2>5. Pipeline = head \o Coming
    BY Zenon DEF Pipeline
  <2>. HIDE DEF n, head
  <2>6. Len(Pipeline)
          = (Len(out) + Len(enc.held)) + (Len(Working) + Len(dec.held))
    <3>1. Len(head \o Coming) = Len(head) + Len(Coming)
      BY <2>4, Join
    <3>. QED
      BY <2>4, <2>5, <3>1, Zenon
  <2>7. Len(Pipeline) = n
    <3>. DEFINE i == Len(out)
                j == Len(enc.held)
                k == Len(Working)
                l == Len(dec.held)
    <3>1. i \in Nat /\ j \in Nat /\ k \in Nat /\ l \in Nat
      BY <2>2, LenProperties
    <3>2. i + j + k + l = n /\ Len(Pipeline) = (i + j) + (k + l)
      BY <2>1, <2>6, Zenon DEF Whole
    <3>. HIDE DEF i, j, k, l
    <3>3. (i + j) + (k + l) = i + j + k + l
      BY <3>1
    <3>. QED
      BY <3>2, <3>3, Zenon
  <2>8. ASSUME NEW f \in 1..n PROVE Among(f, Pipeline)
    <3>1. \/ Among(f, out) \/ Among(f, enc.held)
          \/ Among(f, Working) \/ Among(f, dec.held)
      BY <2>1, Zenon DEF Whole
    <3>2. Among(f, head) \/ Among(f, Coming)
      BY <2>2, <2>3, <3>1, Zenon DEF head, Coming
    <3>. QED
      BY <2>3, <2>4, <2>5, <3>2, Zenon
  <2>. QED
    BY <2>1, <2>7, <2>8, Zenon DEF n
<1>. QED
  BY <1>1, ChainCorrect, WorkCorrect, PTL

-----------------------------------------------------------------------------
(* How much a chain holds back. *)

\* A codec has ready all but at most its delay.
Held ==
  /\ Len(dec.held) - dec.ready <= DecoderDelay
  /\ Len(enc.held) - enc.ready <= EncoderDelay

\* However the loops of process() end, a codec holds back its delay at most.
THEOREM HeldCorrect == Spec => []Held
<1>1. Init => Held
  BY FreshContext, Constants DEF Init, Held
<1>2. WorkTypes /\ Held /\ [Next]_vars => Held'
  <2>. SUFFICES ASSUME WorkTypes, Held, [Next]_vars PROVE Held'
    OBVIOUS
  <2>1. \/ dec' = dec
        \/ dec' \in Accept(dec, FramesOf(read), DecoderDelay) /\ pc = "send"
        \/ dec' = Give(dec, 1) /\ dec.ready > 0
    BY Steps, Zenon DEF vars, work, SubscribeDecoder, UnsubscribeDecoder,
       ConnectEncoder, EncoderContext, EncoderOpen, UnsubscribeEncoder, Play,
       Read, Send, Receive, Encode, Drain, At
  <2>2. \/ enc' = enc \/ enc' = Fresh
        \/ enc' \in Accept(enc, <<frame>>, EncoderDelay) /\ pc = "encode"
        \/ enc.ready > 0 /\ \E i \in Choices : enc' = Give(enc, i)
    BY Steps, Zenon DEF vars, work, SubscribeDecoder, UnsubscribeDecoder,
       ConnectEncoder, EncoderContext, EncoderOpen, UnsubscribeEncoder, Play,
       Read, Send, Receive, Encode, Drain, At, Signal
  <2>3. Len(dec'.held) - dec'.ready <= DecoderDelay
    <3>1. CASE dec' = dec
      BY <3>1 DEF Held
    <3>2. CASE dec' \in Accept(dec, FramesOf(read), DecoderDelay) /\ pc = "send"
      <4>1. read \in 1..MaxPackets
        BY <3>2, Constants DEF WorkTypes
      <4>. QED
        BY <3>2, <4>1, FramesOfPacket, Accepts, Constants DEF WorkTypes
    <3>3. CASE dec' = Give(dec, 1) /\ dec.ready > 0
      BY <3>3, Ready, Gives DEF Held, WorkTypes
    <3>. QED
      BY <2>1, <3>1, <3>2, <3>3
  <2>4. Len(enc'.held) - enc'.ready <= EncoderDelay
    <3>1. CASE enc' = enc
      BY <3>1 DEF Held
    <3>2. CASE enc' = Fresh
      BY <3>2, FreshContext, Constants
    <3>3. CASE enc' \in Accept(enc, <<frame>>, EncoderDelay) /\ pc = "encode"
      <4>1. <<frame>> \in Seq(Frame)
        BY <3>3, Single DEF WorkTypes
      <4>. QED
        BY <3>3, <4>1, Accepts, Constants DEF WorkTypes
    <3>4. CASE enc.ready > 0 /\ \E i \in Choices : enc' = Give(enc, i)
      BY <3>4, Chosen, Gives DEF Held, WorkTypes
    <3>. QED
      BY <2>2, <3>1, <3>2, <3>3, <3>4
  <2>. QED
    BY <2>3, <2>4 DEF Held
<1>. QED
  BY <1>1, <1>2, WorkCorrect, PTL DEF Spec

\* Between two packets, all the frames of the packets read so far are out but
\* the delays of the two codecs.
AllButTheDelays ==
  playing /\ Chained /\ errors = 0 /\ pc = "idle" =>
    Len(out) + DecoderDelay + EncoderDelay >= FramesUpTo[read]

\* A chain built before playing holds back the delays of its codecs at most,
\* for any number of packets: what Emerges promises of the last packet holds
\* after each of them.
THEOREM DelayCorrect == Spec => []AllButTheDelays
<1>1. WorkTypes /\ ChainInv /\ Held => AllButTheDelays
  <2>. SUFFICES ASSUME WorkTypes, ChainInv, Held, playing, Chained, errors = 0,
                       pc = "idle"
                PROVE  Len(out) + DecoderDelay + EncoderDelay
                         >= FramesUpTo[read]
    BY Zenon DEF AllButTheDelays
  <2>1. /\ dec.ready = 0 /\ enc.ready = 0
        /\ Whole(out, enc.held, <<>>, dec.held, FramesUpTo[read])
    BY Zenon DEF ChainInv, Emptied, Entered, Working
  <2>. DEFINE a == Len(out)
              b == Len(enc.held)
              c == Len(dec.held)
              n == FramesUpTo[read]
  <2>2. /\ a \in Nat /\ b \in Nat /\ c \in Nat /\ n \in Nat
        /\ DecoderDelay \in Nat /\ EncoderDelay \in Nat
    BY LenProperties, Constants DEF WorkTypes, Context
  <2>3. b <= EncoderDelay /\ c <= DecoderDelay
    BY <2>1, <2>2 DEF Held
  <2>4. a + b + 0 + c = n
    BY <2>1, Empty, Zenon DEF Whole
  <2>. HIDE DEF a, b, c, n
  <2>5. a + DecoderDelay + EncoderDelay >= n
    BY <2>2, <2>3, <2>4
  <2>. QED
    BY <2>5, Zenon DEF a, n
<1>. QED
  BY <1>1, WorkCorrect, ChainCorrect, HeldCorrect, PTL

-----------------------------------------------------------------------------
(* A Stream that no reader made. *)

\* No frame is decoded, nor is there one in the chain.
NothingDecoded ==
  ~Opened => pc \in {"idle", "send"} /\ ~decoded /\ Pipeline = <<>>

\* The Stream of unpacked segments never decodes a frame, whatever its user and
\* its codecs do and however many packets it forwards: where UnpackedDecodes
\* fails, it fails for every value of the constants.
THEOREM UnpackedCorrect == Spec => []NothingDecoded
<1>. DEFINE Nothing == /\ pc \in {"idle", "send"} /\ ~decoded
                       /\ out = <<>> /\ dec.held = <<>> /\ enc.held = <<>>
            Inv == ~Opened => Nothing
<1>1. Init => Inv
  BY FreshContext DEF Init
<1>2. Inv /\ [Next]_vars => Inv'
  <2>. SUFFICES ASSUME ~Opened, Nothing, [Next]_vars PROVE Nothing'
    BY SetupStays, Zenon DEF setup, Opened
  <2>1. CASE EncoderContext
    <3>1. enc' = Fresh \/ enc' = enc
      BY <2>1, Zenon DEF EncoderContext
    <3>2. UNCHANGED <<pc, decoded, out, dec>>
      BY <2>1, Zenon DEF EncoderContext, work
    <3>. QED
      BY <3>1, <3>2, FreshContext, Zenon
  <2>2. CASE \/ \E d \in Decoders : SubscribeDecoder(d) \/ UnsubscribeDecoder(d)
             \/ ConnectEncoder \/ EncoderOpen \/ UnsubscribeEncoder \/ Play
             \/ UNCHANGED vars
    <3>1. UNCHANGED <<work, enc>>
      BY <2>2, Zenon DEF SubscribeDecoder, UnsubscribeDecoder, ConnectEncoder,
         EncoderOpen, UnsubscribeEncoder, Play, vars
    <3>. QED
      BY <3>1, Zenon DEF work
  <2>3. CASE Read \/ Send
    <3>1. /\ Call(slots) \/ Call(calls)
          /\ UNCHANGED <<decoded, out, dec, enc>>
      BY <2>3, Zenon DEF Read, Send, Return
    <3>2. pc' \in {"idle", "send"}
      BY <3>1 DEF Call
    <3>. QED
      BY <3>1, <3>2, Zenon
  <2>4. ~(Receive \/ Encode \/ Drain)
    BY DEF Receive, Encode, Drain, At
  <2>. QED
    BY Steps, <2>1, <2>2, <2>3, <2>4, Zenon
<1>3. Inv => NothingDecoded
  <2>. SUFFICES ASSUME ~Opened, Nothing PROVE Pipeline = <<>>
    BY Zenon DEF NothingDecoded
  <2>1. Working = <<>>
    BY DEF Working
  <2>2. <<>> \o <<>> = <<>>
    BY EmptySeq, ConcatEmptySeq
  <2>. QED
    BY <2>1, <2>2, Zenon DEF Pipeline, Coming
<1>. QED
  BY <1>1, <1>2, <1>3, PTL DEF Spec

=============================================================================
