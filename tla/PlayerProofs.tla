---------------------------- MODULE PlayerProofs ----------------------------
(***************************************************************************)
(* The linked lists of Player are what they should be, and implement the   *)
(* queue of Playback, for every number of buffers, packets and keys.       *)
(*                                                                         *)
(* A list is a walk along the pointers, so that Player defines it by       *)
(* recursion. Here it is a sequence that is given beforehand (Chain), and  *)
(* a walk is shown to find it, by the first step at which it would not.    *)
(* What a thread does to the pointers is then said of a Layout, which has  *)
(* all buffers in one sequence: those taken, queued and free.              *)
(***************************************************************************)
EXTENDS Player, TLAPS, WellFoundedInduction, FiniteSetTheorems, SequenceTheorems

Size == Cardinality(Buffers)

LEMMA SizeType == Size \in Nat \ {0} /\ Buffers = 1 .. Size
<1>1. Size \in Nat
  BY PlayerAssumption, FS_CardinalityType DEF Size
<1> QED
  BY <1>1, PlayerAssumption DEF Size

-----------------------------------------------------------------------------
(* Walking a list *)

\* The list after one more buffer, and all the walks from one that begins at b.
Further(next, b, s) ==
    LET c == IF s = <<>> THEN b ELSE next[s[Len(s)]]
    IN  IF c = NoBuffer THEN s ELSE Append(s, c)
IsWalk(next, b, f) ==
    f = [n \in 0 .. Size + 1 |-> IF n = 0 THEN <<>> ELSE Further(next, b, f[n - 1])]
WalkFrom(next, b) == (CHOOSE f : IsWalk(next, b, f))[Size + 1]

LEMMA ListIsWalk ==
    ASSUME NEW b
    PROVE  ListFrom(b) = WalkFrom(nxt, b)
BY DEF ListFrom, WalkFrom, IsWalk, Further, Size

\* The sequence s of buffers is what next links from b on.
Chain(next, b, s) ==
    /\ s \in Seq(Buffers)
    /\ b = IF s = <<>> THEN NoBuffer ELSE s[1]
    /\ \A k \in 1 .. Len(s) - 1 : next[s[k]] = s[k + 1]
    /\ s # <<>> => next[s[Len(s)]] = NoBuffer

\* One more buffer of the chain.
LEMMA FurtherOnChain ==
    ASSUME NEW next, NEW b, NEW s, Chain(next, b, s), Len(s) <= Size, NEW n \in 1 .. Size + 1
    PROVE  LET Cut(m) == SubSeq(s, 1, IF m <= Len(s) THEN m ELSE Len(s))
           IN  Further(next, b, Cut(n - 1)) = Cut(n)
<1> DEFINE Cut(m) == SubSeq(s, 1, IF m <= Len(s) THEN m ELSE Len(s))
<1>1. s \in Seq(Buffers) /\ Len(s) \in Nat /\ n \in Nat /\ NoBuffer \notin Buffers
  BY SizeType DEF Chain, NoBuffer
<1>2. CASE n - 1 >= Len(s)
  <2>1. Cut(n - 1) = s /\ Cut(n) = s
    BY <1>1, <1>2
  <2>2. (IF s = <<>> THEN b ELSE next[s[Len(s)]]) = NoBuffer
    BY DEF Chain
  <2> QED
    BY <2>1, <2>2 DEF Further
<1>3. CASE n - 1 < Len(s)
  <2> DEFINE pre == SubSeq(s, 1, n - 1)
  <2>1. Cut(n - 1) = pre /\ Cut(n) = SubSeq(s, 1, n)
    BY <1>1, <1>3
  <2>2. pre \in Seq(Buffers) /\ Len(pre) = n - 1 /\ \A k \in 1 .. n - 1 : pre[k] = s[k]
    BY <1>1, <1>3
  <2>3. s[n] \in Buffers
    BY <1>1, <1>3
  <2>4. (IF pre = <<>> THEN b ELSE next[pre[Len(pre)]]) = s[n]
    <3>1. CASE n = 1
      <4>1. pre = <<>> /\ s # <<>>
        BY <3>1, <1>1, <1>3
      <4> QED
        BY <4>1, <3>1, Zenon DEF Chain
    <3>2. CASE n > 1
      <4>1. pre # <<>> /\ pre[Len(pre)] = s[n - 1]
        <5>1. n - 1 \in 1 .. n - 1 /\ Len(pre) = n - 1 /\ Len(pre) # 0
          BY <3>2, <2>2, <1>1
        <5> HIDE DEF pre
        <5> QED
          BY <5>1, <2>2
      <4>2. next[s[n - 1]] = s[n]
        BY <3>2, <1>1, <1>3 DEF Chain
      <4> QED
        BY <4>1, <4>2
    <3> QED
      BY <1>1, <3>1, <3>2
  <2>5. Append(pre, s[n]) = SubSeq(s, 1, n)
    BY <1>1, <1>3, <2>2, <2>3
  <2>6. s[n] # NoBuffer
    BY <2>3, <1>1
  <2> QED
    BY <2>1, <2>4, <2>5, <2>6, SMTT(30) DEF Further
<1> QED
  BY <1>1, <1>2, <1>3

\* A set of numbers with 0 and the successor of each of its members below n has
\* everything up to n.
LEMMA Steps ==
    ASSUME NEW m \in Nat, NEW S \in SUBSET (0 .. m), 0 \in S,
           \A n \in 1 .. m : n - 1 \in S => n \in S
    PROVE  S = 0 .. m
<1> DEFINE Out == {n \in 0 .. m : n \notin S}
<1>1. SUFFICES ASSUME Out # {} PROVE FALSE
  OBVIOUS
<1>2. Out \subseteq Nat
  OBVIOUS
<1>3. PICK x \in Out : \A y \in Out : ~(<<y, x>> \in OpToRel(<, Nat))
  BY <1>1, <1>2, NatLessThanWellFounded, WFMin
<1>4. x \in 0 .. m /\ x \notin S /\ x # 0
  OBVIOUS
<1>5. x - 1 \in 0 .. m /\ x - 1 < x
  BY <1>4
<1>6. x - 1 \notin S
  BY <1>4, <1>5
<1>7. x - 1 \in Out
  BY <1>5, <1>6
<1> QED
  BY <1>3, <1>5, <1>7, <1>2 DEF OpToRel

\* The walk along a chain finds that chain.
LEMMA WalkOfChain ==
    ASSUME NEW next, NEW b, NEW s, Chain(next, b, s), Len(s) <= Size
    PROVE  WalkFrom(next, b) = s
<1> DEFINE Cut(m) == SubSeq(s, 1, IF m <= Len(s) THEN m ELSE Len(s))
           cuts == [n \in 0 .. Size + 1 |-> Cut(n)]
           f == CHOOSE g : IsWalk(next, b, g)
<1>1. /\ s \in Seq(Buffers) /\ Len(s) \in Nat /\ Size \in Nat /\ Len(s) <= Size
      /\ Cut(0) = <<>> /\ Cut(Size + 1) = s
  BY SizeType DEF Chain
<1>2. \A n \in 1 .. Size + 1 : Further(next, b, Cut(n - 1)) = Cut(n)
  BY FurtherOnChain
<1> HIDE DEF Cut
<1>3. IsWalk(next, b, cuts)
  <2>1. \A n \in 0 .. Size + 1 :
          cuts[n] = IF n = 0 THEN <<>> ELSE Further(next, b, cuts[n - 1])
    <3> TAKE n \in 0 .. Size + 1
    <3>1. CASE n = 0
      BY <3>1, <1>1
    <3>2. CASE n # 0
      <4>1. n \in 1 .. Size + 1 /\ n - 1 \in 0 .. Size + 1
        BY <3>2, <1>1
      <4>2. cuts[n] = Cut(n) /\ cuts[n - 1] = Cut(n - 1)
        BY <4>1
      <4> QED
        BY <4>1, <4>2, <1>2, <3>2, Zenon
    <3> QED
      BY <3>1, <3>2
  <2> QED
    BY <2>1 DEF IsWalk
<1>4. IsWalk(next, b, f)
  BY <1>3
<1> HIDE DEF f, cuts
<1> DEFINE Same == {n \in 0 .. Size + 1 : f[n] = Cut(n)}
<1>5. \A n \in 0 .. Size + 1 : f[n] = IF n = 0 THEN <<>> ELSE Further(next, b, f[n - 1])
  BY <1>4 DEF IsWalk
<1>6. 0 \in Same
  BY <1>1, <1>5
<1>7. \A n \in 1 .. Size + 1 : n - 1 \in Same => n \in Same
  <2> TAKE n \in 1 .. Size + 1
  <2> HAVE n - 1 \in Same
  <2>1. n \in 0 .. Size + 1 /\ n # 0
    BY <1>1
  <2>2. f[n] = Further(next, b, Cut(n - 1))
    BY <1>5, <2>1, Zenon
  <2> QED
    BY <2>1, <2>2, <1>2
<1>8. Same = 0 .. Size + 1
  <2>1. Same \subseteq 0 .. Size + 1 /\ Size + 1 \in Nat
    BY <1>1
  <2> HIDE DEF Same
  <2> QED
    BY <2>1, <1>6, <1>7, Steps
<1>9. Size + 1 \in 0 .. Size + 1
  BY <1>1
<1>10. f[Size + 1] = Cut(Size + 1)
  BY <1>8, <1>9
<1>11. WalkFrom(next, b) = f[Size + 1]
  BY Zenon DEF WalkFrom, f
<1> QED
  BY <1>10, <1>11, <1>1, Zenon

-----------------------------------------------------------------------------
(* What the player does to a list *)

\* Taking the first buffer.
LEMMA ChainOff ==
    ASSUME NEW next, NEW b, NEW s, Chain(next, b, s), b # NoBuffer
    PROVE  /\ s # <<>> /\ Len(s) \in Nat \ {0} /\ b \in Buffers /\ b = s[1]
           /\ Tail(s) \in Seq(Buffers) /\ Len(Tail(s)) = Len(s) - 1
           /\ \A k \in 1 .. Len(s) - 1 : Tail(s)[k] = s[k + 1]
           /\ Chain(next, next[b], Tail(s))
<1>1. s # <<>> /\ b = s[1] /\ s \in Seq(Buffers) /\ Len(s) \in Nat \ {0}
  BY DEF Chain
<1>2. b \in Buffers
  BY <1>1
<1>3. /\ Tail(s) \in Seq(Buffers) /\ Len(Tail(s)) = Len(s) - 1
      /\ \A k \in 1 .. Len(s) - 1 : Tail(s)[k] = s[k + 1]
  BY <1>1, HeadTailProperties
<1>4. \A k \in 1 .. Len(s) - 1 : next[s[k]] = s[k + 1]
  BY DEF Chain
<1>5. next[s[Len(s)]] = NoBuffer
  BY <1>1 DEF Chain
<1> DEFINE t == Tail(s)
<1>6. t \in Seq(Buffers) /\ Len(t) = Len(s) - 1 /\ \A k \in 1 .. Len(s) - 1 : t[k] = s[k + 1]
  BY <1>3
<1> HIDE DEF t
<1>7. next[b] = IF t = <<>> THEN NoBuffer ELSE t[1]
  BY <1>1, <1>4, <1>5, <1>6
<1>8. \A k \in 1 .. Len(t) - 1 : next[t[k]] = t[k + 1]
  BY <1>1, <1>4, <1>6
<1>9. t # <<>> => next[t[Len(t)]] = NoBuffer
  BY <1>1, <1>5, <1>6
<1>10. Chain(next, next[b], t)
  BY <1>6, <1>7, <1>8, <1>9 DEF Chain
<1> QED
  BY <1>1, <1>2, <1>3, <1>10 DEF t

\* A list is not disturbed by what happens to a buffer that is not on it.
LEMMA ChainKept ==
    ASSUME NEW next \in [Buffers -> Buffers \cup {NoBuffer}], NEW b, NEW s, Chain(next, b, s),
           NEW x, \A k \in 1 .. Len(s) : s[k] # x, NEW y
    PROVE  Chain([next EXCEPT ![x] = y], b, s)
<1> DEFINE m == [next EXCEPT ![x] = y]
<1>1. s \in Seq(Buffers) /\ Len(s) \in Nat
  BY DEF Chain
<1>2. \A k \in 1 .. Len(s) : m[s[k]] = next[s[k]]
  <2> TAKE k \in 1 .. Len(s)
  <2>1. s[k] \in Buffers /\ s[k] # x
    BY <1>1
  <2> QED
    BY <2>1
<1> HIDE DEF m
<1>3. \A k \in 1 .. Len(s) - 1 : m[s[k]] = s[k + 1]
  BY <1>1, <1>2 DEF Chain
<1>4. s # <<>> => m[s[Len(s)]] = NoBuffer
  <2> HAVE s # <<>>
  <2>1. Len(s) \in 1 .. Len(s)
    BY <1>1
  <2> QED
    BY <2>1, <1>2 DEF Chain
<1>5. Chain(m, b, s)
  BY <1>3, <1>4 DEF Chain
<1> QED
  BY <1>5 DEF m

\* The last buffer of a list is linked to another list.
LEMMA ChainJoined ==
    ASSUME NEW next \in [Buffers -> Buffers \cup {NoBuffer}],
           NEW b, NEW s, Chain(next, b, s), s # <<>>,
           NEW c, NEW r, Chain(next, c, r),
           \A i, j \in 1 .. Len(s) : s[i] = s[j] => i = j,
           \A i \in 1 .. Len(s), j \in 1 .. Len(r) : s[i] # r[j]
    PROVE  Chain([next EXCEPT ![s[Len(s)]] = c], b, s \o r)
<1> DEFINE m == [next EXCEPT ![s[Len(s)]] = c]
           w == s \o r
<1>1. s \in Seq(Buffers) /\ Len(s) \in Nat \ {0} /\ r \in Seq(Buffers) /\ Len(r) \in Nat
  BY DEF Chain
<1>2. /\ w \in Seq(Buffers) /\ Len(w) = Len(s) + Len(r)
      /\ \A i \in 1 .. Len(s) : w[i] = s[i]
      /\ \A i \in 1 .. Len(r) : w[Len(s) + i] = r[i]
  BY <1>1
<1>3. s[Len(s)] \in Buffers
  BY <1>1
<1>4. m[s[Len(s)]] = c
  BY <1>3
<1>5. \A i \in 1 .. Len(s) - 1 : m[s[i]] = s[i + 1]
  <2> TAKE i \in 1 .. Len(s) - 1
  <2>1. i \in 1 .. Len(s) /\ i # Len(s) /\ Len(s) \in 1 .. Len(s)
    BY <1>1
  <2>2. s[i] # s[Len(s)] /\ s[i] \in Buffers
    BY <2>1, <1>1
  <2>3. m[s[i]] = next[s[i]]
    BY <2>2
  <2> QED
    BY <2>3 DEF Chain
<1>6. Chain(m, c, r)
  <2>1. \A k \in 1 .. Len(r) : r[k] # s[Len(s)]
    BY <1>1
  <2> QED
    BY <2>1, ChainKept
<1> HIDE DEF m, w
<1>7. b = IF w = <<>> THEN NoBuffer ELSE w[1]
  <2>1. w # <<>> /\ w[1] = s[1]
    BY <1>1, <1>2
  <2> QED
    BY <2>1 DEF Chain
<1>8. \A k \in 1 .. Len(w) - 1 : m[w[k]] = w[k + 1]
  <2> TAKE k \in 1 .. Len(w) - 1
  <2>1. CASE k < Len(s)
    BY <2>1, <1>1, <1>2, <1>5
  <2>2. CASE k = Len(s)
    <3>1. w[k] = s[Len(s)] /\ w[k + 1] = r[1] /\ r # <<>>
      BY <2>2, <1>1, <1>2
    <3>2. c = r[1]
      BY <3>1 DEF Chain
    <3> QED
      BY <3>1, <3>2, <1>4
  <2>3. CASE k > Len(s)
    <3>1. k - Len(s) \in 1 .. Len(r) - 1
      BY <2>3, <1>1, <1>2
    <3>2. w[k] = r[k - Len(s)] /\ w[k + 1] = r[k - Len(s) + 1]
      <4>1. /\ k - Len(s) \in 1 .. Len(r) /\ k - Len(s) + 1 \in 1 .. Len(r)
            /\ Len(s) + (k - Len(s)) = k /\ Len(s) + (k - Len(s) + 1) = k + 1
        BY <3>1, <1>1
      <4> QED
        BY <4>1, <1>2
    <3>3. m[r[k - Len(s)]] = r[k - Len(s) + 1]
      BY <3>1, <1>6 DEF Chain
    <3> QED
      BY <3>2, <3>3
  <2> QED
    BY <2>1, <2>2, <2>3, <1>1, <1>2
<1>9. w # <<>> => m[w[Len(w)]] = NoBuffer
  <2>1. CASE r = <<>>
    <3>1. Len(r) = 0 /\ w[Len(w)] = s[Len(s)] /\ c = NoBuffer
      BY <2>1, <1>1, <1>2 DEF Chain
    <3> QED
      BY <3>1, <1>4
  <2>2. CASE r # <<>>
    <3>1. Len(r) \in 1 .. Len(r)
      BY <2>2, <1>1
    <3>2. w[Len(w)] = r[Len(r)]
      BY <3>1, <1>2
    <3>3. m[r[Len(r)]] = NoBuffer
      BY <2>2, <1>6 DEF Chain
    <3> QED
      BY <3>2, <3>3
  <2> QED
    BY <2>1, <2>2
<1>10. Chain(m, b, w)
  BY <1>2, <1>7, <1>8, <1>9 DEF Chain
<1> QED
  BY <1>10 DEF m, w

\* A list of one buffer, and the empty one.
LEMMA ChainOfOne ==
    ASSUME NEW next \in [Buffers -> Buffers \cup {NoBuffer}], NEW x \in Buffers
    PROVE  Chain([next EXCEPT ![x] = NoBuffer], x, <<x>>)
BY DEF Chain

LEMMA ChainOfNone ==
    ASSUME NEW next
    PROVE  Chain(next, NoBuffer, <<>>)
BY DEF Chain

\* A buffer that is not on a list goes in front of it.
LEMMA ChainOn ==
    ASSUME NEW next \in [Buffers -> Buffers \cup {NoBuffer}], NEW b, NEW s, Chain(next, b, s),
           NEW x \in Buffers, \A k \in 1 .. Len(s) : s[k] # x
    PROVE  Chain([next EXCEPT ![x] = b], x, <<x>> \o s)
<1> DEFINE m == [next EXCEPT ![x] = NoBuffer]
<1>1. m \in [Buffers -> Buffers \cup {NoBuffer}]
  OBVIOUS
<1>2. Chain(m, x, <<x>>) /\ Chain(m, b, s)
  BY ChainOfOne, ChainKept
<1>3. Len(<<x>>) = 1 /\ <<x>>[1] = x /\ <<x>> # <<>>
  OBVIOUS
<1>4. /\ \A i, j \in 1 .. 1 : <<x>>[i] = <<x>>[j] => i = j
      /\ \A i \in 1 .. 1, j \in 1 .. Len(s) : <<x>>[i] # s[j]
  BY <1>3
<1>5. Chain([m EXCEPT ![x] = b], x, <<x>> \o s)
  <2> HIDE DEF m
  <2> DEFINE o == <<x>>
  <2>1. Chain(m, x, o) /\ o # <<>> /\ Len(o) = 1 /\ o[1] = x
    BY <1>2, <1>3
  <2>2. /\ \A i, j \in 1 .. Len(o) : o[i] = o[j] => i = j
        /\ \A i \in 1 .. Len(o), j \in 1 .. Len(s) : o[i] # s[j]
    BY <1>4, <2>1
  <2> HIDE DEF o
  <2>3. Chain([m EXCEPT ![o[Len(o)]] = b], x, o \o s)
    BY <1>1, <1>2, <2>1, <2>2, ChainJoined
  <2> QED
    BY <2>1, <2>3 DEF o
<1>6. [m EXCEPT ![x] = b] = [next EXCEPT ![x] = b]
  OBVIOUS
<1> QED
  BY <1>5, <1>6

-----------------------------------------------------------------------------
(* The layout of the buffers *)

\* Every buffer occurs exactly once in w.
EachOnce(w) ==
    /\ w \in Seq(Buffers) /\ Len(w) = Size
    /\ \A i, j \in 1 .. Len(w) : w[i] = w[j] => i = j
    /\ \A b \in Buffers : \E i \in 1 .. Len(w) : w[i] = b

Taken(p) == IF p = NoBuffer THEN <<>> ELSE <<p>>

\* The buffers of q are queued from h to t, p is being played, and those of l
\* are free; that is each of them, once.
Layout(next, h, t, f, p, q, l) ==
    /\ next \in [Buffers -> Buffers \cup {NoBuffer}] /\ p \in Buffers \cup {NoBuffer}
    /\ Chain(next, h, q) /\ Chain(next, f, l)
    /\ t = IF q = <<>> THEN NoBuffer ELSE q[Len(q)]
    /\ EachOnce(Taken(p) \o q \o l)

LEMMA ThreeParts ==
    ASSUME NEW a \in Seq(Buffers), NEW b \in Seq(Buffers), NEW c \in Seq(Buffers)
    PROVE  /\ (a \o b) \o c \in Seq(Buffers) /\ Len((a \o b) \o c) = Len(a) + Len(b) + Len(c)
           /\ \A i \in 1 .. Len(a) : ((a \o b) \o c)[i] = a[i]
           /\ \A i \in 1 .. Len(b) : ((a \o b) \o c)[Len(a) + i] = b[i]
           /\ \A i \in 1 .. Len(c) : ((a \o b) \o c)[Len(a) + Len(b) + i] = c[i]
OBVIOUS

\* No buffer is in two places.
LEMMA LayoutApart ==
    ASSUME NEW next, NEW h, NEW t, NEW f, NEW p, NEW q, NEW l, Layout(next, h, t, f, p, q, l)
    PROVE  /\ q \in Seq(Buffers) /\ l \in Seq(Buffers) /\ Taken(p) \in Seq(Buffers)
           /\ Len(q) \in Nat /\ Len(l) \in Nat
           /\ Len(q) + Len(l) + Len(Taken(p)) = Size
           /\ \A i, j \in 1 .. Len(q) : q[i] = q[j] => i = j
           /\ \A i, j \in 1 .. Len(l) : l[i] = l[j] => i = j
           /\ \A i \in 1 .. Len(q), j \in 1 .. Len(l) : q[i] # l[j]
           /\ \A i \in 1 .. Len(q) : q[i] # p
           /\ \A i \in 1 .. Len(l) : l[i] # p
           /\ \A b \in Buffers : \/ b = p
                                 \/ \E i \in 1 .. Len(q) : q[i] = b
                                 \/ \E i \in 1 .. Len(l) : l[i] = b
<1> DEFINE o == Taken(p)
           w == o \o q \o l
           n == Len(o)
<1>1. /\ q \in Seq(Buffers) /\ l \in Seq(Buffers) /\ Len(q) \in Nat /\ Len(l) \in Nat
      /\ p \in Buffers \cup {NoBuffer} /\ NoBuffer \notin Buffers
  BY SizeType DEF Layout, Chain, NoBuffer
<1>2. /\ o \in Seq(Buffers) /\ n \in Nat
      /\ p = NoBuffer => n = 0
      /\ p # NoBuffer => n = 1 /\ o[1] = p
  BY <1>1 DEF Taken
<1> HIDE DEF o
<1>3. /\ Len(w) = n + Len(q) + Len(l)
      /\ \A i \in 1 .. n : w[i] = o[i]
      /\ \A i \in 1 .. Len(q) : w[n + i] = q[i]
      /\ \A i \in 1 .. Len(l) : w[n + Len(q) + i] = l[i]
  BY <1>1, <1>2
<1>4. \A i \in 1 .. Len(w) : \/ i \in 1 .. n
                             \/ \E j \in 1 .. Len(q) : i = n + j
                             \/ \E j \in 1 .. Len(l) : i = n + Len(q) + j
  <2> TAKE i \in 1 .. Len(w)
  <2>1. CASE i > n /\ i <= n + Len(q)
    <3>1. i - n \in 1 .. Len(q) /\ i = n + (i - n)
      BY <2>1, <1>1, <1>2
    <3> QED
      BY <3>1
  <2>2. CASE i > n + Len(q)
    <3>1. i - n - Len(q) \in 1 .. Len(l) /\ i = n + Len(q) + (i - n - Len(q))
      BY <2>2, <1>1, <1>2, <1>3
    <3> QED
      BY <3>1
  <2> QED
    BY <2>1, <2>2, <1>1, <1>2
<1>5. EachOnce(w)
  BY DEF Layout, o
<1> HIDE DEF w, n
<1>6. Len(w) = Size /\ \A i, j \in 1 .. Len(w) : w[i] = w[j] => i = j
  BY <1>5 DEF EachOnce
<1>7. /\ \A i \in 1 .. n : i \in 1 .. Len(w)
      /\ \A i \in 1 .. Len(q) : n + i \in 1 .. Len(w)
      /\ \A i \in 1 .. Len(l) : n + Len(q) + i \in 1 .. Len(w)
  BY <1>1, <1>2, <1>3
<1>8. /\ \A i, j \in 1 .. Len(q) : q[i] = q[j] => i = j
      /\ \A i, j \in 1 .. Len(l) : l[i] = l[j] => i = j
      /\ \A i \in 1 .. Len(q), j \in 1 .. Len(l) : q[i] # l[j]
  <2>1. ASSUME NEW i \in 1 .. Len(q), NEW j \in 1 .. Len(q), q[i] = q[j] PROVE i = j
    <3>1. n + i = n + j
      BY <2>1, <1>3, <1>6, <1>7
    <3> QED
      BY <3>1, <1>1, <1>2
  <2>2. ASSUME NEW i \in 1 .. Len(l), NEW j \in 1 .. Len(l), l[i] = l[j] PROVE i = j
    <3>1. n + Len(q) + i = n + Len(q) + j
      BY <2>2, <1>3, <1>6, <1>7
    <3> QED
      BY <3>1, <1>1, <1>2
  <2>3. ASSUME NEW i \in 1 .. Len(q), NEW j \in 1 .. Len(l), q[i] = l[j] PROVE FALSE
    <3>1. n + i = n + Len(q) + j
      BY <2>3, <1>3, <1>6, <1>7
    <3> QED
      BY <3>1, <1>1, <1>2
  <2> QED
    BY <2>1, <2>2, <2>3
<1>9. /\ \A i \in 1 .. Len(q) : q[i] # p
      /\ \A i \in 1 .. Len(l) : l[i] # p
  <2>1. CASE p = NoBuffer
    BY <2>1, <1>1
  <2>2. CASE p # NoBuffer
    <3>1. n = 1 /\ w[1] = p /\ 1 \in 1 .. Len(w)
      BY <2>2, <1>2, <1>3, <1>7
    <3>2. ASSUME NEW i \in 1 .. Len(q), q[i] = p PROVE FALSE
      <4>1. 1 = n + i
        BY <3>1, <3>2, <1>3, <1>6, <1>7
      <4> QED
        BY <4>1, <3>1, <1>1
    <3>3. ASSUME NEW i \in 1 .. Len(l), l[i] = p PROVE FALSE
      <4>1. 1 = n + Len(q) + i
        BY <3>1, <3>3, <1>3, <1>6, <1>7
      <4> QED
        BY <4>1, <3>1, <1>1
    <3> QED
      BY <3>2, <3>3
  <2> QED
    BY <2>1, <2>2
<1>10. ASSUME NEW b \in Buffers
       PROVE  b = p \/ (\E i \in 1 .. Len(q) : q[i] = b) \/ \E i \in 1 .. Len(l) : l[i] = b
  <2>1. PICK i \in 1 .. Len(w) : w[i] = b
    BY <1>5 DEF EachOnce
  <2>2. CASE i \in 1 .. n
    <3>1. p # NoBuffer /\ i = 1
      BY <2>2, <1>1, <1>2
    <3> QED
      BY <3>1, <2>1, <2>2, <1>2, <1>3
  <2>3. CASE \E j \in 1 .. Len(q) : i = n + j
    BY <2>1, <2>3, <1>3
  <2>4. CASE \E j \in 1 .. Len(l) : i = n + Len(q) + j
    BY <2>1, <2>4, <1>3
  <2> QED
    BY <2>2, <2>3, <2>4, <1>4
<1>11. Len(q) + Len(l) + n = Size
  BY <1>1, <1>2, <1>3, <1>6
<1> QED
  BY <1>1, <1>2, <1>8, <1>9, <1>10, <1>11 DEF n, o

\* A layout tells what the lists are.
LEMMA LayoutWalks ==
    ASSUME NEW next, NEW h, NEW t, NEW f, NEW p, NEW q, NEW l, Layout(next, h, t, f, p, q, l)
    PROVE  WalkFrom(next, h) = q /\ WalkFrom(next, f) = l
<1>1. Len(q) <= Size /\ Len(l) <= Size
  <2>1. Len(Taken(p)) \in Nat
    BY LayoutApart
  <2> QED
    BY <2>1, LayoutApart, SizeType
<1>2. Chain(next, h, q) /\ Chain(next, f, l)
  BY DEF Layout
<1> QED
  BY <1>1, <1>2, WalkOfChain

\* PushQueues: the first free buffer goes to the end of the queue.
LEMMA LayoutQueued ==
    ASSUME NEW next, NEW h, NEW t, NEW f, NEW p, NEW q, NEW l, Layout(next, h, t, f, p, q, l),
           f # NoBuffer
    PROVE  /\ f \in Buffers /\ f # p /\ \A i \in 1 .. Len(q) : q[i] # f
           /\ Len(q) + Len(Taken(p)) < Size
           /\ t # NoBuffer =>
                Layout([next EXCEPT ![f] = NoBuffer, ![t] = f], h, f, next[f], p,
                       Append(q, f), Tail(l))
           /\ t = NoBuffer =>
                Layout([next EXCEPT ![f] = NoBuffer], f, f, next[f], p,
                       Append(q, f), Tail(l))
<1> DEFINE r == Tail(l)
           m == [next EXCEPT ![f] = NoBuffer]
<1>1. /\ l # <<>> /\ Len(l) \in Nat \ {0} /\ f \in Buffers /\ f = l[1]
      /\ r \in Seq(Buffers) /\ Len(r) = Len(l) - 1
      /\ \A k \in 1 .. Len(l) - 1 : r[k] = l[k + 1]
      /\ Chain(next, next[f], r)
  BY ChainOff DEF Layout
<1>2. /\ q \in Seq(Buffers) /\ l \in Seq(Buffers) /\ Taken(p) \in Seq(Buffers)
      /\ Len(q) \in Nat /\ Len(Taken(p)) \in Nat
      /\ Len(q) + Len(l) + Len(Taken(p)) = Size /\ Size \in Nat
  BY LayoutApart, SizeType
<1>3. f # p /\ \A i \in 1 .. Len(q) : q[i] # f
  <2>1. 1 \in 1 .. Len(l)
    BY <1>1
  <2> QED
    BY <2>1, <1>1, LayoutApart
<1>4. \A i \in 1 .. Len(r) : r[i] # f
  <2> TAKE i \in 1 .. Len(r)
  <2>1. r[i] = l[i + 1] /\ i + 1 \in 1 .. Len(l) /\ 1 \in 1 .. Len(l) /\ i + 1 # 1
    BY <1>1
  <2> QED
    BY <2>1, <1>1, LayoutApart
<1>5. m \in [Buffers -> Buffers \cup {NoBuffer}] /\ next \in [Buffers -> Buffers \cup {NoBuffer}]
  BY <1>1 DEF Layout
<1>6. Chain(m, h, q) /\ Chain(m, next[f], r) /\ Chain(m, f, <<f>>)
  BY <1>1, <1>3, <1>4, <1>5, ChainKept, ChainOfOne DEF Layout
<1>7. Append(q, f) = q \o <<f>> /\ Append(q, f) \in Seq(Buffers)
  BY <1>1, <1>2, AppendIsConcat, AppendProperties
<1>8. Append(q, f) # <<>> /\ Append(q, f)[Len(Append(q, f))] = f
  BY <1>1, <1>2
<1>9. EachOnce(Taken(p) \o Append(q, f) \o r)
  <2>1. l = <<f>> \o r
    BY <1>1, <1>2
  <2>2. EachOnce(Taken(p) \o q \o l)
    BY DEF Layout
  <2> DEFINE o == Taken(p)
  <2> HIDE DEF o, r
  <2>3. (o \o q) \o l = (o \o (q \o <<f>>)) \o r
    <3>1. o \in Seq(Buffers) /\ q \in Seq(Buffers) /\ r \in Seq(Buffers) /\ <<f>> \in Seq(Buffers)
      BY <1>1, <1>2 DEF o
    <3>2. (o \o q) \o (<<f>> \o r) = ((o \o q) \o <<f>>) \o r
      BY <3>1, ConcatAssociative, ConcatProperties, SMTT(30)
    <3>3. (o \o q) \o <<f>> = o \o (q \o <<f>>)
      BY <3>1, ConcatAssociative
    <3> QED
      BY <2>1, <3>2, <3>3, Zenon
  <2> QED
    BY <2>2, <2>3, <1>7 DEF o
<1>10. ASSUME t # NoBuffer
       PROVE  Layout([next EXCEPT ![f] = NoBuffer, ![t] = f], h, f, next[f], p, Append(q, f), r)
  <2>1. q # <<>> /\ t = q[Len(q)] /\ Len(q) \in 1 .. Len(q)
    BY <1>10, <1>2 DEF Layout
  <2>2. t \in Buffers /\ t # f
    BY <2>1, <1>2, <1>3
  <2> DEFINE k == [m EXCEPT ![t] = f]
  <2>3. k = [next EXCEPT ![f] = NoBuffer, ![t] = f]
    OBVIOUS
  <2>4. k \in [Buffers -> Buffers \cup {NoBuffer}]
    BY <1>1, <1>5
  <2>5. Chain(k, h, q \o <<f>>)
    <3> DEFINE one == <<f>>
    <3>1. Len(one) = 1 /\ one[1] = f
      OBVIOUS
    <3> HIDE DEF one
    <3>2. \A i \in 1 .. Len(q), j \in 1 .. Len(one) : q[i] # one[j]
      BY <3>1, <1>3
    <3>3. Chain(m, f, one)
      BY <1>6 DEF one
    <3> HIDE DEF m
    <3>4. \A i, j \in 1 .. Len(q) : q[i] = q[j] => i = j
      BY LayoutApart
    <3>5. Chain([m EXCEPT ![q[Len(q)]] = f], h, q \o one)
      BY <1>5, <1>6, <2>1, <3>2, <3>3, <3>4, ChainJoined
    <3> QED
      BY <3>5, <2>1 DEF one
  <2>6. Chain(k, next[f], r)
    <3>1. \A i \in 1 .. Len(r) : r[i] # t
      <4> TAKE i \in 1 .. Len(r)
      <4>1. r[i] = l[i + 1] /\ i + 1 \in 1 .. Len(l)
        BY <1>1
      <4> QED
        BY <4>1, <2>1, LayoutApart
    <3> HIDE DEF m
    <3> QED
      BY <1>5, <1>6, <3>1, ChainKept
  <2> HIDE DEF k, r
  <2> QED
    BY <2>3, <2>4, <2>5, <2>6, <1>7, <1>8, <1>9 DEF Layout
<1>11. ASSUME t = NoBuffer
       PROVE  Layout(m, f, f, next[f], p, Append(q, f), r)
  <2>1. q = <<>>
    <3>1. q # <<>> => q[Len(q)] \in Buffers
      BY <1>2
    <3>2. NoBuffer \notin Buffers
      BY SizeType DEF NoBuffer
    <3> QED
      BY <3>1, <3>2, <1>11 DEF Layout
  <2>2. Append(q, f) = <<f>>
    BY <2>1
  <2>3. Chain(m, f, Append(q, f))
    BY <2>2, <1>6
  <2> HIDE DEF m, r
  <2> QED
    BY <2>3, <1>5, <1>6, <1>8, <1>9 DEF Layout
<1>12. Len(q) + Len(Taken(p)) < Size
  BY <1>1, <1>2
<1> QED
  BY <1>1, <1>3, <1>10, <1>11, <1>12, Zenon

\* AudioTakes: the first of the queue is played.
LEMMA LayoutPlays ==
    ASSUME NEW next, NEW h, NEW t, NEW f, NEW q, NEW l, Layout(next, h, t, f, NoBuffer, q, l),
           h # NoBuffer
    PROVE  /\ q # <<>> /\ h \in Buffers /\ h = q[1]
           /\ Layout(next, next[h], IF next[h] = NoBuffer THEN NoBuffer ELSE t, f, h, Tail(q), l)
<1> DEFINE r == Tail(q)
           u == IF next[h] = NoBuffer THEN NoBuffer ELSE t
<1>1. /\ q # <<>> /\ Len(q) \in Nat \ {0} /\ h \in Buffers /\ h = q[1]
      /\ r \in Seq(Buffers) /\ Len(r) = Len(q) - 1
      /\ \A k \in 1 .. Len(q) - 1 : r[k] = q[k + 1]
      /\ Chain(next, next[h], r)
  BY ChainOff DEF Layout
<1>2. q \in Seq(Buffers) /\ l \in Seq(Buffers)
  BY LayoutApart
<1>3. u = IF r = <<>> THEN NoBuffer ELSE r[Len(r)]
  <2>1. t = q[Len(q)]
    BY <1>1 DEF Layout
  <2> HIDE DEF r
  <2>2. CASE r = <<>>
    BY <2>2, <1>1 DEF Chain
  <2>3. CASE r # <<>>
    <3>1. r[1] \in Buffers /\ next[h] = r[1] /\ NoBuffer \notin Buffers
      BY <2>3, <1>1, SizeType DEF Chain, NoBuffer
    <3>2. Len(q) - 1 \in 1 .. Len(q) - 1
      BY <2>3, <1>1
    <3>3. r[Len(r)] = q[Len(q)]
      BY <3>2, <1>1
    <3> QED
      BY <3>1, <3>3, <2>1, <2>3
  <2> QED
    BY <2>2, <2>3
<1>4. EachOnce(Taken(h) \o r \o l)
  <2>1. Taken(h) = <<h>> /\ Taken(NoBuffer) = <<>>
    BY <1>1, SizeType DEF Taken, NoBuffer
  <2>2. q = <<h>> \o r /\ <<>> \o q = q
    BY <1>1, <1>2
  <2>3. EachOnce((Taken(NoBuffer) \o q) \o l)
    BY DEF Layout
  <2>4. (Taken(NoBuffer) \o q) \o l = (Taken(h) \o r) \o l
    BY <2>1, <2>2, Zenon
  <2> QED
    BY <2>3, <2>4
<1> HIDE DEF r, u
<1>5. Layout(next, next[h], u, f, h, r, l)
  BY <1>1, <1>3, <1>4 DEF Layout
<1> QED
  BY <1>1, <1>5 DEF r, u

\* AudioPutsBack: the buffer is free again.
LEMMA LayoutPutsBack ==
    ASSUME NEW next, NEW h, NEW t, NEW f, NEW p, NEW q, NEW l, Layout(next, h, t, f, p, q, l),
           p # NoBuffer
    PROVE  Layout([next EXCEPT ![p] = f], h, t, p, NoBuffer, q, <<p>> \o l)
<1> DEFINE m == [next EXCEPT ![p] = f]
           o == <<p>>
<1>1. p \in Buffers /\ m \in [Buffers -> Buffers \cup {NoBuffer}]
  <2>1. p \in Buffers /\ next \in [Buffers -> Buffers \cup {NoBuffer}]
    BY DEF Layout
  <2>2. f \in Buffers \cup {NoBuffer}
    <3>1. Chain(next, f, l)
      BY DEF Layout
    <3>2. l # <<>> => l[1] \in Buffers
      BY <3>1 DEF Chain
    <3> QED
      BY <3>1, <3>2 DEF Chain
  <2> QED
    BY <2>1, <2>2
<1>2. /\ q \in Seq(Buffers) /\ l \in Seq(Buffers) /\ Len(q) \in Nat /\ Len(l) \in Nat
      /\ \A i \in 1 .. Len(q) : q[i] # p
      /\ \A i \in 1 .. Len(l) : l[i] # p
  BY LayoutApart
<1>3. Chain(m, h, q) /\ Chain(m, p, o \o l)
  BY <1>1, <1>2, ChainKept, ChainOn DEF Layout
<1>4. EachOnce(Taken(NoBuffer) \o q \o (o \o l))
  <2>1. Taken(p) = o /\ Taken(NoBuffer) \o q = q
    BY <1>2 DEF Taken
  <2>2. EachOnce((o \o q) \o l)
    BY <2>1 DEF Layout
  <2>3. o \in Seq(Buffers) /\ Len(o) = 1 /\ o[1] = p
    BY <1>1
  <2> HIDE DEF o
  <2> DEFINE v == (o \o q) \o l
             w == q \o (o \o l)
             n == Len(q)
             At2(i) == IF i <= n THEN i + 1 ELSE IF i = n + 1 THEN 1 ELSE i
             Size2 == n + Len(l) + 1
  <2>4. /\ v \in Seq(Buffers) /\ Len(v) = Size2 /\ v[1] = p
        /\ \A i \in 1 .. n : v[i + 1] = q[i]
        /\ \A i \in n + 2 .. Size2 : v[i] = l[i - n - 1]
    <3>1. /\ v \in Seq(Buffers) /\ Len(v) = Len(o) + n + Len(l)
          /\ \A i \in 1 .. Len(o) : v[i] = o[i]
          /\ \A i \in 1 .. n : v[Len(o) + i] = q[i]
          /\ \A i \in 1 .. Len(l) : v[Len(o) + n + i] = l[i]
      BY <1>2, <2>3, ThreeParts, ZenonT(30)
    <3> HIDE DEF v
    <3>2. \A i \in n + 2 .. Size2 : i - n - 1 \in 1 .. Len(l) /\ 1 + n + (i - n - 1) = i
      BY <1>2
    <3> QED
      BY <3>1, <3>2, <1>2, <2>3, SMTT(30)
  <2>5. /\ w \in Seq(Buffers) /\ Len(w) = Size2
        /\ \A i \in 1 .. n : w[i] = q[i]
        /\ w[n + 1] = p
        /\ \A i \in n + 2 .. Size2 : w[i] = l[i - n - 1]
    <3> DEFINE u == (q \o o) \o l
    <3>1. w = u
      BY <1>2, <2>3, ConcatAssociative, SMTT(30)
    <3>2. /\ u \in Seq(Buffers) /\ Len(u) = n + Len(o) + Len(l)
          /\ \A i \in 1 .. n : u[i] = q[i]
          /\ \A i \in 1 .. Len(o) : u[n + i] = o[i]
          /\ \A i \in 1 .. Len(l) : u[n + Len(o) + i] = l[i]
      <4>1. q \in Seq(Buffers) /\ o \in Seq(Buffers) /\ l \in Seq(Buffers)
        BY <1>2, <2>3
      <4> QED
        BY ONLY <4>1, ThreeParts
    <3> HIDE DEF u, w
    <3>3. \A i \in n + 2 .. Size2 : i - n - 1 \in 1 .. Len(l) /\ n + 1 + (i - n - 1) = i
      BY <1>2
    <3> QED
      BY <3>1, <3>2, <3>3, <1>2, <2>3
  <2> HIDE DEF v, w
  <2>6. n \in Nat /\ Size2 \in Nat /\ n + 1 <= Size2
    BY <1>2
  <2>7. \A i \in 1 .. Size2 : At2(i) \in 1 .. Size2 /\ w[i] = v[At2(i)]
    <3> TAKE i \in 1 .. Size2
    <3>1. CASE i <= n
      BY <3>1, <2>4, <2>5, <2>6
    <3>2. CASE i = n + 1
      BY <3>2, <2>4, <2>5, <2>6
    <3>3. CASE i > n + 1
      BY <3>3, <2>4, <2>5, <2>6
    <3> QED
      BY <3>1, <3>2, <3>3, <2>6
  <2>8. \A i, j \in 1 .. Size2 : At2(i) = At2(j) => i = j
    BY <2>6
  <2>9. \A i \in 1 .. Size2 : \E j \in 1 .. Size2 : At2(j) = i
    <3> TAKE i \in 1 .. Size2
    <3>1. CASE i = 1
      BY <3>1, <2>6
    <3>2. CASE i > 1 /\ i <= n + 1
      <4>1. i - 1 \in 1 .. Size2 /\ At2(i - 1) = i
        BY <3>2, <2>6
      <4> QED
        BY <4>1
    <3>3. CASE i > n + 1
      BY <3>3, <2>6
    <3> QED
      BY <3>1, <3>2, <3>3, <2>6
  <2> HIDE DEF At2, Size2, n
  <2>10. \A i, j \in 1 .. Len(w) : w[i] = w[j] => i = j
    <3> SUFFICES ASSUME NEW i \in 1 .. Size2, NEW j \in 1 .. Size2, w[i] = w[j] PROVE i = j
      BY <2>5
    <3>1. v[At2(i)] = v[At2(j)] /\ At2(i) \in 1 .. Size2 /\ At2(j) \in 1 .. Size2
      BY <2>7
    <3>2. At2(i) = At2(j)
      BY <3>1, <2>2, <2>4 DEF EachOnce, v
    <3> QED
      BY <3>2, <2>8
  <2>11. ASSUME NEW b \in Buffers PROVE \E i \in 1 .. Len(w) : w[i] = b
    <3>1. PICK i \in 1 .. Size2 : v[i] = b
      BY <2>2, <2>4 DEF EachOnce, v
    <3>2. PICK j \in 1 .. Size2 : At2(j) = i
      BY <2>9
    <3> QED
      BY <3>1, <3>2, <2>5, <2>7
  <2>12. Len(w) = Size
    BY <2>2, <2>4, <2>5 DEF EachOnce, v
  <2>13. EachOnce(w)
    BY <2>5, <2>10, <2>11, <2>12 DEF EachOnce
  <2> QED
    BY <2>1, <2>13 DEF w
<1> HIDE DEF m, o
<1>5. Layout(m, h, t, p, NoBuffer, q, o \o l)
  BY <1>1, <1>3, <1>4 DEF Layout
<1> QED
  BY <1>5 DEF m, o

\* ChangeProgram and cleanup: the queue goes in front of the free buffers.
LEMMA LayoutFlushed ==
    ASSUME NEW next, NEW h, NEW t, NEW f, NEW p, NEW q, NEW l, Layout(next, h, t, f, p, q, l)
    PROVE  /\ t = NoBuffer <=> q = <<>>
           /\ h = NoBuffer <=> q = <<>>
           /\ q # <<>> =>
                Layout([next EXCEPT ![t] = f], NoBuffer, NoBuffer, h, p, <<>>, q \o l)
<1>1. /\ q \in Seq(Buffers) /\ l \in Seq(Buffers) /\ Taken(p) \in Seq(Buffers) /\ Len(q) \in Nat
      /\ NoBuffer \notin Buffers /\ f \in Buffers \cup {NoBuffer}
  <2>1. l # <<>> => l[1] \in Buffers
    BY LayoutApart
  <2>2. f = IF l = <<>> THEN NoBuffer ELSE l[1]
    BY DEF Layout, Chain
  <2> QED
    BY <2>1, <2>2, LayoutApart, SizeType DEF NoBuffer
<1>2. q # <<>> => q[1] \in Buffers /\ q[Len(q)] \in Buffers
  BY <1>1
<1>3. t = NoBuffer <=> q = <<>>
  BY <1>1, <1>2 DEF Layout
<1>4. h = NoBuffer <=> q = <<>>
  BY <1>1, <1>2 DEF Layout, Chain
<1>5. ASSUME q # <<>>
      PROVE  Layout([next EXCEPT ![t] = f], NoBuffer, NoBuffer, h, p, <<>>, q \o l)
  <2> DEFINE m == [next EXCEPT ![t] = f]
  <2>1. t = q[Len(q)]
    BY <1>5 DEF Layout
  <2>2. /\ \A i, j \in 1 .. Len(q) : q[i] = q[j] => i = j
        /\ \A i \in 1 .. Len(q), j \in 1 .. Len(l) : q[i] # l[j]
    BY LayoutApart
  <2>3. /\ next \in [Buffers -> Buffers \cup {NoBuffer}] /\ p \in Buffers \cup {NoBuffer}
        /\ Chain(next, h, q) /\ Chain(next, f, l)
    BY DEF Layout
  <2>4. Chain(m, h, q \o l)
    BY <2>1, <2>2, <2>3, <1>5, ChainJoined
  <2>5. m \in [Buffers -> Buffers \cup {NoBuffer}]
    BY <1>1, <2>3
  <2>6. EachOnce(Taken(p) \o <<>> \o (q \o l))
    <3> DEFINE o == Taken(p)
    <3>1. EachOnce((o \o q) \o l) /\ o \in Seq(Buffers)
      BY <1>1 DEF Layout
    <3> HIDE DEF o
    <3>2. (o \o q) \o l = o \o (q \o l) /\ o \o <<>> = o
      BY <1>1, <3>1, ConcatAssociative, ConcatEmptySeq, SMTT(30)
    <3> QED
      BY <3>1, <3>2 DEF o
  <2>7. Chain(m, NoBuffer, <<>>)
    BY ChainOfNone
  <2> HIDE DEF m
  <2>8. Layout(m, NoBuffer, NoBuffer, h, p, <<>>, q \o l)
    BY <2>3, <2>4, <2>5, <2>6, <2>7 DEF Layout
  <2> QED
    BY <2>8 DEF m
<1> QED
  BY <1>3, <1>4, <1>5

\* The buffers as init_audio_buffers lays them out.
LEMMA LayoutInit ==
    ASSUME Init
    PROVE  Layout(nxt, head, tail, free, playing, <<>>, [k \in 1 .. Size |-> Size + 1 - k])
<1> DEFINE l == [k \in 1 .. Size |-> Size + 1 - k]
<1>1. Size \in Nat \ {0} /\ Buffers = 1 .. Size
  BY SizeType
<1>2. /\ nxt = [b \in Buffers |-> b - 1] /\ free = Size
      /\ head = NoBuffer /\ tail = NoBuffer /\ playing = NoBuffer
  BY DEF Init, Size
<1>3. l \in Seq(Buffers) /\ Len(l) = Size /\ \A k \in 1 .. Size : l[k] = Size + 1 - k
  BY <1>1
<1> HIDE DEF l
<1>4. nxt \in [Buffers -> Buffers \cup {NoBuffer}]
  BY <1>1, <1>2 DEF NoBuffer
<1>5. Chain(nxt, free, l)
  <2>1. ASSUME NEW k \in 1 .. Size PROVE l[k] \in Buffers /\ nxt[l[k]] = Size - k
    <3>1. Size + 1 - k \in Buffers /\ l[k] = Size + 1 - k /\ (Size + 1 - k) - 1 = Size - k
      BY <1>1, <1>3
    <3> QED
      BY <3>1, <1>2
  <2>2. l # <<>> /\ free = l[1] /\ nxt[l[Len(l)]] = NoBuffer
    BY <1>1, <1>2, <1>3, <2>1 DEF NoBuffer
  <2>3. ASSUME NEW k \in 1 .. Len(l) - 1 PROVE nxt[l[k]] = l[k + 1]
    <3>1. k \in 1 .. Size /\ k + 1 \in 1 .. Size /\ Size + 1 - (k + 1) = Size - k
      BY <1>1, <1>3
    <3> QED
      BY <3>1, <1>3, <2>1
  <2> QED
    BY <1>3, <2>2, <2>3 DEF Chain
<1>6. Chain(nxt, head, <<>>)
  BY <1>2, ChainOfNone
<1>7. EachOnce(l)
  <2>1. \A i, j \in 1 .. Len(l) : l[i] = l[j] => i = j
    BY <1>1, <1>3
  <2>2. ASSUME NEW b \in Buffers PROVE \E i \in 1 .. Len(l) : l[i] = b
    <3>1. Size + 1 - b \in 1 .. Size /\ l[Size + 1 - b] = b
      BY <1>1, <1>3
    <3> QED
      BY <3>1, <1>3
  <2> QED
    BY <1>3, <2>1, <2>2 DEF EachOnce
<1>8. Taken(playing) \o <<>> \o l = l
  BY <1>2, <1>3 DEF Taken
<1>9. Layout(nxt, head, tail, free, playing, <<>>, l)
  BY <1>2, <1>4, <1>5, <1>6, <1>7, <1>8 DEF Layout
<1> QED
  BY <1>9 DEF l

-----------------------------------------------------------------------------
(* Where the threads are *)

Packets == [program : Programs, number : 1 .. MaxPackets]

Pushing == {"push", "check", "room", "full"}

\* A thread has the mutex where TypeOK says.
MutexInv ==
    /\ pc \in [Threads -> Places]
    /\ mutex \in Threads \cup {Nobody, Handler}
    /\ \A t \in Threads : mutex = t <=> pc[t] \in Critical

\* Where each thread may be, and who waits.
PlacesInv ==
    /\ source \in Sources
    /\ pc["main"] \in {"join", "stop", "ended"} \cup
         IF FileMode THEN Pushing \cup {"read", "is_done", "decode", "eof", "ending"} ELSE {}
    /\ pc["radio"] \in {"gone"} \cup
         IF FileMode THEN {} ELSE {"read", "push", "check", "room", "lost", "losing"}
    /\ pc["audio"] \in {"get", "take", "idle", "play", "put", "putting", "gone"}
    /\ pc["input"] \in {"poll", "is_done", "key", "quit", "quitting", "change", "changing", "gone"}
    /\ waiters \subseteq {t \in Threads : pc[t] \in {"idle", "full"}}
    /\ playing = NoBuffer <=> pc["audio"] \notin {"play", "put", "putting"}
    /\ handling \in Interruptible \cup {Nobody}
    /\ done \in BOOLEAN /\ interrupted \in BOOLEAN

\* The packet that is being pushed, and the key that is acted on.  A producer
\* that is past the look at the program has a packet of it, unless it may have
\* waited while a key was pressed.
PacketInv ==
    /\ decoded \in 0 .. MaxPackets /\ chunk \in 0 .. ChunkPackets /\ keys \in Nat
    /\ program \in 0 .. 7 \cup {NoProgram} /\ pressed \in Keys \cup {NoProgram}
    /\ pc[Producer] \in Pushing => packet \in Packets
    /\ pc["input"] \in {"quit", "quitting", "change", "changing"} => keys > 0
    /\ pc[Producer] \in {"room", "full"} /\ (~FileMode \/ keys = 0) => packet.program = program

ControlInv == MutexInv /\ PlacesInv /\ PacketInv

LEMMA ControlInit == Init => ControlInv
<1> SUFFICES ASSUME Init PROVE ControlInv
  OBVIOUS
<1> USE PlayerAssumption DEF Init, Threads, NoBuffer, NoProgram, Nobody, Handler
<1>1. source \in {"file", "radio"} /\ (FileMode <=> source = "file")
  BY DEF FileMode
<1>2. /\ pc = [t \in Threads |-> pc[t]] /\ pc["audio"] = "get"
      /\ pc["input"] \in {"poll", "gone"}
      /\ pc["main"] = IF FileMode THEN "read" ELSE "join"
      /\ pc["radio"] = IF FileMode THEN "gone" ELSE "read"
  <2>1. PICK isatty \in BOOLEAN : pc =
         [t \in Threads |->
               CASE t = "audio" -> "get"
                 [] t = "input" -> IF isatty THEN "poll" ELSE "gone"
                 [] t = "main"  -> IF FileMode THEN "read" ELSE "join"
                 [] OTHER       -> IF FileMode THEN "gone" ELSE "read"]
    BY Zenon
  <2>2. pc = [t \in Threads |-> pc[t]]
    BY <2>1
  <2>3. {"audio", "input", "main", "radio"} \subseteq Threads
    OBVIOUS
  <2> QED
    BY <2>1, <2>2, <2>3
<1>3. MutexInv
  <2>1. pc \in [Threads -> Places] /\ \A t \in Threads : pc[t] \notin Critical /\ t # mutex
    BY <1>2 DEF Critical, Places
  <2> QED
    BY <2>1 DEF MutexInv
<1>4. PlacesInv
  BY <1>1, <1>2 DEF PlacesInv
<1>5. pc[Producer] = "read"
  BY <1>1, <1>2 DEF Producer
<1>6. PacketInv
  BY <1>2, <1>5 DEF PacketInv, Pushing
<1> QED
  BY <1>3, <1>4, <1>6 DEF ControlInv

LEMMA ProducerType ==
    Producer \in Threads /\ Producer = (IF FileMode THEN "main" ELSE "radio")
BY DEF Producer, Threads

\* Every step keeps the mutex where it belongs.
LEMMA MutexStep == ControlInv /\ [Next]_vars => MutexInv'
<1> SUFFICES ASSUME ControlInv, [Next]_vars PROVE MutexInv'
  OBVIOUS
<1> USE DEF ControlInv, MutexInv, At, GoTo, Lock, Threads, Nobody, lists, counters, Places, Critical
<1>1. CASE Push
  <2>1. CASE Lock(Producer, "push", "check")
    BY <2>1, ProducerType DEF Critical
  <2>2. CASE PushChecks
    BY <2>2, ProducerType DEF PushChecks, Critical, AfterPacket
  <2>3. CASE PushFindsNone
    BY <2>3, ProducerType DEF PushFindsNone, Wait, Critical, AfterPacket
  <2>4. CASE PushQueues
    BY <2>4, ProducerType DEF PushQueues, Critical, AfterPacket
  <2>5. CASE Return(Producer, "full", "room")
    BY <2>5, ProducerType DEF Return, Critical
  <2> QED
    BY <1>1, <2>1, <2>2, <2>3, <2>4, <2>5 DEF Push
<1>2. CASE Radio
  <2> "radio" \in Threads
    BY DEF Threads
  <2>1. CASE RadioDecodes
    BY <2>1 DEF RadioDecodes, Decode, Critical
  <2>2. CASE RadioLost
    BY <2>2 DEF RadioLost, Critical
  <2>3. CASE RadioLoses
    BY <2>3 DEF RadioLoses, DoneSignal, Critical
  <2> QED
    BY <1>2, <2>1, <2>2, <2>3 DEF Radio
<1>3. CASE Main
  <2> "main" \in Threads
    BY DEF Threads
  <2>1. CASE FileLoop
    BY <2>1 DEF FileLoop, Decode, DoneSignal, Critical
  <2>2. CASE MainJoins
    BY <2>2 DEF MainJoins, Critical
  <2>3. CASE MainStops
    BY <2>3 DEF MainStops, ResetAudioBuffers, MutexInv, Critical, Threads
  <2> QED
    BY <1>3, <2>1, <2>2, <2>3 DEF Main
<1>4. CASE Audio
  <2> "audio" \in Threads
    BY DEF Threads
  <2>1. CASE AudioTakes
    BY <2>1 DEF AudioTakes, Wait, Critical
  <2>2. CASE AudioPlays
    BY <2>2 DEF AudioPlays, Critical
  <2>3. CASE AudioPutsBack
    BY <2>3 DEF AudioPutsBack, Critical
  <2> QED
    BY <1>4, <2>1, <2>2, <2>3 DEF Audio, Return, Critical
<1>5. CASE Input
  <2> "input" \in Threads
    BY DEF Threads
  <2>1. CASE InputPolls
    BY <2>1 DEF InputPolls, Critical
  <2>2. CASE InputReads
    BY <2>2 DEF InputReads, Critical
  <2>3. CASE ChangeProgram
    BY <2>3 DEF ChangeProgram, Critical
  <2>4. CASE DoneSignal("input", "quitting", "change")
    BY <2>4 DEF DoneSignal, Critical
  <2> QED
    BY <1>5, <2>1, <2>2, <2>3, <2>4 DEF Input, Critical
<1>6. CASE HandlerLocks
  BY <1>6 DEF HandlerLocks, Handler
<1>7. CASE HandlerSignals
  BY <1>7 DEF HandlerSignals, Handler
<1>8. CASE \E t \in Interruptible : Interrupt(t)
  BY <1>8 DEF Interrupt, MutexInv
<1>9. CASE UNCHANGED vars
  BY <1>9 DEF vars, MutexInv
<1> QED
  BY <1>1, <1>2, <1>3, <1>4, <1>5, <1>6, <1>7, <1>8, <1>9 DEF Next

\* A signal wakes somebody at most.
LEMMA SignalWakes ==
    ASSUME Signal
    PROVE  waiters' \subseteq waiters
BY DEF Signal

LEMMA PlacesStep == ControlInv /\ [Next]_vars => PlacesInv'
<1> SUFFICES ASSUME ControlInv, [Next]_vars PROVE PlacesInv'
  OBVIOUS
<1> USE DEF ControlInv, MutexInv, PlacesInv, At, GoTo, Lock, Threads, Nobody, lists, counters,
            FileMode, Pushing
<1>1. CASE Push
  <2>1. CASE Lock(Producer, "push", "check")
    BY <2>1, ProducerType
  <2>2. CASE PushChecks
    BY <2>2, ProducerType DEF PushChecks, AfterPacket
  <2>3. CASE PushFindsNone
    <3>1. CASE FileMode
      <4>1. /\ waiters' = waiters \cup {"main"} /\ pc' = [pc EXCEPT !["main"] = "full"]
            /\ UNCHANGED <<source, playing, handling, done, interrupted>>
        BY <2>3, <3>1, ProducerType DEF PushFindsNone, Wait
      <4> QED
        BY <3>1, <4>1
    <3>2. CASE ~FileMode
      <4>1. /\ waiters' = waiters /\ pc' = [pc EXCEPT !["radio"] = "read"] /\ pc["radio"] = "room"
            /\ UNCHANGED <<source, playing, handling, done, interrupted>>
        BY <2>3, <3>2, ProducerType DEF PushFindsNone, AfterPacket
      <4> QED
        BY <3>2, <4>1
    <3> QED
      BY <3>1, <3>2
  <2>4. CASE PushQueues
    BY <2>4, ProducerType, SignalWakes, ZenonT(30) DEF PushQueues, AfterPacket
  <2>5. CASE Return(Producer, "full", "room")
    BY <2>5, ProducerType DEF Return
  <2> QED
    BY <1>1, <2>1, <2>2, <2>3, <2>4, <2>5 DEF Push
<1>2. CASE Radio
  <2>1. CASE RadioDecodes
    BY <2>1 DEF RadioDecodes, Decode
  <2>2. CASE RadioLost
    BY <2>2 DEF RadioLost
  <2>3. CASE Lock("radio", "lost", "losing")
    BY <2>3
  <2>4. CASE DoneSignal("radio", "losing", "gone")
    BY <2>4, SignalWakes DEF DoneSignal
  <2> QED
    BY <1>2, <2>1, <2>2, <2>3, <2>4 DEF Radio, RadioLoses
<1>3. CASE Main
  <2>1. CASE FileLoop
    <3>1. CASE FileMode /\ Lock("main", "read", "is_done")
      BY <3>1
    <3>2. CASE Lock("main", "eof", "ending")
      BY <3>2
    <3>3. CASE DoneSignal("main", "ending", "join")
      BY <3>3, SignalWakes DEF DoneSignal
    <3>4. CASE pc["main"] = "is_done"
      BY <2>1, <3>4, ZenonT(30) DEF FileLoop, DoneSignal
    <3>5. CASE pc["main"] = "decode"
      BY <2>1, <3>5, ZenonT(30) DEF FileLoop, Decode, DoneSignal
    <3> QED
      BY <2>1, <3>1, <3>2, <3>3, <3>4, <3>5 DEF FileLoop
  <2>2. CASE MainJoins
    BY <2>2 DEF MainJoins
  <2>3. CASE MainStops
    BY <2>3 DEF MainStops, ResetAudioBuffers
  <2> QED
    BY <1>3, <2>1, <2>2, <2>3 DEF Main
<1>4. CASE Audio
  <2>1. CASE AudioTakes
    <3>1. CASE head # NoBuffer
      BY <2>1, <3>1, ZenonT(30) DEF AudioTakes
    <3>2. CASE head = NoBuffer /\ done
      BY <2>1, <3>2, ZenonT(30) DEF AudioTakes
    <3>3. CASE head = NoBuffer /\ ~done
      <4>1. /\ waiters' = waiters \cup {"audio"} /\ pc' = [pc EXCEPT !["audio"] = "idle"]
            /\ pc["audio"] = "take"
            /\ UNCHANGED <<source, playing, handling, done, interrupted>>
        BY <2>1, <3>3 DEF AudioTakes, Wait
      <4> QED
        BY <4>1
    <3> QED
      BY <3>1, <3>2, <3>3
  <2>2. CASE AudioPlays
    BY <2>2 DEF AudioPlays
  <2>3. CASE AudioPutsBack
    BY <2>3, SignalWakes DEF AudioPutsBack
  <2>4. CASE Lock("audio", "get", "take") \/ Lock("audio", "put", "putting")
    BY <2>4
  <2>5. CASE Return("audio", "idle", "take")
    BY <2>5 DEF Return
  <2> QED
    BY <1>4, <2>1, <2>2, <2>3, <2>4, <2>5, Zenon DEF Audio
<1>5. CASE Input
  <2>1. CASE InputPolls
    BY <2>1, ZenonT(30) DEF InputPolls
  <2>2. CASE InputReads
    BY <2>2 DEF InputReads
  <2>3. CASE ChangeProgram
    BY <2>3 DEF ChangeProgram
  <2>4. CASE DoneSignal("input", "quitting", "change")
    BY <2>4, SignalWakes DEF DoneSignal
  <2> QED
    BY <1>5, <2>1, <2>2, <2>3, <2>4, ZenonT(30) DEF Input
<1>6. CASE HandlerLocks
  BY <1>6 DEF HandlerLocks
<1>7. CASE HandlerSignals
  BY <1>7, SignalWakes DEF HandlerSignals
<1>8. CASE \E t \in Interruptible : Interrupt(t)
  BY <1>8 DEF Interrupt
<1>9. CASE UNCHANGED vars
  BY <1>9 DEF vars
<1> QED
  BY <1>1, <1>2, <1>3, <1>4, <1>5, <1>6, <1>7, <1>8, <1>9 DEF Next

LEMMA PacketStep == ControlInv /\ [Next]_vars => PacketInv'
<1> SUFFICES ASSUME ControlInv, [Next]_vars PROVE PacketInv'
  OBVIOUS
<1> USE PlayerAssumption
    DEF ControlInv, MutexInv, PlacesInv, PacketInv, At, GoTo, Lock, Threads, lists, counters,
        FileMode, Producer, Pushing, Critical, NoProgram, Quit
<1>1. CASE Push
  <2>1. CASE Lock(Producer, "push", "check")
    BY <2>1
  <2>2. CASE PushChecks
    BY <2>2 DEF PushChecks, AfterPacket
  <2>3. CASE PushFindsNone
    BY <2>3 DEF PushFindsNone, Wait, AfterPacket
  <2>4. CASE PushQueues
    BY <2>4 DEF PushQueues, AfterPacket
  <2>5. CASE Return(Producer, "full", "room")
    BY <2>5 DEF Return
  <2> QED
    BY <1>1, <2>1, <2>2, <2>3, <2>4, <2>5 DEF Push
<1>2. CASE Radio
  <2>1. CASE RadioDecodes
    BY <2>1 DEF RadioDecodes, Decode, Packets
  <2>2. CASE RadioLost
    BY <2>2 DEF RadioLost
  <2>3. CASE Lock("radio", "lost", "losing")
    BY <2>3
  <2>4. CASE DoneSignal("radio", "losing", "gone")
    BY <2>4 DEF DoneSignal
  <2> QED
    BY <1>2, <2>1, <2>2, <2>3, <2>4 DEF Radio, RadioLoses
<1>3. CASE Main
  <2>1. CASE FileLoop
    BY <2>1, SMTT(30) DEF FileLoop, Decode, DoneSignal, Packets
  <2>2. CASE MainJoins
    BY <2>2 DEF MainJoins
  <2>3. CASE MainStops
    BY <2>3 DEF MainStops, ResetAudioBuffers
  <2> QED
    BY <1>3, <2>1, <2>2, <2>3 DEF Main
<1>4. CASE Audio
  <2>1. CASE AudioTakes
    BY <2>1 DEF AudioTakes, Wait
  <2>2. CASE AudioPlays
    BY <2>2 DEF AudioPlays
  <2>3. CASE AudioPutsBack
    BY <2>3 DEF AudioPutsBack
  <2>4. CASE Lock("audio", "get", "take") \/ Lock("audio", "put", "putting")
    BY <2>4
  <2>5. CASE Return("audio", "idle", "take")
    BY <2>5 DEF Return
  <2> QED
    BY <1>4, <2>1, <2>2, <2>3, <2>4, <2>5, Zenon DEF Audio
<1>5. CASE Input
  <2>1. CASE InputPolls
    BY <2>1 DEF InputPolls
  <2>2. CASE InputReads
    BY <2>2 DEF InputReads
  <2>3. CASE ChangeProgram
    BY <2>3 DEF ChangeProgram
  <2>4. CASE DoneSignal("input", "quitting", "change")
    BY <2>4 DEF DoneSignal
  <2> QED
    BY <1>5, <2>1, <2>2, <2>3, <2>4 DEF Input
<1>6. CASE HandlerLocks
  BY <1>6 DEF HandlerLocks
<1>7. CASE HandlerSignals
  BY <1>7 DEF HandlerSignals
<1>8. CASE \E t \in Interruptible : Interrupt(t)
  BY <1>8 DEF Interrupt
<1>9. CASE UNCHANGED vars
  BY <1>9 DEF vars
<1> QED
  BY <1>1, <1>2, <1>3, <1>4, <1>5, <1>6, <1>7, <1>8, <1>9 DEF Next

LEMMA ControlStep == ControlInv /\ [Next]_vars => ControlInv'
BY MutexStep, PlacesStep, PacketStep DEF ControlInv

\* main.c: which thread holds the mutex, where each of them may be, and which
\* packet a producer holds.
THEOREM PlayerControl == Spec => []ControlInv
BY ControlInit, ControlStep, PTL DEF Spec

-----------------------------------------------------------------------------
(* The lists *)

Free == ListFrom(free)

ListsInv ==
    /\ Layout(nxt, head, tail, free, playing, Queue, Free)
    /\ data \in [Buffers -> Packets \cup {NoPacket}]
    /\ QueueOfProgram

\* A layout of the variables is the one with the two lists.
LEMMA ListsAre ==
    ASSUME NEW q, NEW l, Layout(nxt, head, tail, free, playing, q, l)
    PROVE  Queue = q /\ Free = l
BY ListIsWalk, LayoutWalks DEF Queue, Free

LEMMA ListsWillBe ==
    ASSUME NEW q, NEW l, Layout(nxt', head', tail', free', playing', q, l)
    PROVE  Queue' = q /\ Free' = l
<1>1. Queue' = WalkFrom(nxt', head') /\ Free' = WalkFrom(nxt', free')
  BY DEF Queue, Free, ListFrom, WalkFrom, IsWalk, Further, Size
<1> QED
  BY <1>1, LayoutWalks

LEMMA ListsInit == Init => ListsInv
<1> SUFFICES ASSUME Init PROVE ListsInv
  OBVIOUS
<1>1. Layout(nxt, head, tail, free, playing, Queue, Free) /\ Queue = <<>>
  BY LayoutInit, ListsAre
<1>2. data \in [Buffers -> Packets \cup {NoPacket}]
  BY DEF Init
<1>3. QueueOfProgram
  BY <1>1 DEF QueueOfProgram
<1> QED
  BY <1>1, <1>2, <1>3 DEF ListsInv

\* Few steps touch the lists.
OtherStep ==
    /\ UNCHANGED <<source, nxt, head, tail, free, playing, data, program>>
    /\ keys' \in {keys, keys + 1}

LEMMA WhichStep ==
    ASSUME ControlInv, [Next]_vars
    PROVE  \/ OtherStep \/ PushQueues \/ (AudioTakes /\ head # NoBuffer) \/ AudioPutsBack
           \/ ChangeProgram \/ MainStops
<1> USE DEF OtherStep, Lock, lists, counters
<1>1. CASE Push
  BY <1>1 DEF Push, PushChecks, PushFindsNone, Return
<1>2. CASE Radio
  BY <1>2 DEF Radio, RadioDecodes, Decode, RadioLost, RadioLoses, DoneSignal
<1>3. CASE Main
  <2>1. CASE FileLoop
    BY <2>1 DEF FileLoop, Decode, DoneSignal
  <2> QED
    BY <1>3, <2>1 DEF Main, MainJoins
<1>4. CASE Audio
  BY <1>4 DEF Audio, AudioTakes, AudioPlays, Return
<1>5. CASE Input
  <2>1. CASE InputPolls
    BY <2>1 DEF InputPolls
  <2>2. CASE InputReads
    BY <2>2 DEF InputReads
  <2>3. CASE DoneSignal("input", "quitting", "change")
    BY <2>3 DEF DoneSignal
  <2> QED
    BY <1>5, <2>1, <2>2, <2>3 DEF Input
<1>6. CASE HandlerLocks \/ HandlerSignals
  BY <1>6 DEF HandlerLocks, HandlerSignals
<1>7. CASE \E t \in Interruptible : Interrupt(t)
  BY <1>7 DEF Interrupt
<1>8. CASE UNCHANGED vars
  BY <1>8 DEF vars
<1> QED
  BY <1>1, <1>2, <1>3, <1>4, <1>5, <1>6, <1>7, <1>8 DEF Next

\* What each of them does, in terms of the lists.
LEMMA OtherLists ==
    ASSUME ControlInv, ListsInv, OtherStep
    PROVE  ListsInv' /\ UNCHANGED <<Queue, Playing, data>>
<1>1. UNCHANGED <<Queue, Free, Playing, data, FileMode>>
  BY DEF OtherStep, Queue, Free, ListFrom, Playing, FileMode
<1>2. keys' = 0 => keys = 0
  BY DEF OtherStep, ControlInv, PacketInv
<1>3. QueueOfProgram'
  BY <1>1, <1>2 DEF OtherStep, ListsInv, QueueOfProgram
<1> QED
  BY <1>1, <1>3 DEF OtherStep, ListsInv

LEMMA QueuesLists ==
    ASSUME ControlInv, ListsInv, PushQueues
    PROVE  /\ ListsInv' /\ UNCHANGED Playing
           /\ Queue' = Append(Queue, free) /\ data' = [data EXCEPT ![free] = packet]
           /\ free \in Buffers /\ playing # free /\ \A k \in 1 .. Len(Queue) : Queue[k] # free
           /\ Len(Queue) + Len(Taken(playing)) < Size /\ packet \in Packets
<1>1. /\ free # NoBuffer /\ free' = nxt[free] /\ tail' = free /\ UNCHANGED <<playing, program, source, keys>>
      /\ data' = [data EXCEPT ![free] = packet]
      /\ IF tail # NoBuffer
         THEN nxt' = [nxt EXCEPT ![free] = NoBuffer, ![tail] = free] /\ head' = head
         ELSE nxt' = [nxt EXCEPT ![free] = NoBuffer] /\ head' = free
  BY DEF PushQueues, counters
<1>2. packet \in Packets /\ (~FileMode \/ keys = 0 => packet.program = program)
  BY DEF PushQueues, At, ControlInv, PacketInv, Pushing
<1>3. Layout(nxt, head, tail, free, playing, Queue, Free)
  BY DEF ListsInv
<1>4. /\ free \in Buffers /\ free # playing /\ \A i \in 1 .. Len(Queue) : Queue[i] # free
      /\ Len(Queue) + Len(Taken(playing)) < Size
      /\ tail # NoBuffer =>
           Layout([nxt EXCEPT ![free] = NoBuffer, ![tail] = free], head, free, nxt[free], playing,
                  Append(Queue, free), Tail(Free))
      /\ tail = NoBuffer =>
           Layout([nxt EXCEPT ![free] = NoBuffer], free, free, nxt[free], playing,
                  Append(Queue, free), Tail(Free))
  BY <1>1, <1>3, LayoutQueued, Zenon
<1>5. Layout(nxt', head', tail', free', playing', Append(Queue, free), Tail(Free))
  BY <1>1, <1>4
<1>6. Queue' = Append(Queue, free) /\ Free' = Tail(Free)
  BY <1>5, ListsWillBe
<1>7. data' \in [Buffers -> Packets \cup {NoPacket}]
  BY <1>1, <1>2 DEF ListsInv
<1>8. QueueOfProgram'
  <2>1. Queue \in Seq(Buffers) /\ Len(Queue) \in Nat
    BY <1>3, LayoutApart
  <2>2. (FileMode' <=> FileMode) /\ keys' = keys /\ program' = program
    BY <1>1 DEF FileMode
  <2>3. SUFFICES ASSUME ~FileMode \/ keys = 0, NEW k \in 1 .. Len(Queue) + 1
                 PROVE  data'[Append(Queue, free)[k]].program = program
    BY <1>6, <2>1, <2>2 DEF QueueOfProgram
  <2>4. CASE k = Len(Queue) + 1
    <3>1. data'[free] = packet
      BY <1>1, <1>4 DEF ListsInv
    <3> QED
      BY <2>1, <2>3, <2>4, <3>1, <1>2
  <2>5. CASE k # Len(Queue) + 1
    <3>1. k \in 1 .. Len(Queue) /\ Append(Queue, free)[k] = Queue[k]
      BY <2>1, <2>5
    <3>2. Queue[k] \in Buffers /\ Queue[k] # free
      BY <3>1, <2>1, <1>4
    <3>3. data'[Queue[k]] = data[Queue[k]]
      BY <3>2, <1>1 DEF ListsInv
    <3> QED
      BY <3>1, <3>3, <2>3 DEF ListsInv, QueueOfProgram
  <2> QED
    BY <2>4, <2>5
<1>9. ListsInv'
  BY <1>5, <1>6, <1>7, <1>8 DEF ListsInv
<1> QED
  BY <1>1, <1>2, <1>4, <1>6, <1>9 DEF Playing

LEMMA PlaysLists ==
    ASSUME ControlInv, ListsInv, AudioTakes, head # NoBuffer
    PROVE  /\ ListsInv' /\ UNCHANGED data
           /\ Queue # <<>> /\ Queue' = Tail(Queue)
           /\ Playing = <<>> /\ Playing' = <<Queue[1]>>
<1>1. /\ playing' = head /\ head' = nxt[head] /\ UNCHANGED <<nxt, free, data, program, source, keys>>
      /\ tail' = IF nxt[head] = NoBuffer THEN NoBuffer ELSE tail
  BY DEF AudioTakes, counters
<1>2. playing = NoBuffer
  BY DEF AudioTakes, At, ControlInv, PlacesInv
<1>3. Layout(nxt, head, tail, free, NoBuffer, Queue, Free)
  BY <1>2 DEF ListsInv
<1>4. /\ Queue # <<>> /\ head \in Buffers /\ head = Queue[1]
      /\ Layout(nxt, nxt[head], IF nxt[head] = NoBuffer THEN NoBuffer ELSE tail, free, head,
                Tail(Queue), Free)
  BY <1>3, LayoutPlays, Zenon
<1>5. Layout(nxt', head', tail', free', playing', Tail(Queue), Free)
  BY <1>1, <1>4
<1>6. Queue' = Tail(Queue) /\ Free' = Free
  BY <1>5, ListsWillBe
<1>7. QueueOfProgram'
  <2>1. Queue \in Seq(Buffers) /\ Len(Queue) \in Nat
    BY <1>3, LayoutApart
  <2>2. (FileMode' <=> FileMode) /\ keys' = keys /\ program' = program /\ data' = data
    BY <1>1 DEF FileMode
  <2>3. SUFFICES ASSUME ~FileMode \/ keys = 0, NEW k \in 1 .. Len(Tail(Queue))
                 PROVE  data[Tail(Queue)[k]].program = program
    BY <1>6, <2>2 DEF QueueOfProgram
  <2>4. k + 1 \in 1 .. Len(Queue) /\ Tail(Queue)[k] = Queue[k + 1]
    BY <2>1, <1>4, HeadTailProperties
  <2> QED
    BY <2>3, <2>4 DEF ListsInv, QueueOfProgram
<1>8. Playing = <<>> /\ Playing' = <<Queue[1]>>
  <2>1. head # NoBuffer
    OBVIOUS
  <2> QED
    BY <2>1, <1>1, <1>2, <1>4 DEF Playing
<1>9. ListsInv'
  BY <1>1, <1>5, <1>6, <1>7 DEF ListsInv
<1> QED
  BY <1>1, <1>4, <1>6, <1>8, <1>9

LEMMA PutsBackLists ==
    ASSUME ControlInv, ListsInv, AudioPutsBack
    PROVE  ListsInv' /\ UNCHANGED <<Queue, data>> /\ Playing # <<>> /\ Playing' = <<>>
<1>1. /\ playing' = NoBuffer /\ nxt' = [nxt EXCEPT ![playing] = free] /\ free' = playing
      /\ UNCHANGED <<head, tail, data, program, source, keys>>
  BY DEF AudioPutsBack, counters
<1>2. playing # NoBuffer
  BY DEF AudioPutsBack, At, ControlInv, PlacesInv
<1>3. Layout(nxt, head, tail, free, playing, Queue, Free)
  BY DEF ListsInv
<1>4. Layout([nxt EXCEPT ![playing] = free], head, tail, playing, NoBuffer, Queue,
             <<playing>> \o Free)
  BY <1>2, <1>3, LayoutPutsBack, Zenon
<1>5. Layout(nxt', head', tail', free', playing', Queue, <<playing>> \o Free)
  BY <1>1, <1>4
<1>6. Queue' = Queue /\ Free' = <<playing>> \o Free
  BY <1>5, ListsWillBe
<1>7. QueueOfProgram'
  BY <1>1, <1>6 DEF ListsInv, QueueOfProgram, FileMode
<1>8. Playing # <<>> /\ Playing' = <<>>
  BY <1>1, <1>2 DEF Playing
<1>9. ListsInv'
  BY <1>1, <1>5, <1>6, <1>7 DEF ListsInv
<1> QED
  BY <1>1, <1>6, <1>8, <1>9

\* The queue is emptied, by a key press or in the end.
LEMMA FlushesLists ==
    ASSUME ControlInv, ListsInv, ChangeProgram \/ MainStops
    PROVE  ListsInv' /\ UNCHANGED <<Playing, data>> /\ Queue' = <<>>
<1>1. Layout(nxt, head, tail, free, playing, Queue, Free)
  BY DEF ListsInv
<1>2. /\ tail = NoBuffer <=> Queue = <<>>
      /\ head = NoBuffer <=> Queue = <<>>
      /\ Queue # <<>> =>
           Layout([nxt EXCEPT ![tail] = free], NoBuffer, NoBuffer, head, playing, <<>>,
                  Queue \o Free)
  BY <1>1, LayoutFlushed, Zenon
<1>3. /\ IF Queue # <<>>
         THEN /\ nxt' = [nxt EXCEPT ![tail] = free] /\ free' = head
              /\ head' = NoBuffer /\ tail' = NoBuffer
         ELSE UNCHANGED <<nxt, free, head, tail>>
      /\ UNCHANGED <<playing, data>>
  <2>1. CASE ChangeProgram
    BY <2>1, <1>2 DEF ChangeProgram
  <2>2. CASE MainStops
    BY <2>2, <1>2 DEF MainStops, ResetAudioBuffers
  <2> QED
    BY <2>1, <2>2
<1>4. \E l : Layout(nxt', head', tail', free', playing', <<>>, l)
  <2>1. CASE Queue # <<>>
    BY <2>1, <1>2, <1>3
  <2>2. CASE Queue = <<>>
    BY <2>2, <1>1, <1>3
  <2> QED
    BY <2>1, <2>2
<1>5. PICK l : Layout(nxt', head', tail', free', playing', <<>>, l)
  BY <1>4
<1>6. Queue' = <<>> /\ Free' = l
  BY <1>5, ListsWillBe
<1>7. QueueOfProgram'
  BY <1>6 DEF QueueOfProgram
<1>8. UNCHANGED Playing
  BY <1>3 DEF Playing
<1>9. ListsInv'
  BY <1>3, <1>5, <1>6, <1>7 DEF ListsInv
<1> QED
  BY <1>3, <1>6, <1>8, <1>9

LEMMA ListsStep == ControlInv /\ ListsInv /\ [Next]_vars => ListsInv'
BY WhichStep, OtherLists, QueuesLists, PlaysLists, PutsBackLists, FlushesLists

\* main.c: after every step of every thread the pointers are a layout of the
\* buffers, and what is queued is of the selected program.
THEOREM PlayerLists == Spec => []ListsInv
BY PlayerControl, ListsInit, ListsStep, PTL DEF Spec

-----------------------------------------------------------------------------
(* The properties *)

\* Every variable has the type the code gives it, and a thread holds the mutex
\* of main.c exactly in the places where the code does.
THEOREM PlayerTypes == Spec => []TypeOK
<1>1. ControlInv /\ ListsInv => TypeOK
  <2> SUFFICES ASSUME ControlInv, ListsInv PROVE TypeOK
    OBVIOUS
  <2>1. Layout(nxt, head, tail, free, playing, Queue, Free)
    BY DEF ListsInv
  <2>2. {head, tail, free, playing} \subseteq Buffers \cup {NoBuffer}
    <3>1. Queue \in Seq(Buffers) /\ Free \in Seq(Buffers)
      BY <2>1, LayoutApart
    <3>2. /\ Queue # <<>> => Queue[1] \in Buffers /\ Queue[Len(Queue)] \in Buffers
          /\ Free # <<>> => Free[1] \in Buffers
      BY <3>1
    <3> QED
      BY <2>1, <3>2 DEF Layout, Chain
  <2>3. nxt \in [Buffers -> Buffers \cup {NoBuffer}]
    BY <2>1 DEF Layout
  <2> QED
    BY <2>2, <2>3, Zenon DEF TypeOK, ControlInv, MutexInv, PlacesInv, PacketInv
<1> QED
  BY <1>1, PlayerControl, PlayerLists, PTL

\* However the threads, the keys and the interrupt interleave: no buffer is lost
\* or in two places, and what is queued is of the selected program.
THEOREM PlayerListsSound == Spec => []ListsSound
<1>1. ListsInv => ListsSound
  <2> SUFFICES ASSUME ListsInv PROVE ListsSound
    OBVIOUS
  <2>1. Layout(nxt, head, tail, free, playing, Queue, Free)
    BY DEF ListsInv
  <2>2. Len(Queue) + Len(Free) + Len(Playing) = Cardinality(Buffers)
    BY <2>1, LayoutApart DEF Taken, Playing, Size
  <2>3. SetOf(Queue) \cup SetOf(Free) \cup SetOf(Playing) = Buffers
    <3>1. /\ Queue \in Seq(Buffers) /\ Free \in Seq(Buffers)
          /\ \A b \in Buffers : \/ b = playing
                                \/ \E i \in 1 .. Len(Queue) : Queue[i] = b
                                \/ \E i \in 1 .. Len(Free) : Free[i] = b
      BY <2>1, LayoutApart
    <3>2. SetOf(Queue) \subseteq Buffers /\ SetOf(Free) \subseteq Buffers
      BY <3>1 DEF SetOf
    <3>3. SetOf(Playing) = {playing} \ {NoBuffer}
      BY DEF SetOf, Playing
    <3>4. playing \in Buffers \cup {NoBuffer} /\ NoBuffer \notin Buffers
      BY <2>1, SizeType DEF Layout, NoBuffer
    <3>5. Buffers \subseteq SetOf(Queue) \cup SetOf(Free) \cup SetOf(Playing)
      BY <3>1, <3>3, <3>4 DEF SetOf
    <3> QED
      BY <3>2, <3>3, <3>4, <3>5
  <2>4. tail = IF Queue = <<>> THEN NoBuffer ELSE Queue[Len(Queue)]
    BY <2>1 DEF Layout
  <2> QED
    BY <2>2, <2>3, <2>4 DEF ListsSound, BuffersConserved, Free, ListsInv
<1> QED
  BY <1>1, PlayerLists, PTL

-----------------------------------------------------------------------------
(* The lists are a queue *)

\* The packets in the buffers of s.
Held(s, d) == [k \in 1 .. Len(s) |-> d[s[k]]]

LEMMA HeldAppended ==
    ASSUME NEW d \in [Buffers -> Packets \cup {NoPacket}], NEW s \in Seq(Buffers),
           NEW b \in Buffers, \A k \in 1 .. Len(s) : s[k] # b, NEW x \in Packets
    PROVE  Held(Append(s, b), [d EXCEPT ![b] = x]) = Append(Held(s, d), x)
<1> DEFINE T == Packets \cup {NoPacket}
           e == [d EXCEPT ![b] = x]
           t == Append(s, b)
           u == Append(Held(s, d), x)
<1> x \in T
  OBVIOUS
<1> HIDE DEF T
<1> d \in [Buffers -> T]
  BY DEF T
<1>1. Held(s, d) \in Seq(T) /\ Len(Held(s, d)) = Len(s) /\ Len(s) \in Nat
  BY DEF Held
<1>2. /\ u \in Seq(T) /\ Len(u) = Len(s) + 1 /\ u[Len(s) + 1] = x
      /\ \A k \in 1 .. Len(s) : u[k] = d[s[k]]
  BY <1>1 DEF Held
<1>3. /\ Len(t) = Len(s) + 1 /\ t[Len(s) + 1] = b
      /\ \A k \in 1 .. Len(s) : t[k] = s[k]
  BY <1>1
<1>4. e[b] = x /\ \A k \in 1 .. Len(s) : e[s[k]] = d[s[k]]
  OBVIOUS
<1> HIDE DEF e, t, u
<1>5. \A k \in 1 .. Len(s) + 1 : e[t[k]] = u[k]
  <2> TAKE k \in 1 .. Len(s) + 1
  <2>1. CASE k = Len(s) + 1
    BY <2>1, <1>2, <1>3, <1>4
  <2>2. CASE k # Len(s) + 1
    <3>1. k \in 1 .. Len(s)
      BY <2>2, <1>1
    <3> QED
      BY <3>1, <1>2, <1>3, <1>4
  <2> QED
    BY <2>1, <2>2
<1>6. u = [k \in 1 .. Len(s) + 1 |-> u[k]]
  BY <1>1, <1>2
<1>7. Held(t, e) = u
  BY <1>3, <1>5, <1>6 DEF Held
<1> QED
  BY <1>7 DEF e, t, u

LEMMA HeldTaken ==
    ASSUME NEW T, NEW d \in [Buffers -> T], NEW s \in Seq(Buffers), s # <<>>
    PROVE  /\ Held(s, d) # <<>> /\ Head(Held(s, d)) = d[s[1]]
           /\ Held(Tail(s), d) = Tail(Held(s, d))
<1>1. /\ Tail(s) \in Seq(Buffers) /\ Len(Tail(s)) = Len(s) - 1 /\ Len(s) \in Nat \ {0}
      /\ \A k \in 1 .. Len(s) - 1 : Tail(s)[k] = s[k + 1]
  BY HeadTailProperties
<1> DEFINE h == Held(s, d)
           r == Tail(s)
           v == Tail(h)
<1>2. h \in Seq(T) /\ Len(h) = Len(s) /\ \A k \in 1 .. Len(s) : h[k] = d[s[k]]
  BY <1>1 DEF Held
<1> HIDE DEF h
<1>3. h # <<>> /\ Head(h) = d[s[1]]
  BY <1>1, <1>2
<1>4. /\ v \in Seq(T) /\ Len(v) = Len(s) - 1
      /\ \A k \in 1 .. Len(s) - 1 : v[k] = h[k + 1]
  BY <1>1, <1>2, <1>3, HeadTailProperties
<1> HIDE DEF r, v
<1>5. \A k \in 1 .. Len(s) - 1 : d[r[k]] = v[k]
  <2> TAKE k \in 1 .. Len(s) - 1
  <2>1. k + 1 \in 1 .. Len(s) /\ r[k] = s[k + 1]
    BY <1>1 DEF r
  <2> QED
    BY <2>1, <1>2, <1>4
<1>6. v = [k \in 1 .. Len(s) - 1 |-> v[k]]
  BY <1>1, <1>4
<1>7. Held(r, d) = v
  BY <1>1, <1>5, <1>6 DEF Held, r
<1> QED
  BY <1>3, <1>7 DEF h, r, v

\* The player's lists are the abstract queue: every step of every thread is one of
\* Playback or leaves it as it is.
THEOREM PlayerImplementsPlayback == Spec => ImplementsPlayback
<1> USE DEF PB!vars
<1>1. Init => PB!Init
  <2> SUFFICES ASSUME Init PROVE PB!Init
    OBVIOUS
  <2>1. Queue = <<>>
    BY LayoutInit, ListsAre
  <2>2. Playing = <<>>
    BY DEF Init, Playing
  <2> QED
    BY <2>1, <2>2 DEF PB!Init
<1>2. ASSUME ControlInv, ListsInv, [Next]_vars PROVE [PB!Next]_PB!vars
  <2> DEFINE queue == Held(Queue, data)
             sounding == Held(Playing, data)
  <2>1. /\ data \in [Buffers -> Packets \cup {NoPacket}] /\ Queue \in Seq(Buffers)
        /\ Layout(nxt, head, tail, free, playing, Queue, Free)
    <3>1. Layout(nxt, head, tail, free, playing, Queue, Free)
      BY <1>2 DEF ListsInv
    <3>2. Queue \in Seq(Buffers)
      BY <3>1, LayoutApart, Zenon
    <3> QED
      BY <3>1, <3>2, <1>2 DEF ListsInv
  <2>2. Playing \in Seq(Buffers) /\ Len(Playing) = Len(Taken(playing))
    BY <2>1 DEF Layout, Playing, Taken
  <2>3. Len(queue) = Len(Queue) /\ Len(sounding) = Len(Playing)
    BY <2>1, <2>2 DEF Held
  <2>4. CASE OtherStep
    BY <2>4, <1>2, OtherLists
  <2>5. CASE PushQueues
    <3>1. /\ UNCHANGED Playing /\ free \in Buffers /\ playing # free /\ \A k \in 1 .. Len(Queue) : Queue[k] # free
          /\ Queue' = Append(Queue, free) /\ data' = [data EXCEPT ![free] = packet]
          /\ Len(Queue) + Len(Taken(playing)) < Size /\ packet \in Packets
      BY <2>5, <1>2, QueuesLists
    <3>2. queue' = Append(queue, packet)
      <4>1. /\ data \in [Buffers -> Packets \cup {NoPacket}] /\ packet \in Packets
            /\ Queue \in Seq(Buffers) /\ free \in Buffers
            /\ \A k \in 1 .. Len(Queue) : Queue[k] # free
        BY <3>1, <2>1
      <4>2. Held(Append(Queue, free), [data EXCEPT ![free] = packet])
              = Append(Held(Queue, data), packet)
        BY <4>1, HeldAppended
      <4> QED
        BY <3>1, <4>2
    <3>3. sounding' = sounding
      <4>1. \A k \in 1 .. Len(Playing) : data'[Playing[k]] = data[Playing[k]]
        <5>1. \A k \in 1 .. Len(Playing) : Playing[k] = playing
          BY DEF Playing
        <5>2. Playing \in Seq(Buffers) /\ playing # free
          BY <2>2, <3>1
        <5>3. \A b \in Buffers \ {free} : data'[b] = data[b]
          BY <2>1, <3>1
        <5> QED
          BY <5>1, <5>2, <5>3
      <4> QED
        BY <4>1, <3>1 DEF Held
    <3>4. Len(queue) + Len(sounding) < Cardinality(Buffers)
      BY <3>1, <2>2, <2>3 DEF Size
    <3>5. packet \in [program : Programs, number : 1 .. MaxPackets]
      BY <3>1 DEF Packets
    <3> QED
      BY <3>2, <3>3, <3>4, <3>5 DEF PB!Next, PB!Accept, Held
  <2>6. CASE AudioTakes /\ head # NoBuffer
    <3>1. /\ UNCHANGED data /\ Queue # <<>> /\ Queue' = Tail(Queue)
          /\ Playing = <<>> /\ Playing' = <<Queue[1]>>
      BY <2>6, <1>2, PlaysLists
    <3>2. queue # <<>> /\ Head(queue) = data[Queue[1]] /\ queue' = Tail(queue)
      BY <3>1, <2>1, HeldTaken
    <3>3. sounding = <<>> /\ sounding' = <<data[Queue[1]]>>
      BY <3>1 DEF Held
    <3>4. PB!Play
      BY <3>2, <3>3 DEF PB!Play, Held
    <3> QED
      BY <3>4 DEF PB!Next
  <2>7. CASE AudioPutsBack
    <3>1. UNCHANGED <<Queue, data>> /\ Playing # <<>> /\ Playing' = <<>>
      BY <2>7, <1>2, PutsBackLists
    <3>2. sounding # <<>> /\ sounding' = <<>> /\ queue' = queue
      BY <3>1, <2>2 DEF Held
    <3>3. PB!Played
      BY <3>2 DEF PB!Played, Held
    <3> QED
      BY <3>3 DEF PB!Next
  <2>8. CASE ChangeProgram \/ MainStops
    <3>1. UNCHANGED <<Playing, data>> /\ Queue' = <<>>
      BY <2>8, <1>2, FlushesLists
    <3>2. queue' = <<>> /\ sounding' = sounding
      BY <3>1 DEF Held
    <3>3. PB!Flush
      BY <3>2 DEF PB!Flush, Held
    <3> QED
      BY <3>3 DEF PB!Next
  <2> QED
    BY <2>4, <2>5, <2>6, <2>7, <2>8, <1>2, WhichStep
<1> QED
  BY <1>1, <1>2, PlayerControl, PlayerLists, PTL DEF Spec, ImplementsPlayback, PB!Spec
=============================================================================
