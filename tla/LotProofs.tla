------------------------------ MODULE LotProofs ------------------------------
(***************************************************************************)
(* Proofs about LotFiles, for every number of ports, slots, files, versions *)
(* and fragments, and for packets of the ports in any order.               *)
(***************************************************************************)
EXTENDS LotFiles, WellFoundedInduction, TLAPS

-----------------------------------------------------------------------------
(* Smallest elements, and the slot of a file *)

LEMMA SmallestExists ==
    ASSUME NEW S \in SUBSET Nat, S # {}
    PROVE  \E x \in S : \A y \in S : x <= y
<1>1. PICK x \in S : \A y \in S : ~(<<y, x>> \in OpToRel(<, Nat))
  BY NatLessThanWellFounded, WFMin
<1>2. \A y \in S : ~(y < x)
  BY <1>1 DEF OpToRel
<1> QED
  BY <1>2

LEMMA LowestIn ==
    ASSUME NEW S \in SUBSET Nat, S # {}
    PROVE  Lowest(S) \in S
BY SmallestExists DEF Lowest

\* Some slot has the smallest timestamp, and the first of those is Oldest.
LEMMA OldestIsLeast ==
    ASSUME NEW p, \A i \in Slot : files[p][i].timestamp \in Nat
    PROVE  /\ Oldest(p) \in Slot
           /\ \A j \in Slot : files[p][Oldest(p)].timestamp <= files[p][j].timestamp
<1> DEFINE T(i) == files[p][i].timestamp
           Stamps == {T(i) : i \in Slot}
<1>1. Slot \subseteq Nat /\ 1 \in Slot
  BY LotAssumption DEF Slot
<1>2. Stamps \subseteq Nat /\ Stamps # {}
  BY <1>1
<1>3. PICK t \in Stamps : \A s \in Stamps : t <= s
  BY <1>2, SmallestExists
<1> DEFINE First == {i \in Slot : T(i) = t}
<1>4. First \subseteq Nat /\ First # {}
  BY <1>1
<1>5. PICK i \in First : \A j \in First : i <= j
  BY <1>4, SmallestExists
<1>6. \A j \in Slot : T(i) < T(j) \/ (T(i) = T(j) /\ i <= j)
  BY <1>1, <1>2, <1>3, <1>5
<1>7. \A j \in Slot :
         \/ T(Oldest(p)) < T(j)
         \/ T(Oldest(p)) = T(j) /\ Oldest(p) <= j
  BY <1>5, <1>6 DEF Oldest
<1>8. Oldest(p) \in Slot
  BY <1>5, <1>6 DEF Oldest
<1> QED
  BY <1>7, <1>8

-----------------------------------------------------------------------------
(* Types, and when files were received *)

Past == [received : Nat, seen : SUBSET Versions,
         told : Versions \cup {NoVersion}, cut : BOOLEAN]

Typed ==
    /\ version \in [Ports -> [Lots -> Versions]]
    /\ begun \in [Ports -> [Lots -> BOOLEAN]]
    /\ files \in [Ports -> [Slot -> File]]
    /\ past \in [Ports -> [Slot -> Past]]
    /\ lot_lru_counter \in Nat \ {0}

\* Every packet has a number of its own, and the timestamp of a file is the
\* number of its last packet or, if that one changed the header, one more.
Stamped ==
    \A p \in Ports : \A i \in Used(p) :
        /\ files[p][i].timestamp \in {past[p][i].received, past[p][i].received + 1}
        /\ past[p][i].received < lot_lru_counter

\* What the receiver knows of the version a file is of.
Known ==
    \A p \in Ports : \A i \in Used(p) :
        LET f == files[p][i]  h == past[p][i]
        IN  /\ f.lot \in Lots
            /\ f.header = NoVersion => h.seen = {}
            /\ \A v \in h.seen : v <= version[p][f.lot]
            /\ version[p][f.lot] \in h.seen => f.header = version[p][f.lot]
            /\ \A q \in Seqs : f.fragments[q] \in h.seen => f.fragments[q] = f.header

\* Nothing is known of a slot that is not used.
UnusedIsNew ==
    \A p \in Ports : \A i \in Slot \ Used(p) : past[p][i] = NoPast

LotInv == Typed /\ Stamped /\ OneFilePerLot /\ Known /\ UnusedIsNew

LEMMA Versioned ==
    /\ Versions \subseteq Nat \ {0} /\ NoVersion \notin Versions
    /\ \A v \in Versions : Parts[v] \in Nat
BY LotAssumption DEF Versions, NoVersion

\* The slot of a file exists; if no slot holds the file it is a free one, or
\* all are used and it is the oldest.
LEMMA SlotForFile ==
    ASSUME Typed, NEW p \in Ports, NEW l \in Lots
    PROVE  LET i == SlotFor(p, l)
           IN  /\ i \in Slot
               /\ Holding(p, l) # {} => i \in Holding(p, l)
               /\ Holding(p, l) = {} /\ i \in Used(p) =>
                     \A j \in Slot : files[p][i].timestamp <= files[p][j].timestamp
<1>1. Slot \subseteq Nat /\ Used(p) \subseteq Slot /\ Holding(p, l) \subseteq Used(p)
  BY LotAssumption DEF Slot, Used, Holding
<1>2. CASE Holding(p, l) # {}
  BY <1>1, <1>2, LowestIn DEF SlotFor
<1>3. CASE Holding(p, l) = {} /\ Used(p) # Slot
  <2>1. Lowest(Slot \ Used(p)) \in Slot \ Used(p)
    BY <1>1, <1>3, LowestIn
  <2> QED
    BY <1>3, <2>1 DEF SlotFor
<1>4. CASE Holding(p, l) = {} /\ Used(p) = Slot
  <2>1. \A i \in Slot : files[p][i].timestamp \in Nat
    BY DEF Typed, File
  <2> QED
    BY <1>4, <2>1, OldestIsLeast DEF SlotFor
<1> QED
  BY <1>2, <1>3, <1>4

-----------------------------------------------------------------------------
(* The file a packet leaves behind *)

\* The history that Keep starts from.
PastOf(p, l) == IF Holding(p, l) = {} THEN NoPast ELSE past[p][SlotFor(p, l)]

\* What every packet makes of the file it finds.
Fits(p, l, f, seen) ==
    /\ f \in File /\ f.lot = l
    /\ f.timestamp \in {lot_lru_counter, lot_lru_counter + 1}
    /\ f.header = NoVersion => seen = {}
    /\ \A v \in seen : v <= version[p][l]
    /\ version[p][l] \in seen => f.header = version[p][l]
    /\ \A q \in Seqs : f.fragments[q] \in seen => f.fragments[q] = f.header

LEMMA TouchedFits ==
    ASSUME LotInv, NEW p \in Ports, NEW l \in Lots
    PROVE  /\ Fits(p, l, Touched(p, l), PastOf(p, l).seen)
           /\ PastOf(p, l) \in Past
           /\ Touched(p, l).timestamp = lot_lru_counter
<1>1. CASE Holding(p, l) = {}
  <2>1. Touched(p, l) = [timestamp |-> lot_lru_counter, lot |-> l, header |-> NoVersion,
                         fragments |-> [q \in Seqs |-> NoVersion]]
    BY <1>1 DEF Touched, NewFile, NoFile
  <2>2. PastOf(p, l) = NoPast /\ NoPast \in Past /\ NoPast.seen = {}
    BY <1>1 DEF PastOf, NoPast, Past
  <2> QED
    BY <2>1, <2>2 DEF Fits, File, LotInv, Typed
<1>2. CASE Holding(p, l) # {}
  <2> DEFINE i == SlotFor(p, l)
  <2>1. i \in Used(p) /\ i \in Slot /\ files[p][i].lot = l
    BY <1>2, SlotForFile DEF LotInv, Holding, Used
  <2>2. Touched(p, l) = [files[p][i] EXCEPT !.timestamp = lot_lru_counter]
    BY <1>2 DEF Touched
  <2>3. PastOf(p, l) = past[p][i]
    BY <1>2 DEF PastOf
  <2> HIDE DEF i
  <2>4. files[p][i] \in File /\ past[p][i] \in Past /\ lot_lru_counter \in Nat
    BY <2>1 DEF LotInv, Typed
  <2>5. Touched(p, l) = [timestamp |-> lot_lru_counter, lot |-> l,
                         header |-> files[p][i].header,
                         fragments |-> files[p][i].fragments]
    BY <2>1, <2>2, <2>4 DEF File
  <2> QED
    BY <2>1, <2>3, <2>4, <2>5 DEF Fits, File, LotInv, Known
<1> QED
  BY <1>1, <1>2

\* A header makes the file one of the version on air.
LEMMA HeaderFits ==
    ASSUME LotInv, NEW p \in Ports, NEW l \in Lots, NEW f, NEW seen \in SUBSET Versions,
           Fits(p, l, f, seen), f.timestamp = lot_lru_counter
    PROVE  LET v == version[p][l]  g == WithHeader(f, v)
           IN  Fits(p, l, g, seen \cup {v}) /\ g.header = v
<1> DEFINE v == version[p][l]
           g == WithHeader(f, v)
<1>1. v \in Versions /\ lot_lru_counter \in Nat
  BY DEF LotInv, Typed
<1>2. f \in File /\ f.lot = l
  BY DEF Fits
<1>3. /\ v \in Nat /\ v # NoVersion /\ NoVersion \notin seen
      /\ \A w \in seen : w <= v
      /\ v \in seen => f.header = v
      /\ f.header = NoVersion => seen = {}
      /\ \A q \in Seqs : f.fragments[q] \in seen => f.fragments[q] = f.header
  BY <1>1, Versioned DEF Fits
<1>4. Fits(p, l, g, seen \cup {v}) /\ g.header = v
  <2> HIDE DEF v
  <2>1. CASE f.header \in {NoVersion, v}
    <3>1. g = [timestamp |-> f.timestamp, lot |-> f.lot, header |-> v,
               fragments |-> f.fragments]
      BY <1>2, <2>1 DEF WithHeader, File
    <3> HIDE DEF g
    <3>2. g \in File
      BY <1>1, <1>2, <3>1 DEF File
    <3>3. \A q \in Seqs : g.fragments[q] \in seen \cup {v} => g.fragments[q] = v
      BY <1>3, <2>1, <3>1
    <3> QED
      BY <1>2, <1>3, <3>1, <3>2, <3>3 DEF Fits, v
  <2>2. CASE f.header \notin {NoVersion, v}
    <3>1. g = [timestamp |-> lot_lru_counter + 1, lot |-> l, header |-> v,
               fragments |-> [q \in Seqs |-> NoVersion]]
      BY <1>2, <2>2 DEF WithHeader, NewFile, NoFile
    <3> HIDE DEF g
    <3>2. g \in File
      BY <1>1, <1>2, <3>1 DEF File, Fits
    <3>3. \A q \in Seqs : g.fragments[q] \notin seen \cup {v}
      BY <1>3, <3>1
    <3> QED
      BY <1>2, <1>3, <3>1, <3>2, <3>3 DEF Fits, v
  <2> QED
    BY <2>1, <2>2
<1> QED
  BY <1>4

\* A fragment of the version on air goes well with what is known.
LEMMA FragmentFits ==
    ASSUME LotInv, NEW p \in Ports, NEW l \in Lots, NEW f, NEW seen \in SUBSET Versions,
           NEW q \in Seqs, Fits(p, l, f, seen)
    PROVE  LET g == WithFragment(f, q, version[p][l])
           IN  Fits(p, l, g, seen) /\ g.header = f.header
<1> DEFINE v == version[p][l]
           g == WithFragment(f, q, v)
<1>1. f \in File /\ v \in Versions
  BY DEF Fits, LotInv, Typed
<1>2. Fits(p, l, g, seen) /\ g.header = f.header
  <2>1. CASE f.fragments[q] # NoVersion
    BY <2>1 DEF WithFragment
  <2>2. CASE f.fragments[q] = NoVersion
    <3>1. g = [timestamp |-> f.timestamp, lot |-> f.lot, header |-> f.header,
               fragments |-> [f.fragments EXCEPT ![q] = v]]
      BY <1>1, <2>2 DEF WithFragment, File
    <3>2. f.fragments \in [Seqs -> Versions \cup {NoVersion}]
      BY <1>1 DEF File
    <3>3. \A r \in Seqs : g.fragments[r] = IF r = q THEN v ELSE f.fragments[r]
      BY <3>1, <3>2
    <3> HIDE DEF g
    <3>4. g \in File
      BY <1>1, <3>1, <3>2 DEF File
    <3>5. \A r \in Seqs : g.fragments[r] \in seen => g.fragments[r] = g.header
      BY <3>1, <3>3 DEF Fits
    <3> QED
      BY <3>1, <3>4, <3>5 DEF Fits
  <2> QED
    BY <2>1, <2>2
<1> QED
  BY <1>2
-----------------------------------------------------------------------------
(* What a packet does to all files *)

\* The history that Keep leaves.
PastAfter(p, l, g, isNew, hdr, cut) ==
    LET h == PastOf(p, l)  tell == isNew /\ Complete(g) /\ ~cut
    IN  [received |-> lot_lru_counter,
         seen |-> IF hdr THEN h.seen \cup {g.header} ELSE h.seen,
         told |-> IF tell THEN g.header ELSE h.told,
         cut |-> h.cut \/ cut]

\* Only the slot of the packet's file changes.
LEMMA KeepEffect ==
    ASSUME LotInv, NEW p \in Ports, NEW l \in Lots, NEW g,
           NEW isNew, NEW hdr, NEW cut,
           Keep(p, l, g, isNew, hdr, cut)
    PROVE  LET i == SlotFor(p, l)  h == PastAfter(p, l, g, isNew, hdr, cut)
           IN  /\ i \in Slot
               /\ lot_lru_counter' = lot_lru_counter + 1
               /\ files' = [files EXCEPT ![p][i] = g]
               /\ past' = [past EXCEPT ![p][i] = h]
               /\ files'[p][i] = g /\ past'[p][i] = h
               /\ \A a \in Ports, j \in Slot :
                     a # p \/ j # i =>
                        files'[a][j] = files[a][j] /\ past'[a][j] = past[a][j]
<1> DEFINE i == SlotFor(p, l)
           h == PastAfter(p, l, g, isNew, hdr, cut)
<1>1. i \in Slot
  BY SlotForFile DEF LotInv
<1>2. /\ lot_lru_counter' = lot_lru_counter + 1
      /\ files' = [files EXCEPT ![p][i] = g]
      /\ past' = [past EXCEPT ![p][i] = h]
  BY DEF Keep, PastOf, PastAfter
<1>3. /\ files \in [Ports -> [Slot -> File]]
      /\ past \in [Ports -> [Slot -> Past]]
  BY DEF LotInv, Typed
<1> HIDE DEF i, h
<1>4. files'[p][i] = g /\ past'[p][i] = h
  BY <1>1, <1>2, <1>3
<1>5. \A a \in Ports, j \in Slot :
         a # p \/ j # i => files'[a][j] = files[a][j] /\ past'[a][j] = past[a][j]
  BY <1>1, <1>2, <1>3
<1> QED
  BY <1>1, <1>2, <1>4, <1>5 DEF i, h

\* What Keep is given: the file and the history of a packet that was handled.
Handled(p, l, g, isNew, hdr) ==
    LET h == PastOf(p, l)
        seen == IF hdr THEN h.seen \cup {g.header} ELSE h.seen
    IN  /\ Fits(p, l, g, seen)
        /\ hdr => g.header \in Versions
        /\ isNew <=> \/ g.header # Touched(p, l).header
                     \/ g.fragments # Touched(p, l).fragments

LEMMA KeepInv ==
    ASSUME LotInv, NEW p \in Ports, NEW l \in Lots, NEW g,
           NEW isNew \in BOOLEAN, NEW hdr \in BOOLEAN, NEW cut \in BOOLEAN,
           Keep(p, l, g, isNew, hdr, cut), Handled(p, l, g, isNew, hdr),
           version' = version, begun' \in [Ports -> [Lots -> BOOLEAN]]
    PROVE  LotInv'
<1> DEFINE i == SlotFor(p, l)
           h == PastAfter(p, l, g, isNew, hdr, cut)
           seen == IF hdr THEN PastOf(p, l).seen \cup {g.header} ELSE PastOf(p, l).seen
<1>1. /\ i \in Slot
      /\ lot_lru_counter' = lot_lru_counter + 1
      /\ files' = [files EXCEPT ![p][i] = g]
      /\ past' = [past EXCEPT ![p][i] = h]
      /\ files'[p][i] = g /\ past'[p][i] = h
      /\ \A a \in Ports, j \in Slot :
            a # p \/ j # i =>
               files'[a][j] = files[a][j] /\ past'[a][j] = past[a][j]
  BY KeepEffect
<1>2. Fits(p, l, g, seen) /\ (hdr => g.header \in Versions)
  BY DEF Handled
<1>3. PastOf(p, l) \in Past
  BY TouchedFits
<1>4. h.received = lot_lru_counter /\ h.seen = seen
  BY DEF PastAfter
<1>5. h \in Past
  <2>1. g.header \in Versions \cup {NoVersion}
    BY <1>2 DEF Fits, File
  <2>2. seen \in SUBSET Versions
    BY <1>2, <1>3 DEF Past
  <2>3. lot_lru_counter \in Nat
    BY DEF LotInv, Typed
  <2>4. PastOf(p, l).told \in Versions \cup {NoVersion} /\ PastOf(p, l).cut \in BOOLEAN
    BY <1>3 DEF Past
  <2> QED
    BY <2>1, <2>2, <2>3, <2>4 DEF PastAfter, Past
<1>6. g \in File /\ g.lot = l
  BY <1>2 DEF Fits
<1>7. lot_lru_counter \in Nat \ {0}
  BY DEF LotInv, Typed
<1>8. g.timestamp # 0 /\ g.timestamp \in Nat
  BY <1>2, <1>7 DEF Fits
<1> HIDE DEF i, h, seen
<1>9. Typed'
  <2>1. files' \in [Ports -> [Slot -> File]]
    BY <1>1, <1>6 DEF LotInv, Typed
  <2>2. past' \in [Ports -> [Slot -> Past]]
    BY <1>1, <1>5 DEF LotInv, Typed
  <2> QED
    BY <1>1, <1>7, <2>1, <2>2 DEF LotInv, Typed
<1>10. \A a \in Ports, j \in Slot :
          j \in Used(a)' <=> j \in Used(a) \/ (a = p /\ j = i)
  BY <1>1, <1>8 DEF Used
<1>11. Stamped'
  <2> SUFFICES ASSUME NEW a \in Ports, NEW j \in Used(a)'
               PROVE  /\ files'[a][j].timestamp \in
                            {past'[a][j].received, past'[a][j].received + 1}
                      /\ past'[a][j].received < lot_lru_counter'
    BY DEF Stamped
  <2>1. j \in Slot
    BY DEF Used
  <2>2. CASE a = p /\ j = i
    BY <1>1, <1>2, <1>4, <1>7, <2>2 DEF Fits
  <2>3. CASE ~(a = p /\ j = i)
    <3>1. j \in Used(a) /\ files'[a][j] = files[a][j] /\ past'[a][j] = past[a][j]
      BY <1>1, <1>10, <2>1, <2>3
    <3>2. past[a][j].received \in Nat
      BY <2>1 DEF LotInv, Typed, Past
    <3> QED
      BY <1>1, <1>7, <3>1, <3>2 DEF LotInv, Stamped
  <2> QED
    BY <2>2, <2>3
<1>12. OneFilePerLot'
  <2> SUFFICES ASSUME NEW a \in Ports, NEW j \in Used(a)', NEW k \in Used(a)',
                      files'[a][j].lot = files'[a][k].lot
               PROVE  j = k
    BY DEF OneFilePerLot
  <2>1. j \in Slot /\ k \in Slot
    BY DEF Used
  <2>2. ASSUME NEW m \in Used(p), files[p][m].lot = l
        PROVE  m = i
    <3>1. m \in Holding(p, l)
      BY <2>2 DEF Holding
    <3>2. i \in Holding(p, l)
      BY <3>1, SlotForFile DEF LotInv, i
    <3> QED
      BY <2>2, <3>2 DEF LotInv, OneFilePerLot, Holding
  <2> QED
    BY <1>1, <1>6, <1>10, <2>1, <2>2 DEF LotInv, OneFilePerLot
<1>13. Known'
  <2> SUFFICES ASSUME NEW a \in Ports, NEW j \in Used(a)'
               PROVE  LET f == files'[a][j]  b == past'[a][j]
                      IN  /\ f.lot \in Lots
                          /\ f.header = NoVersion => b.seen = {}
                          /\ \A v \in b.seen : v <= version'[a][f.lot]
                          /\ version'[a][f.lot] \in b.seen => f.header = version'[a][f.lot]
                          /\ \A q \in Seqs : f.fragments[q] \in b.seen =>
                                f.fragments[q] = f.header
    BY DEF Known
  <2>1. j \in Slot
    BY DEF Used
  <2>2. CASE a = p /\ j = i
    BY <1>1, <1>2, <1>4, <1>6, <2>2 DEF Fits
  <2>3. CASE ~(a = p /\ j = i)
    <3>1. j \in Used(a) /\ files'[a][j] = files[a][j] /\ past'[a][j] = past[a][j]
      BY <1>1, <1>10, <2>1, <2>3
    <3> QED
      BY <3>1 DEF LotInv, Known
  <2> QED
    BY <2>2, <2>3
<1>14. UnusedIsNew'
  BY <1>1, <1>10 DEF LotInv, UnusedIsNew
<1> QED
  BY <1>9, <1>11, <1>12, <1>13, <1>14 DEF LotInv

\* A file that a packet completed is reported, and one that was complete before
\* had been.
LEMMA KeepReports ==
    ASSUME LotInv, CompleteReported, NEW p \in Ports, NEW l \in Lots, NEW g,
           NEW isNew \in BOOLEAN, NEW hdr \in BOOLEAN, NEW cut \in BOOLEAN,
           Keep(p, l, g, isNew, hdr, cut), Handled(p, l, g, isNew, hdr)
    PROVE  CompleteReported'
<1> DEFINE i == SlotFor(p, l)
           h == PastAfter(p, l, g, isNew, hdr, cut)
<1>1. /\ i \in Slot
      /\ files'[p][i] = g /\ past'[p][i] = h
      /\ \A a \in Ports, j \in Slot :
            a # p \/ j # i =>
               files'[a][j] = files[a][j] /\ past'[a][j] = past[a][j]
  BY KeepEffect
<1>2. ASSUME Complete(g)
      PROVE  h.told = g.header \/ h.cut
  <2>1. CASE isNew \/ cut
    BY <1>2, <2>1 DEF PastAfter
  <2>2. CASE ~isNew /\ ~cut
    <3>1. Complete(Touched(p, l)) /\ g.header = Touched(p, l).header
      BY <1>2, <2>2 DEF Handled, Complete
    <3>2. Holding(p, l) # {}
      <4>1. Holding(p, l) = {} => Touched(p, l).header = NoVersion
        BY DEF Touched, NewFile, NoFile
      <4> QED
        BY <3>1, <4>1 DEF Complete
    <3>3. Touched(p, l) = [files[p][i] EXCEPT !.timestamp = lot_lru_counter]
      BY <3>2 DEF Touched
    <3>4. files[p][i] \in File
      BY <1>1 DEF LotInv, Typed
    <3> HIDE DEF i
    <3>5. /\ Touched(p, l).header = files[p][i].header
          /\ Touched(p, l).fragments = files[p][i].fragments
      BY <3>3, <3>4 DEF File
    <3>6. Complete(files[p][i])
      BY <3>1, <3>5 DEF Complete
    <3>7. past[p][i].told = files[p][i].header \/ past[p][i].cut
      BY <1>1, <3>6 DEF CompleteReported
    <3>8. PastOf(p, l) = past[p][i]
      BY <3>2 DEF PastOf, i
    <3> QED
      BY <2>2, <3>1, <3>5, <3>7, <3>8 DEF PastAfter
  <2> QED
    BY <2>1, <2>2
<1> HIDE DEF i, h
<1> QED
  <2> SUFFICES ASSUME NEW a \in Ports, NEW j \in Slot, Complete(files'[a][j])
               PROVE  past'[a][j].told = files'[a][j].header \/ past'[a][j].cut
    BY DEF CompleteReported, Complete
  <2> QED
    BY <1>1, <1>2 DEF CompleteReported

\* Keep makes room only in a full port, and at the cost of the oldest file.
LEMMA KeepEvicts ==
    ASSUME LotInv, NEW p \in Ports, NEW l \in Lots, NEW g,
           NEW isNew \in BOOLEAN, NEW hdr \in BOOLEAN, NEW cut \in BOOLEAN,
           Keep(p, l, g, isNew, hdr, cut), Handled(p, l, g, isNew, hdr)
    PROVE  OldestMakesRoom
<1> SUFFICES ASSUME NEW a \in Ports, NEW i \in Used(a), NEW j \in Used(a),
                    files'[a][i].lot # files[a][i].lot,
                    past[a][j].received < past[a][i].received
             PROVE  past[a][i].received = past[a][j].received + 1
  BY DEF OldestMakesRoom
<1>1. i \in Slot /\ j \in Slot
  BY DEF Used
<1>2. a = p /\ i = SlotFor(p, l) /\ files'[p][i] = g
  BY <1>1, KeepEffect
<1>3. g.lot = l
  BY DEF Handled, Fits
<1>4. Holding(p, l) = {}
  BY <1>2, <1>3, SlotForFile DEF LotInv, Holding
<1>5. files[a][i].timestamp <= files[a][j].timestamp
  BY <1>1, <1>2, <1>4, SlotForFile DEF LotInv
<1>6. /\ past[a][i].received \in Nat /\ past[a][j].received \in Nat
  BY <1>1 DEF LotInv, Typed, Past
<1>7. /\ past[a][i].received <= files[a][i].timestamp
      /\ files[a][j].timestamp <= past[a][j].received + 1
  BY <1>6 DEF LotInv, Stamped
<1>8. files[a][i].timestamp \in Nat /\ files[a][j].timestamp \in Nat
  BY <1>1 DEF LotInv, Typed, File
<1> QED
  BY <1>5, <1>6, <1>7, <1>8

-----------------------------------------------------------------------------
(* The steps *)

\* No file anywhere, as at the start and after a changed table.
Emptied ==
    /\ version \in [Ports -> [Lots -> Versions]]
    /\ begun \in [Ports -> [Lots -> BOOLEAN]]
    /\ lot_lru_counter \in Nat \ {0}
    /\ files = EmptyFiles
    /\ past = [p \in Ports |-> [i \in Slot |-> NoPast]]

LEMMA EmptiedInv == Emptied => LotInv /\ CompleteReported
<1> SUFFICES ASSUME Emptied PROVE LotInv /\ CompleteReported
  OBVIOUS
<1>1. NoFile \in File /\ NoPast \in Past
  BY DEF NoFile, NoPast, File, Past
<1>2. files = [p \in Ports |-> [i \in Slot |-> NoFile]]
  BY DEF Emptied, EmptyFiles
<1>3. past = [p \in Ports |-> [i \in Slot |-> NoPast]]
  BY DEF Emptied
<1>4. \A p \in Ports : Used(p) = {}
  BY <1>2 DEF Used, NoFile
<1>5. \A p \in Ports, i \in Slot : ~Complete(files[p][i])
  BY <1>2 DEF Complete, NoFile
<1>6. Typed
  BY <1>1, <1>2, <1>3 DEF Emptied, Typed
<1>7. UnusedIsNew
  BY <1>3 DEF UnusedIsNew
<1> QED
  BY <1>4, <1>5, <1>6, <1>7 DEF LotInv, Stamped, OneFilePerLot, Known, CompleteReported

LEMMA InitEmptied == Init => Emptied
<1>1. 1 \in Versions
  BY LotAssumption DEF Versions
<1> QED
  BY <1>1 DEF Init, Emptied

LEMMA PacketStep ==
    ASSUME LotInv, NEW p \in Ports, NEW l \in Lots, NEW q \in Seqs,
           NEW hdr \in BOOLEAN, NEW cut \in BOOLEAN,
           Packet(p, l, q, hdr, cut), Declared(p)
    PROVE  /\ version' = version
           /\ begun' \in [Ports -> [Lots -> BOOLEAN]]
           /\ \E isNew \in BOOLEAN : \E g :
                 Keep(p, l, g, isNew, hdr, cut) /\ Handled(p, l, g, isNew, hdr)
<1> DEFINE v == version[p][l]
           found == Touched(p, l)
           f == IF hdr THEN WithHeader(found, v) ELSE found
           g == IF cut THEN f ELSE WithFragment(f, q, v)
           seen == IF hdr THEN PastOf(p, l).seen \cup {v} ELSE PastOf(p, l).seen
<1>1. version' = version /\ begun' \in [Ports -> [Lots -> BOOLEAN]]
  BY DEF Packet, LotInv, Typed
<1>2. v \in Versions
  BY DEF LotInv, Typed
<1>3. /\ Fits(p, l, found, PastOf(p, l).seen) /\ PastOf(p, l).seen \in SUBSET Versions
      /\ found.timestamp = lot_lru_counter
  BY TouchedFits DEF Past
<1>4. Fits(p, l, f, seen) /\ (hdr => f.header = v) /\ seen \in SUBSET Versions
  <2>1. CASE hdr
    BY <1>2, <1>3, <2>1, HeaderFits
  <2>2. CASE ~hdr
    BY <1>3, <2>2
  <2> QED
    BY <2>1, <2>2
<1>5. Fits(p, l, g, seen) /\ g.header = f.header
  BY <1>4, FragmentFits
<1>6. Keep(p, l, g, News(found, f, g), hdr, cut)
  BY DEF Packet
<1>7. News(found, f, g) \in BOOLEAN
  BY DEF News
<1>8. Handled(p, l, g, News(found, f, g), hdr)
  <2>1. News(found, f, g) <=> g.header # found.header \/ g.fragments # f.fragments
    BY DEF News
  <2>2. g.header = found.header => f.fragments = found.fragments
    BY <1>4, <1>5 DEF WithHeader
  <2> QED
    BY <1>2, <1>4, <1>5, <2>1, <2>2 DEF Handled
<1> DEFINE isNew == News(found, f, g)
<1> HIDE DEF g, isNew
<1> QED
  BY <1>1, <1>6, <1>7, <1>8 DEF isNew

LEMMA ShortHeaderStep ==
    ASSUME LotInv, NEW p \in Ports, NEW l \in Lots
    PROVE  Handled(p, l, Touched(p, l), FALSE, FALSE)
BY TouchedFits DEF Handled

\* A new version is newer than what any receiver knows.
LEMMA ReplaceInv ==
    ASSUME LotInv, CompleteReported, NEW p \in Ports, NEW l \in Lots, Replace(p, l)
    PROVE  LotInv' /\ CompleteReported'
<1>1. /\ version \in [Ports -> [Lots -> Versions]]
      /\ version[p][l] + 1 \in Versions
      /\ version' = [version EXCEPT ![p][l] = @ + 1]
      /\ begun' = [begun EXCEPT ![p][l] = FALSE]
      /\ files' = files /\ past' = past /\ lot_lru_counter' = lot_lru_counter
  BY DEF Replace, LotInv, Typed
<1>2. Typed'
  BY <1>1 DEF LotInv, Typed
<1>3. \A a \in Ports, m \in Lots :
         /\ version[a][m] \in Nat
         /\ version'[a][m] = IF a = p /\ m = l THEN version[a][m] + 1 ELSE version[a][m]
  BY <1>1, Versioned
<1>4. \A a \in Ports : Used(a)' = Used(a)
  BY <1>1 DEF Used
<1>5. Known'
  <2> SUFFICES ASSUME NEW a \in Ports, NEW i \in Used(a)
               PROVE  LET f == files[a][i]  b == past[a][i]
                      IN  /\ \A v \in b.seen : v <= version'[a][f.lot]
                          /\ version'[a][f.lot] \in b.seen => f.header = version'[a][f.lot]
    BY <1>1, <1>4 DEF Known, LotInv
  <2>1. past[a][i].seen \in SUBSET Versions
    BY DEF LotInv, Typed, Past, Used
  <2>2. files[a][i].lot \in Lots
    BY DEF LotInv, Known
  <2>3. /\ \A v \in past[a][i].seen : v \in Nat /\ v <= version[a][files[a][i].lot]
        /\ version[a][files[a][i].lot] \in past[a][i].seen =>
              files[a][i].header = version[a][files[a][i].lot]
    BY <2>1, Versioned DEF LotInv, Known
  <2> QED
    BY <1>3, <2>2, <2>3
<1> QED
  BY <1>1, <1>2, <1>4, <1>5
     DEF LotInv, Stamped, OneFilePerLot, UnusedIsNew, CompleteReported

LEMMA ParseSigStep ==
    ASSUME LotInv, NEW t \in Tables, ParseSig(t)
    PROVE  UNCHANGED <<version, begun, files, past, lot_lru_counter>> \/ Emptied'
BY DEF ParseSig, station, LotInv, Typed, Emptied, EmptyFiles

LEMMA SameInv ==
    ASSUME LotInv, CompleteReported, version' = version,
           begun' \in [Ports -> [Lots -> BOOLEAN]],
           UNCHANGED <<files, past, lot_lru_counter>>
    PROVE  LotInv' /\ CompleteReported'
BY DEF LotInv, Typed, Stamped, OneFilePerLot, Known, UnusedIsNew, CompleteReported, Used

LEMMA NextInv ==
    ASSUME LotInv, CompleteReported, [Next]_vars
    PROVE  LotInv' /\ CompleteReported' /\ OldestMakesRoom
<1>1. ASSUME UNCHANGED <<files, past>> PROVE OldestMakesRoom
  BY <1>1 DEF OldestMakesRoom
<1>2. begun \in [Ports -> [Lots -> BOOLEAN]]
  BY DEF LotInv, Typed
<1>3. ASSUME NEW p \in Ports, NEW l \in Lots, NEW q \in Seqs,
             NEW hdr \in BOOLEAN, NEW cut \in BOOLEAN, Packet(p, l, q, hdr, cut)
      PROVE  LotInv' /\ CompleteReported' /\ OldestMakesRoom
  <2>1. CASE Declared(p)
    BY <1>3, <2>1, PacketStep, KeepInv, KeepReports, KeepEvicts
  <2>2. CASE ~Declared(p)
    BY <1>1, <1>2, <1>3, <2>2, SameInv DEF Packet
  <2> QED
    BY <2>1, <2>2
<1>4. ASSUME NEW p \in Ports, NEW l \in Lots, ShortHeader(p, l)
      PROVE  LotInv' /\ CompleteReported' /\ OldestMakesRoom
  <2>1. Keep(p, l, Touched(p, l), FALSE, FALSE, FALSE) /\ UNCHANGED <<version, begun>>
    BY <1>4 DEF ShortHeader, station
  <2>2. Handled(p, l, Touched(p, l), FALSE, FALSE)
    BY ShortHeaderStep
  <2> QED
    BY <1>2, <2>1, <2>2, KeepInv, KeepReports, KeepEvicts
<1>5. ASSUME NEW p \in Ports, NEW l \in Lots, Replace(p, l)
      PROVE  LotInv' /\ CompleteReported' /\ OldestMakesRoom
  BY <1>1, <1>5, ReplaceInv DEF Replace
<1>6. ASSUME NEW p \in Ports, NEW l \in Lots, HeaderLost(p, l)
      PROVE  LotInv' /\ CompleteReported' /\ OldestMakesRoom
  BY <1>1, <1>2, <1>6, SameInv DEF HeaderLost
<1>7. ASSUME NEW t \in Tables, ParseSig(t)
      PROVE  LotInv' /\ CompleteReported' /\ OldestMakesRoom
  <2>1. CASE UNCHANGED <<version, begun, files, past, lot_lru_counter>>
    BY <1>1, <1>2, <2>1, SameInv
  <2>2. CASE Emptied'
    <3>1. LotInv' /\ CompleteReported'
      BY <2>2, EmptiedInv, PTL
    <3>2. \A p \in Ports, i \in Slot : files'[p][i].timestamp = 0
      BY <2>2 DEF Emptied, EmptyFiles, NoFile
    <3> QED
      BY <3>1, <3>2 DEF OldestMakesRoom, Used
  <2> QED
    BY <1>7, <2>1, <2>2, ParseSigStep
<1>8. CASE UNCHANGED vars
  BY <1>1, <1>2, <1>8, SameInv DEF vars, station
<1> QED
  BY <1>3, <1>4, <1>5, <1>6, <1>7, <1>8 DEF Next

-----------------------------------------------------------------------------
(* The theorems *)

LEMMA InvHolds == Spec => [](LotInv /\ CompleteReported)
<1>1. Init => LotInv /\ CompleteReported
  BY InitEmptied, EmptiedInv
<1>2. LotInv /\ CompleteReported /\ [Next]_vars => (LotInv /\ CompleteReported)'
  BY NextInv
<1> QED
  BY <1>1, <1>2, PTL DEF Spec

\* No file id of a port ever has two slots.
THEOREM LotOneFile == Spec => []OneFilePerLot
<1>1. LotInv => OneFilePerLot
  BY DEF LotInv
<1> QED
  BY <1>1, InvHolds, PTL

\* Every fragment of a file is of the version of its header, unless the
\* receiver never got the header that the fragment came with.
THEOREM LotUnmixed == Spec => []FilesUnmixed
<1>1. LotInv => FilesUnmixed
  <2> SUFFICES ASSUME LotInv, NEW p \in Ports, NEW i \in Slot, NEW q \in Seqs,
                      files[p][i].fragments[q] \in past[p][i].seen
               PROVE  files[p][i].fragments[q] = files[p][i].header
    BY DEF FilesUnmixed
  <2>1. i \in Used(p)
    BY DEF LotInv, UnusedIsNew, NoPast
  <2> QED
    BY <2>1 DEF LotInv, Known
<1> QED
  BY <1>1, InvHolds, PTL

\* Every file that has nothing missing has been reported to the application.
THEOREM LotReported == Spec => []CompleteReported
BY InvHolds, PTL

\* The file that makes room is the one received longest ago, but for a tie
\* with the file of the next packet.
THEOREM LotEvictsOldest == Spec => EvictsOldest
<1>1. LotInv /\ CompleteReported /\ [Next]_vars => [OldestMakesRoom]_vars
  BY NextInv
<1> QED
  BY <1>1, InvHolds, PTL DEF Spec, EvictsOldest

\* A slot without a file has no header either.
UnusedIsEmpty ==
    \A p \in Ports, i \in Slot : i \notin Used(p) => files[p][i].header = NoVersion

NewsOnly ==
    \A r \in report' : \E i \in Slot :
        LET f == files[r.port][i]  g == files'[r.port][i]
        IN  /\ g = r.file
            /\ f.lot # g.lot \/ f.header # g.header \/ f.fragments # g.fragments

\* A file that is reported differs from what its slot held: another file made
\* room, or the packet brought a header or a fragment that was not there.
LEMMA KeepNews ==
    ASSUME LotInv, UnusedIsEmpty, NEW p \in Ports, NEW l \in Lots, NEW g,
           NEW isNew \in BOOLEAN, NEW hdr \in BOOLEAN, NEW cut \in BOOLEAN,
           Keep(p, l, g, isNew, hdr, cut), Handled(p, l, g, isNew, hdr)
    PROVE  UnusedIsEmpty' /\ NewsOnly
<1> DEFINE i == SlotFor(p, l)
<1>1. /\ i \in Slot /\ files'[p][i] = g
      /\ \A a \in Ports, j \in Slot : a # p \/ j # i => files'[a][j] = files[a][j]
  BY KeepEffect
<1>2. report' = IF isNew /\ Complete(g) /\ ~cut THEN {[port |-> p, file |-> g]} ELSE {}
  BY DEF Keep
<1>3. g.lot = l /\ g.timestamp # 0
  BY DEF Handled, Fits, LotInv, Typed
<1>4. ASSUME isNew, Complete(g)
      PROVE  \/ files[p][i].lot # g.lot \/ files[p][i].header # g.header
             \/ files[p][i].fragments # g.fragments
  <2>1. CASE i \notin Used(p)
    BY <1>1, <1>4, <2>1 DEF UnusedIsEmpty, Complete
  <2>2. CASE i \in Used(p) /\ Holding(p, l) = {}
    BY <1>3, <2>2 DEF Holding
  <2>3. CASE Holding(p, l) # {}
    <3>1. Touched(p, l) = [files[p][i] EXCEPT !.timestamp = lot_lru_counter]
      BY <2>3 DEF Touched
    <3>2. files[p][i] \in File
      BY <1>1 DEF LotInv, Typed
    <3> HIDE DEF i
    <3>3. /\ Touched(p, l).header = files[p][i].header
          /\ Touched(p, l).fragments = files[p][i].fragments
      BY <3>1, <3>2 DEF File
    <3> QED
      BY <1>4, <3>3 DEF Handled
  <2> QED
    BY <2>1, <2>2, <2>3
<1> HIDE DEF i
<1>5. UnusedIsEmpty'
  BY <1>1, <1>3 DEF UnusedIsEmpty, Used
<1>6. NewsOnly
  <2> SUFFICES ASSUME NEW r \in report'
               PROVE  /\ files'[r.port][i] = r.file
                      /\ \/ files[r.port][i].lot # r.file.lot
                         \/ files[r.port][i].header # r.file.header
                         \/ files[r.port][i].fragments # r.file.fragments
    BY <1>1 DEF NewsOnly
  <2>1. isNew /\ Complete(g) /\ r.port = p /\ r.file = g
    BY <1>2
  <2> QED
    BY <1>1, <1>4, <2>1
<1> QED
  BY <1>5, <1>6

LEMMA NextNews ==
    ASSUME LotInv, UnusedIsEmpty, [Next]_vars
    PROVE  UnusedIsEmpty' /\ [NewsOnly]_vars
<1>1. ASSUME report' = {}, files' = files
      PROVE  UnusedIsEmpty' /\ NewsOnly
  BY <1>1 DEF UnusedIsEmpty, Used, NewsOnly
<1>2. ASSUME NEW p \in Ports, NEW l \in Lots, NEW q \in Seqs,
             NEW hdr \in BOOLEAN, NEW cut \in BOOLEAN, Packet(p, l, q, hdr, cut)
      PROVE  UnusedIsEmpty' /\ NewsOnly
  <2>1. CASE Declared(p)
    BY <1>2, <2>1, PacketStep, KeepNews
  <2>2. CASE ~Declared(p)
    BY <1>1, <1>2, <2>2 DEF Packet
  <2> QED
    BY <2>1, <2>2
<1>3. ASSUME NEW p \in Ports, NEW l \in Lots, ShortHeader(p, l)
      PROVE  UnusedIsEmpty' /\ NewsOnly
  BY <1>3, ShortHeaderStep, KeepNews DEF ShortHeader
<1>4. ASSUME NEW p \in Ports, NEW l \in Lots, Replace(p, l) \/ HeaderLost(p, l)
      PROVE  UnusedIsEmpty' /\ NewsOnly
  BY <1>1, <1>4 DEF Replace, HeaderLost
<1>5. ASSUME NEW t \in Tables, ParseSig(t)
      PROVE  UnusedIsEmpty' /\ NewsOnly
  <2>1. report' = {} /\ (files' = files \/ files' = EmptyFiles)
    BY <1>5 DEF ParseSig
  <2>2. CASE files' = EmptyFiles
    <3>1. UnusedIsEmpty'
      BY <2>2 DEF UnusedIsEmpty, EmptyFiles, NoFile
    <3> QED
      BY <2>1, <3>1 DEF NewsOnly
  <2> QED
    BY <1>1, <2>1, <2>2
<1>6. CASE UNCHANGED vars
  BY <1>6 DEF vars, UnusedIsEmpty, Used
<1> QED
  BY <1>2, <1>3, <1>4, <1>5, <1>6 DEF Next

\* The repetition of a packet is not reported again: what is reported is
\* never what was in the slot before.
THEOREM LotReportsNews == Spec => ReportsAreNews
<1>1. Init => UnusedIsEmpty
  BY DEF Init, UnusedIsEmpty, EmptyFiles, NoFile
<1>2. /\ LotInv /\ UnusedIsEmpty /\ [Next]_vars
      => UnusedIsEmpty' /\ [NewsOnly]_vars
  BY NextNews
<1>3. LotInv /\ CompleteReported => LotInv
  OBVIOUS
<1>4. Spec => [][NewsOnly]_vars
  BY <1>1, <1>2, <1>3, InvHolds, PTL DEF Spec
<1> QED
  BY <1>4 DEF ReportsAreNews, NewsOnly

\* Types: what TypeOK adds to LotInv.
Reports == report \in SUBSET [port : Ports, file : File]

LEMMA NextTypes ==
    ASSUME LotInv, CompleteReported, sig \in Tables \cup {NoTable}, Reports, [Next]_vars
    PROVE  sig' \in Tables \cup {NoTable} /\ Reports'
<1>1. ASSUME NEW p \in Ports, NEW l \in Lots, NEW g, NEW isNew, NEW hdr, NEW cut,
             Keep(p, l, g, isNew, hdr, cut), Handled(p, l, g, isNew, hdr)
      PROVE  Reports'
  BY <1>1 DEF Keep, Handled, Fits, Reports
<1>2. ASSUME NEW p \in Ports, NEW l \in Lots, NEW q \in Seqs,
             NEW hdr \in BOOLEAN, NEW cut \in BOOLEAN, Packet(p, l, q, hdr, cut)
      PROVE  sig' = sig /\ Reports'
  <2>1. CASE Declared(p)
    BY <1>1, <1>2, <2>1, PacketStep DEF Packet
  <2>2. CASE ~Declared(p)
    BY <1>2, <2>2 DEF Packet, Reports
  <2> QED
    BY <2>1, <2>2
<1>3. ASSUME NEW p \in Ports, NEW l \in Lots, ShortHeader(p, l)
      PROVE  sig' = sig /\ Reports'
  BY <1>1, <1>3, ShortHeaderStep DEF ShortHeader
<1>4. ASSUME NEW p \in Ports, NEW l \in Lots, Replace(p, l) \/ HeaderLost(p, l)
      PROVE  sig' = sig /\ Reports'
  BY <1>4 DEF Replace, HeaderLost, Reports
<1>5. ASSUME NEW t \in Tables, ParseSig(t)
      PROVE  sig' \in Tables /\ Reports'
  BY <1>5 DEF ParseSig, Reports
<1>6. CASE UNCHANGED vars
  BY <1>6 DEF vars, Reports
<1> QED
  BY <1>2, <1>3, <1>4, <1>5, <1>6 DEF Next

\* Every variable keeps its type, and no file's timestamp is ahead of the
\* counter.
THEOREM LotTypes == Spec => []TypeOK
<1>1. Init => sig \in Tables \cup {NoTable} /\ Reports
  BY DEF Init, Reports
<1>2. /\ LotInv /\ CompleteReported /\ [Next]_vars
      /\ sig \in Tables \cup {NoTable} /\ Reports
      => (sig \in Tables \cup {NoTable} /\ Reports)'
  BY NextTypes
<1>3. LotInv /\ sig \in Tables \cup {NoTable} /\ Reports => TypeOK
  <2> SUFFICES ASSUME LotInv, sig \in Tables \cup {NoTable}, Reports
               PROVE  TypeOK
    OBVIOUS
  <2>1. ASSUME NEW p \in Ports, NEW i \in Slot
        PROVE  files[p][i].timestamp <= lot_lru_counter
    <3>1. /\ files[p][i].timestamp \in Nat /\ past[p][i].received \in Nat
          /\ lot_lru_counter \in Nat \ {0}
      BY DEF LotInv, Typed, File, Past
    <3>2. CASE i \in Used(p)
      BY <3>1, <3>2 DEF LotInv, Stamped
    <3>3. CASE i \notin Used(p)
      BY <3>1, <3>3 DEF Used
    <3> QED
      BY <3>2, <3>3
  <2> QED
    BY <2>1 DEF TypeOK, LotInv, Typed, Reports
<1> QED
  BY <1>1, <1>2, <1>3, InvHolds, PTL DEF Spec
=============================================================================
