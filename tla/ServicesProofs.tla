--------------------------- MODULE ServicesProofs ---------------------------
(***************************************************************************)
(* Services keeps its types, it shows a text and an image only as they     *)
(* were sent, and an alert as long as it holds: for every set of messages, *)
(* every size of the frames, blocks, packets and images, and any number of *)
(* versions, faults, resets and changes of station.                        *)
(*                                                                         *)
(* The model folds its handlers over what a frame holds.  A lemma cannot   *)
(* take an operator as a parameter, so each handler has its own lemma,     *)
(* with the same proof: the fold is a run of the handler along the         *)
(* sequence, in every set that the handler does not leave.                 *)
(***************************************************************************)
EXTENDS Services, TLAPS, SequenceTheorems, WellFoundedInduction

-----------------------------------------------------------------------------
(* Folds: FoldLeft is a run of its operator along the sequence. *)

\* What holds at the first step, and after a step if before it, holds at all.
LEMMA Steps ==
    ASSUME NEW m \in Nat, NEW S \in SUBSET (0 .. m), 0 \in S,
           \A n \in 1 .. m : n - 1 \in S => n \in S
    PROVE  S = 0 .. m
<1> DEFINE Out == {n \in 0 .. m : n \notin S}
<1>1. SUFFICES ASSUME Out # {} PROVE FALSE
  OBVIOUS
<1>2. Out \subseteq Nat
  OBVIOUS
<1>3. PICK x \in Out : \A y \in Out : ~(<<y, x>> \in OpToRel(<, Nat))
  BY <1>1, <1>2, NatLessThanWellFounded, WFMin
<1>4. x \in 0 .. m /\ x \notin S /\ x # 0
  OBVIOUS
<1>5. x - 1 \in 0 .. m /\ x - 1 < x
  BY <1>4
<1>6. x - 1 \notin S
  BY <1>4, <1>5
<1>7. x - 1 \in Out
  BY <1>5, <1>6
<1> QED
  BY <1>3, <1>5, <1>7, <1>2 DEF OpToRel

LEMMA MaxIs ==
    ASSUME NEW n \in Nat, NEW s \in SUBSET (1 .. n), s # {}
    PROVE  Max(s) \in s /\ \A y \in s : y <= Max(s)
<1> DEFINE G == {k \in 0 .. n : \A r \in SUBSET (1 .. k) : r = {} \/ \E x \in r : \A y \in r : x >= y}
<1>1. 0 \in G
  OBVIOUS
<1>2. ASSUME NEW k \in 1 .. n, k - 1 \in G PROVE k \in G
  <2> SUFFICES ASSUME NEW r \in SUBSET (1 .. k), r # {} PROVE \E x \in r : \A y \in r : x >= y
    OBVIOUS
  <2>1. CASE k \in r
    BY <2>1
  <2>2. CASE k \notin r
    <3>1. r \in SUBSET (1 .. k - 1)
      BY <2>2
    <3> QED
      BY <1>2, <3>1
  <2> QED
    BY <2>1, <2>2
<1>3. G \in SUBSET (0 .. n)
  OBVIOUS
<1> HIDE DEF G
<1>4. n \in G
  BY <1>1, <1>2, <1>3, Steps
<1>5. \E x \in s : \A y \in s : x >= y
  BY <1>4 DEF G
<1>6. Max(s) \in s /\ \A y \in s : Max(s) >= y
  BY <1>5 DEF Max
<1> QED
  BY <1>6

\* The recursive function that a fold is defined by, and that it exists.
IsFold(g, n, F, b, q) ==
    \A s \in SUBSET (1 .. n) : g[s] = IF s = {} THEN b ELSE F[<<g[s \ {Max(s)}], q[Max(s)]>>]

LEMMA FoldExists ==
    ASSUME NEW n \in Nat, NEW A, NEW X, NEW F \in [A \X X -> A], NEW b \in A, NEW q \in [1 .. n -> X]
    PROVE  \E g \in [SUBSET (1 .. n) -> A] : IsFold(g, n, F, b, q)
<1> DEFINE Is(k, g) == \A s \in SUBSET (1 .. k) : g[s] = IF s = {} THEN b ELSE F[<<g[s \ {Max(s)}], q[Max(s)]>>]
           G == {k \in 0 .. n : \E g \in [SUBSET (1 .. k) -> A] : Is(k, g)}
<1>1. 0 \in G
  <2> DEFINE g == [s \in SUBSET (1 .. 0) |-> b]
  <2>1. \A s \in SUBSET (1 .. 0) : s = {}
    OBVIOUS
  <2>2. g \in [SUBSET (1 .. 0) -> A] /\ Is(0, g)
    BY <2>1
  <2> HIDE DEF g
  <2>3. \E x \in [SUBSET (1 .. 0) -> A] : Is(0, x)
    BY <2>2
  <2>4. 0 \in 0 .. n
    OBVIOUS
  <2> HIDE DEF Is
  <2> QED
    BY <2>3, <2>4
<1>2. ASSUME NEW k \in 1 .. n, k - 1 \in G PROVE k \in G
  <2>1. PICK g \in [SUBSET (1 .. k - 1) -> A] : Is(k - 1, g)
    BY <1>2
  <2> DEFINE e == [s \in SUBSET (1 .. k) |-> IF k \in s THEN F[<<g[s \ {k}], q[k]>>] ELSE g[s]]
  <2>2. \A s \in SUBSET (1 .. k) : s \ {k} \in SUBSET (1 .. k - 1)
    OBVIOUS
  <2>3. q[k] \in X
    OBVIOUS
  <2>4. e \in [SUBSET (1 .. k) -> A]
    <3> SUFFICES ASSUME NEW s \in SUBSET (1 .. k)
                 PROVE (IF k \in s THEN F[<<g[s \ {k}], q[k]>>] ELSE g[s]) \in A
      OBVIOUS
    <3>1. g[s \ {k}] \in A
      BY <2>2
    <3>2. k \notin s => s \ {k} = s
      OBVIOUS
    <3>3. F[<<g[s \ {k}], q[k]>>] \in A
      BY <3>1, <2>3
    <3> QED
      BY <3>1, <3>2, <3>3
  <2>5. ASSUME NEW s \in SUBSET (1 .. k), s # {}
        PROVE  e[s] = F[<<e[s \ {Max(s)}], q[Max(s)]>>]
    <3>1. Max(s) \in s /\ \A y \in s : y <= Max(s)
      <4>1. k \in Nat
        OBVIOUS
      <4> QED
        BY <2>5, <4>1, MaxIs
    <3>2. CASE k \in s
      <4>1. Max(s) = k
        <5>1. Max(s) \in 1 .. k /\ k <= Max(s)
          BY <3>1, <3>2
        <5> QED
          BY <5>1
      <4>2. e[s \ {k}] = g[s \ {k}]
        <5>1. s \ {k} \in SUBSET (1 .. k) /\ k \notin s \ {k}
          OBVIOUS
        <5> QED
          BY <5>1
      <4>3. e[s] = F[<<g[s \ {k}], q[k]>>]
        BY <3>2
      <4> HIDE DEF e
      <4> QED
        BY <4>1, <4>2, <4>3
    <3>3. CASE k \notin s
      <4>1. s \in SUBSET (1 .. k - 1)
        BY <3>3
      <4>2. g[s] = F[<<g[s \ {Max(s)}], q[Max(s)]>>]
        BY <4>1, <2>1, <2>5
      <4>3. e[s] = g[s] /\ e[s \ {Max(s)}] = g[s \ {Max(s)}]
        BY <3>3
      <4> QED
        BY <4>2, <4>3
    <3> QED
      BY <3>2, <3>3
  <2>6. e[{}] = b
    <3>1. {} \in SUBSET (1 .. k) /\ {} \in SUBSET (1 .. k - 1) /\ k \notin {}
      OBVIOUS
    <3> QED
      BY <2>1, <3>1
  <2>7. Is(k, e)
    <3> HIDE DEF e
    <3> QED
      BY <2>5, <2>6
  <2> HIDE DEF e
  <2>8. \E x \in [SUBSET (1 .. k) -> A] : Is(k, x)
    BY <2>4, <2>7
  <2> HIDE DEF Is
  <2> QED
    BY <2>8
<1>3. G \in SUBSET (0 .. n)
  OBVIOUS
<1> HIDE DEF G
<1>4. n \in G
  BY <1>1, <1>2, <1>3, Steps
<1> QED
  BY <1>4 DEF G, IsFold

LEMMA Segments ==
    ASSUME NEW n \in Nat, NEW k \in 1 .. n
    PROVE  1 .. k # {} /\ 1 .. k \in SUBSET (1 .. n) /\ Max(1 .. k) = k /\ (1 .. k) \ {k} = 1 .. k - 1
<1>1. 1 .. k # {} /\ 1 .. k \in SUBSET (1 .. n) /\ (1 .. k) \ {k} = 1 .. k - 1
  OBVIOUS
<1>2. Max(1 .. k) \in 1 .. k /\ \A y \in 1 .. k : y <= Max(1 .. k)
  BY <1>1, MaxIs
<1> QED
  BY <1>1, <1>2

\* A run of F along q from b: the state after each member.
IsRun(h, F, b, q) ==
    h[0] = b /\ \A k \in 1 .. Len(q) : h[k] = F[<<h[k - 1], q[k]>>]

HasRun(A, F, b, q, v) == \E h \in [0 .. Len(q) -> A] : IsRun(h, F, b, q) /\ h[Len(q)] = v

\* What the segments of q are folded to, as far as the types are right.
IsIter(i, A, F, b, q) ==
    i[{}] = b /\ \A k \in 1 .. Len(q) : i[1 .. k - 1] \in A => i[1 .. k] = F[<<i[1 .. k - 1], q[k]>>]

\* What the segments of q are folded to is a run.
LEMMA FoldRun ==
    ASSUME NEW A, NEW X, NEW F \in [A \X X -> A], NEW b \in A, NEW q \in Seq(X), NEW i, IsIter(i, A, F, b, q)
    PROVE  HasRun(A, F, b, q, i[1 .. Len(q)])
<1> DEFINE n == Len(q)
<1>1. /\ n \in Nat /\ \A k \in 1 .. n : q[k] \in X
      /\ \A k \in 1 .. n : i[1 .. k - 1] \in A => i[1 .. k] = F[<<i[1 .. k - 1], q[k]>>]
      /\ i[{}] = b
  BY DEF IsIter
<1> HIDE DEF n
<1>2. \A k \in 0 .. n : i[1 .. k] \in A
  <2> DEFINE G == {k \in 0 .. n : i[1 .. k] \in A}
  <2>1. 0 \in G
    <3>1. 1 .. 0 = {}
      OBVIOUS
    <3> QED
      BY <3>1, <1>1
  <2>2. \A k \in 1 .. n : k - 1 \in G => k \in G
    <3> SUFFICES ASSUME NEW k \in 1 .. n, i[1 .. k - 1] \in A PROVE k \in 0 .. n /\ i[1 .. k] \in A
      OBVIOUS
    <3>1. F[<<i[1 .. k - 1], q[k]>>] \in A
      BY <1>1
    <3> QED
      BY <1>1, <3>1
  <2>3. G \in SUBSET (0 .. n)
    OBVIOUS
  <2> HIDE DEF G
  <2>4. G = 0 .. n
    BY <1>1, <2>1, <2>2, <2>3, Steps
  <2> QED
    BY <2>4 DEF G
<1> DEFINE h == [k \in 0 .. n |-> i[1 .. k]]
<1>3. h \in [0 .. n -> A]
  BY <1>2
<1>4. h[0] = b /\ h[n] = i[1 .. n] /\ \A k \in 1 .. n : h[k] = F[<<h[k - 1], q[k]>>]
  <2>1. 1 .. 0 = {} /\ 0 \in 0 .. n /\ n \in 0 .. n
    BY <1>1
  <2>2. \A k \in 1 .. n : k \in 0 .. n /\ k - 1 \in 0 .. n
    BY <1>1
  <2>3. ASSUME NEW k \in 1 .. n PROVE h[k] = F[<<h[k - 1], q[k]>>]
    <3>1. i[1 .. k - 1] \in A /\ h[k] = i[1 .. k] /\ h[k - 1] = i[1 .. k - 1]
      BY <2>2, <1>2
    <3> HIDE DEF h
    <3> QED
      BY <3>1, <1>1
  <2> QED
    BY <2>1, <2>3, <1>1
<1> HIDE DEF h
<1> QED
  BY <1>3, <1>4 DEF n, IsRun, HasRun

DecodeRuns(A, b, q) ==
    \E h \in [0 .. Len(q) -> A] :
        /\ h[0] = b /\ h[Len(q)] = FoldLeft(Decode, b, q)
        /\ \A k \in 1 .. Len(q) : h[k] = Decode(h[k - 1], q[k])

LEMMA DecodeFold ==
    ASSUME NEW A, NEW X, \A a \in A, x \in X : Decode(a, x) \in A, NEW b \in A, NEW q \in Seq(X)
    PROVE  DecodeRuns(A, b, q)
<1> DEFINE n == Len(q)
           F == [ax \in A \X X |-> Decode(ax[1], ax[2])]
<1>1. n \in Nat /\ DOMAIN q = 1 .. n /\ q \in [1 .. n -> X] /\ n = Len(q)
  OBVIOUS
<1>2. F \in [A \X X -> A] /\ \A a \in A, x \in X : F[<<a, x>>] = Decode(a, x)
  OBVIOUS
<1> HIDE DEF n, F
<1>3. PICK g \in [SUBSET (1 .. n) -> A] : IsFold(g, n, F, b, q)
  <2>1. b \in A
    OBVIOUS
  <2> QED
    BY <1>1, <1>2, <2>1, FoldExists, Zenon
<1> DEFINE Iter(e) == e = [s \in SUBSET (1 .. n) |-> IF s = {} THEN b ELSE Decode(e[s \ {Max(s)}], q[Max(s)])]
           i == CHOOSE e : Iter(e)
<1>4. Iter(g)
  <2>1. \A s \in SUBSET (1 .. n) : s # {} => Max(s) \in 1 .. n /\ s \ {Max(s)} \in SUBSET (1 .. n)
    BY MaxIs, <1>1
  <2>2. \A s \in SUBSET (1 .. n) :
          s # {} => F[<<g[s \ {Max(s)}], q[Max(s)]>>] = Decode(g[s \ {Max(s)}], q[Max(s)])
    BY <2>1, <1>1, <1>2
  <2> QED
    BY <1>3, <2>2 DEF IsFold
<1>5. Iter(i)
  BY <1>4
<1>6. FoldLeft(Decode, b, q) = i[1 .. n]
  BY <1>1 DEF FoldLeft, MapThenFoldSet
<1> HIDE DEF i
<1>7. i[{}] = b /\ \A k \in 1 .. n : i[1 .. k] = Decode(i[1 .. k - 1], q[k])
  <2>1. \A s \in SUBSET (1 .. n) : i[s] = IF s = {} THEN b ELSE Decode(i[s \ {Max(s)}], q[Max(s)])
    BY <1>5
  <2>2. {} \in SUBSET (1 .. n)
    OBVIOUS
  <2>3. i[{}] = b
    BY <2>1, <2>2
  <2>4. ASSUME NEW k \in 1 .. n PROVE i[1 .. k] = Decode(i[1 .. k - 1], q[k])
    <3>1. 1 .. k # {} /\ 1 .. k \in SUBSET (1 .. n) /\ Max(1 .. k) = k /\ (1 .. k) \ {k} = 1 .. k - 1
      BY <1>1, Segments
    <3> QED
      BY <2>1, <3>1
  <2> QED
    BY <2>3, <2>4
<1>8. IsIter(i, A, F, b, q)
  BY <1>1, <1>2, <1>7 DEF IsIter
<1>9. PICK h \in [0 .. Len(q) -> A] : IsRun(h, F, b, q) /\ h[Len(q)] = i[1 .. Len(q)]
  <2>1. b \in A /\ q \in Seq(X)
    OBVIOUS
  <2>2. HasRun(A, F, b, q, i[1 .. Len(q)])
    BY <1>2, <1>8, <2>1, FoldRun
  <2> QED
    BY <2>2 DEF HasRun
<1>10. \A k \in 1 .. n : F[<<h[k - 1], q[k]>>] = Decode(h[k - 1], q[k])
  <2>1. \A k \in 1 .. n : k - 1 \in 0 .. Len(q) /\ q[k] \in X
    BY <1>1
  <2> QED
    BY <1>2, <2>1
<1> QED
  BY <1>1, <1>6, <1>9, <1>10 DEF IsRun, DecodeRuns

-----------------------------------------------------------------------------
(* Station information *)

\* The types of what a receiver knows and an application was told.
Contents == 0 .. Versions
Numbers == -1 .. Seqs - 1
Pages == [Frames -> Contents]
AudioType == [0 .. Programs - 1 -> Contents]
DataType == {s \in Seq(1 .. Versions) : Len(s) <= DataServices}
TextType == [seq : Numbers, have : SUBSET Frames, text : Pages, displayed : BOOLEAN]
PidsType ==
    [station_id : Contents, short_name : Contents, location : Pages, audio_services : AudioType,
     data_services : DataType, parameters : Pages, universal_short_name_final : Pages,
     texts : [Texts -> TextType], alert_timeout : 0 .. AlertLimit]
ToldType ==
    [station_id : Contents, name : Pages, slogan : Pages, message : Pages, alert : Pages,
     location : Pages, audio_services : AudioType, data_services : SUBSET (1 .. Versions),
     exciter : Pages, slogan_of : {"none", "long_name", "slogan"}]
SisType ==
    [station_id : Contents, name : Pages, slogan : Pages, message : Pages, alert : Pages,
     location : Pages, audio_services : AudioType, data_services : SUBSET (1 .. Versions)]
KnownType == [pids : PidsType, told : ToldType, updated : BOOLEAN]
Messages ==
    {p \in [kind : Texts \cup Shorts, frame : Frames \cup {Programs}, value : 1 .. Versions] :
        p.frame = Programs => p.kind = "audio"}

LEMMA PidsConstants ==
    /\ Versions \in Nat /\ Versions >= 1 /\ Seqs \in Nat /\ Seqs >= Versions
    /\ LastFrame \in Nat /\ LastFrame >= 1 /\ Programs \in Nat /\ Programs >= 1
    /\ DataServices \in Nat /\ DataServices >= 1 /\ AlertLimit \in Nat /\ AlertLimit >= 1
BY PidsAssumption

LEMMA BlankType == Blank \in Pages /\ NoText \in TextType /\ NoPids \in PidsType /\ NothingTold \in ToldType
<1>1. Blank \in Pages
  BY PidsConstants DEF Blank, Whole, None, Pages, Contents
<1>2. NoText \in TextType
  BY <1>1, PidsConstants DEF NoText, TextType, Numbers
<1>3. <<>> \in DataType
  BY PidsConstants DEF DataType
<1>4. [prog \in 0 .. Programs - 1 |-> None] \in AudioType
  BY PidsConstants DEF AudioType, None, Contents
<1>5. NoPids \in PidsType
  BY <1>1, <1>2, <1>3, <1>4, PidsConstants DEF NoPids, PidsType, None, Contents
<1>6. NoPids.audio_services = [prog \in 0 .. Programs - 1 |-> None]
  BY DEF NoPids
<1>7. NothingTold \in ToldType
  BY <1>1, <1>4, <1>6, PidsConstants DEF NothingTold, ToldType, None, Contents
<1> QED
  BY <1>1, <1>2, <1>5, <1>7

\* A frame that is put in its place.
LEMMA StoredType ==
    ASSUME NEW t \in TextType, NEW p \in Messages, p.kind \in Texts
    PROVE  /\ Stored(t, p) \in TextType
           /\ p.frame \in Frames /\ p.value \in 1 .. Versions
           /\ Begins(t, p) => /\ Stored(t, p).seq = Numbered(p.value) /\ Stored(t, p).seq >= 0
                              /\ Stored(t, p).have = {p.frame}
                              /\ Stored(t, p).displayed = FALSE
           /\ ~Begins(t, p) => /\ Stored(t, p).seq = t.seq
                               /\ Stored(t, p).have = t.have \cup {p.frame}
                               /\ Stored(t, p).displayed = t.displayed
                               /\ \A f \in Frames \ {p.frame} : Stored(t, p).text[f] = t.text[f]
           /\ Stored(t, p).text[p.frame] = p.value
<1>1. p.frame \in Frames /\ p.value \in 1 .. Versions
  BY DEF Messages, Texts, Sequenced
<1>2. Numbered(p.value) \in 0 .. Seqs - 1
  BY <1>1, PidsConstants DEF Numbered
<1>3. p.value \in Contents /\ Numbered(p.value) \in Numbers
  BY <1>1, <1>2, PidsConstants DEF Contents, Numbers
<1> DEFINE u == IF Begins(t, p) THEN [NoText EXCEPT !.seq = Numbered(p.value)] ELSE t
<1>4. u \in TextType
  BY <1>3, BlankType DEF TextType
<1>5. Stored(t, p) = [u EXCEPT !.have = @ \cup {p.frame}, !.text[p.frame] = p.value]
  BY DEF Stored
<1>6. /\ Begins(t, p) => u.seq = Numbered(p.value) /\ u.have = {} /\ u.displayed = FALSE
      /\ ~Begins(t, p) => u = t
  BY DEF NoText
<1> HIDE DEF u
<1>7. Stored(t, p) \in TextType
  <2>1. u.seq \in Numbers /\ u.have \in SUBSET Frames /\ u.text \in Pages /\ u.displayed \in BOOLEAN
    BY <1>4 DEF TextType
  <2>2. u = [seq |-> u.seq, have |-> u.have, text |-> u.text, displayed |-> u.displayed]
    BY <1>4 DEF TextType
  <2> DEFINE have == u.have \cup {p.frame}
             text == [u.text EXCEPT ![p.frame] = p.value]
  <2>3. Stored(t, p) = [seq |-> u.seq, have |-> have, text |-> text, displayed |-> u.displayed]
    BY <1>5, <2>2
  <2>4. have \in SUBSET Frames /\ text \in Pages
    BY <1>1, <1>3, <2>1 DEF Pages
  <2> HIDE DEF have, text
  <2> QED
    BY <2>1, <2>3, <2>4 DEF TextType
<1>8. /\ Stored(t, p).seq = u.seq /\ Stored(t, p).displayed = u.displayed
      /\ Stored(t, p).have = u.have \cup {p.frame}
      /\ Stored(t, p).text[p.frame] = p.value
      /\ \A f \in Frames \ {p.frame} : Stored(t, p).text[f] = u.text[f]
  BY <1>1, <1>4, <1>5 DEF TextType, Pages
<1> QED
  BY <1>1, <1>2, <1>6, <1>7, <1>8

\* What is known of the short items has been told.
Known(st, td) ==
    /\ st.station_id \in {None, td.station_id}
    /\ st.location[0] # None /\ st.location[1] # None => td.location = st.location
    /\ \A prog \in 0 .. Programs - 1 : st.audio_services[prog] \in {None, td.audio_services[prog]}
    /\ Range(st.data_services) \subseteq td.data_services

\* What the SIS event is about is told as before.
SameTold(a, b) ==
    /\ a.station_id = b.station_id /\ a.location = b.location
    /\ a.audio_services = b.audio_services /\ a.data_services = b.data_services
    /\ a.message = b.message /\ a.alert = b.alert

\* A short message leaves what the texts told of the name and the slogan.
ShortTitles(st, old, td, before) ==
    /\ st.universal_short_name_final = old.universal_short_name_final
    /\ td.slogan = before.slogan /\ td.slogan_of = before.slogan_of
    /\ \/ st.short_name = old.short_name /\ td.name = before.name
       \/ td.name = Whole(st.short_name)

\* What a short message does: it leaves the texts alone, and brings no news
\* of the others unless it is an update.
ShortStep(r, d) ==
    /\ d \in KnownType /\ Known(d.pids, d.told)
    /\ d.pids.texts = r.pids.texts /\ d.pids.alert_timeout = r.pids.alert_timeout
    /\ d.told.message = r.told.message /\ d.told.alert = r.told.alert
    /\ ShortTitles(d.pids, r.pids, d.told, r.told)
    /\ r.updated => d.updated
    /\ ~d.updated => SameTold(r.told, d.told)

\* What is known, by its fields.
LEMMA KnownFields ==
    ASSUME NEW r \in KnownType
    PROVE  /\ r.pids \in PidsType /\ r.told \in ToldType /\ r.updated \in BOOLEAN
           /\ r = [pids |-> r.pids, told |-> r.told, updated |-> r.updated]
           /\ r.pids.station_id \in Contents /\ r.pids.short_name \in Contents
           /\ r.pids.location \in Pages /\ r.pids.audio_services \in AudioType
           /\ r.pids.data_services \in DataType /\ r.pids.parameters \in Pages
           /\ r.pids.universal_short_name_final \in Pages /\ r.pids.texts \in [Texts -> TextType]
           /\ r.pids.alert_timeout \in 0 .. AlertLimit
           /\ r.told.station_id \in Contents /\ r.told.name \in Pages /\ r.told.slogan \in Pages
           /\ r.told.message \in Pages /\ r.told.alert \in Pages /\ r.told.location \in Pages
           /\ r.told.audio_services \in AudioType /\ r.told.data_services \in SUBSET (1 .. Versions)
           /\ r.told.exciter \in Pages /\ r.told.slogan_of \in {"none", "long_name", "slogan"}
BY DEF KnownType, PidsType, ToldType

\* A short message, by what it leaves.
LEMMA ShortStepIs ==
    ASSUME NEW r \in KnownType, NEW st \in PidsType, NEW td \in ToldType, NEW u \in BOOLEAN,
           Known(st, td), st.texts = r.pids.texts, st.alert_timeout = r.pids.alert_timeout,
           td.message = r.told.message, td.alert = r.told.alert, ShortTitles(st, r.pids, td, r.told),
           (u <=> TRUE) \/ ((u <=> r.updated) /\ SameTold(r.told, td))
    PROVE  ShortStep(r, [pids |-> st, told |-> td, updated |-> u])
<1> DEFINE d == [pids |-> st, told |-> td, updated |-> u]
<1>1. d \in KnownType /\ d.pids = st /\ d.told = td /\ (d.updated <=> u)
  BY DEF KnownType
<1> HIDE DEF d
<1>2. ShortStep(r, d)
  BY <1>1 DEF ShortStep
<1> QED
  BY <1>2 DEF d

LEMMA StationIdStep ==
    ASSUME NEW r \in KnownType, NEW p \in Messages, Known(r.pids, r.told)
    PROVE  ShortStep(r, StationId(r, p))
<1>1. p.value \in Contents
  BY PidsConstants DEF Messages, Contents
<1>2. CASE p.value = r.pids.station_id
  BY <1>2 DEF StationId, ShortStep, ShortTitles, SameTold
<1>3. CASE p.value # r.pids.station_id
  <2> DEFINE st == [r.pids EXCEPT !.station_id = p.value]
             td == [r.told EXCEPT !.station_id = p.value]
  <2>1. StationId(r, p) = [pids |-> st, told |-> td, updated |-> TRUE]
    <3>1. StationId(r, p) = [[r EXCEPT !.pids.station_id = p.value, !.told.station_id = p.value]
                                EXCEPT !.updated = TRUE]
      BY <1>3 DEF StationId, Updated
    <3>2. r = [pids |-> r.pids, told |-> r.told, updated |-> r.updated]
      BY KnownFields
    <3> QED
      BY <3>1, <3>2
  <2>2. st \in PidsType /\ td \in ToldType
    BY <1>1, KnownFields DEF PidsType, ToldType
  <2>3. /\ Known(st, td) /\ st.texts = r.pids.texts /\ st.alert_timeout = r.pids.alert_timeout
        /\ td.message = r.told.message /\ td.alert = r.told.alert
        /\ ShortTitles(st, r.pids, td, r.told)
    BY KnownFields DEF Known, PidsType, ToldType, ShortTitles
  <2> HIDE DEF st, td
  <2> QED
    BY <2>1, <2>2, <2>3, ShortStepIs
<1> QED
  BY <1>2, <1>3

LEMMA StationNameShortStep ==
    ASSUME NEW r \in KnownType, NEW p \in Messages, Known(r.pids, r.told)
    PROVE  ShortStep(r, StationNameShort(r, p))
<1>1. p.value \in Contents /\ Whole(p.value) \in Pages
  BY PidsConstants DEF Messages, Contents, Whole, Pages
<1>2. CASE p.value = r.pids.short_name
  BY <1>2 DEF StationNameShort, ShortStep, ShortTitles, SameTold
<1>3. CASE p.value # r.pids.short_name
  <2> DEFINE st == [r.pids EXCEPT !.short_name = p.value]
             td == [r.told EXCEPT !.name = Whole(p.value)]
  <2>1. StationNameShort(r, p) = [pids |-> st, told |-> td, updated |-> TRUE]
    <3>1. StationNameShort(r, p) =
            [[r EXCEPT !.pids.short_name = p.value, !.told.name = Whole(p.value)] EXCEPT !.updated = TRUE]
      BY <1>3 DEF StationNameShort, Updated
    <3>2. r = [pids |-> r.pids, told |-> r.told, updated |-> r.updated]
      BY KnownFields
    <3> QED
      BY <3>1, <3>2
  <2>2. st \in PidsType /\ td \in ToldType
    BY <1>1, KnownFields DEF PidsType, ToldType
  <2>3. /\ Known(st, td) /\ st.texts = r.pids.texts /\ st.alert_timeout = r.pids.alert_timeout
        /\ td.message = r.told.message /\ td.alert = r.told.alert
        /\ ShortTitles(st, r.pids, td, r.told)
    BY KnownFields DEF Known, PidsType, ToldType, ShortTitles
  <2> HIDE DEF st, td
  <2> QED
    BY <2>1, <2>2, <2>3, ShortStepIs
<1> QED
  BY <1>2, <1>3

LEMMA StationLocationStep ==
    ASSUME NEW r \in KnownType, NEW p \in Messages, Known(r.pids, r.told)
    PROVE  ShortStep(r, StationLocation(r, p))
<1> DEFINE half == IF p.frame = 0 THEN 0 ELSE 1
           location == [r.pids.location EXCEPT ![half] = p.value]
           known == [r EXCEPT !.pids.location = location]
           st == [r.pids EXCEPT !.location = location]
           td == [r.told EXCEPT !.location = location]
<1>1. p.value \in Contents /\ half \in {0, 1} /\ {0, 1} \subseteq Frames /\ 1 - half \in {0, 1}
  BY PidsConstants DEF Messages, Contents, Frames
<1> HIDE DEF half
<1>2. location \in Pages
  BY <1>1, KnownFields DEF Pages
<1>3. StationLocation(r, p) =
        IF location = r.pids.location THEN r
        ELSE IF location[1 - half] = None THEN known
        ELSE [[known EXCEPT !.told.location = location] EXCEPT !.updated = TRUE]
  BY DEF StationLocation, Updated, half
<1> HIDE DEF location
<1>4. known = [pids |-> st, told |-> r.told, updated |-> r.updated]
  <2>1. r = [pids |-> r.pids, told |-> r.told, updated |-> r.updated]
    BY KnownFields
  <2> QED
    BY <2>1
<1>5. st \in PidsType /\ td \in ToldType
  BY <1>2, KnownFields DEF PidsType, ToldType
<1>6. /\ st.texts = r.pids.texts /\ st.alert_timeout = r.pids.alert_timeout
      /\ td.message = r.told.message /\ td.alert = r.told.alert
      /\ st.location = location /\ td.location = location
      /\ st.station_id = r.pids.station_id /\ td.station_id = r.told.station_id
      /\ st.audio_services = r.pids.audio_services /\ td.audio_services = r.told.audio_services
      /\ st.data_services = r.pids.data_services /\ td.data_services = r.told.data_services
      /\ ShortTitles(st, r.pids, td, r.told) /\ ShortTitles(st, r.pids, r.told, r.told)
  BY KnownFields DEF PidsType, ToldType, ShortTitles
<1>7. CASE location = r.pids.location
  BY <1>3, <1>7 DEF ShortStep, ShortTitles, SameTold
<1>8. CASE location # r.pids.location /\ location[1 - half] = None
  <2>1. StationLocation(r, p) = [pids |-> st, told |-> r.told, updated |-> r.updated]
    BY <1>3, <1>4, <1>8
  <2>2. Known(st, r.told)
    <3>1. location[0] = None \/ location[1] = None
      BY <1>1, <1>8
    <3> HIDE DEF st
    <3> QED
      BY <3>1, <1>6 DEF Known
  <2> HIDE DEF st
  <2>3. r.told \in ToldType /\ r.updated \in BOOLEAN
    BY KnownFields
  <2>4. SameTold(r.told, r.told)
    BY DEF SameTold
  <2> QED
    BY <2>1, <2>2, <2>3, <2>4, <1>5, <1>6, ShortStepIs
<1>9. CASE location # r.pids.location /\ location[1 - half] # None
  <2>1. StationLocation(r, p) = [pids |-> st, told |-> td, updated |-> TRUE]
    BY <1>3, <1>4, <1>9
  <2> HIDE DEF st, td
  <2>2. Known(st, td)
    BY <1>6 DEF Known
  <2> QED
    BY <2>1, <2>2, <1>5, <1>6, ShortStepIs
<1> QED
  BY <1>7, <1>8, <1>9

LEMMA ServiceInformationStep ==
    ASSUME NEW r \in KnownType, NEW p \in Messages, Known(r.pids, r.told)
    PROVE  ShortStep(r, ServiceInformation(r, p))
<1> DEFINE news == p.kind = "audio" /\ p.frame < Programs /\ r.pids.audio_services[p.frame] # p.value
           item == /\ p.kind = "data" /\ p.value \notin Range(r.pids.data_services)
                   /\ Len(r.pids.data_services) < DataServices
<1>1. p.value \in Contents /\ p.value \in 1 .. Versions /\ p.frame \in Nat
  BY PidsConstants DEF Messages, Contents, Frames
<1>2. r = [pids |-> r.pids, told |-> r.told, updated |-> r.updated]
  BY KnownFields
<1>3. CASE news
  <2> DEFINE sa == [r.pids.audio_services EXCEPT ![p.frame] = p.value]
             ta == [r.told.audio_services EXCEPT ![p.frame] = p.value]
             st == [r.pids EXCEPT !.audio_services = sa]
             td == [r.told EXCEPT !.audio_services = ta]
  <2>1. ServiceInformation(r, p) = [pids |-> st, told |-> td, updated |-> TRUE]
    <3>1. ServiceInformation(r, p) =
            [[r EXCEPT !.pids.audio_services[p.frame] = p.value, !.told.audio_services[p.frame] = p.value]
                EXCEPT !.updated = TRUE]
      BY <1>3 DEF ServiceInformation, Updated
    <3> QED
      BY <3>1, <1>2
  <2>2. sa \in AudioType /\ ta \in AudioType
    BY <1>1, KnownFields DEF AudioType
  <2>3. \A prog \in 0 .. Programs - 1 : sa[prog] \in {None, ta[prog]}
    BY KnownFields DEF AudioType, Known
  <2> HIDE DEF sa, ta
  <2>4. st \in PidsType /\ td \in ToldType
    BY <2>2, KnownFields DEF PidsType, ToldType
  <2>5. /\ st.texts = r.pids.texts /\ st.alert_timeout = r.pids.alert_timeout
        /\ td.message = r.told.message /\ td.alert = r.told.alert
        /\ st.location = r.pids.location /\ td.location = r.told.location
        /\ st.station_id = r.pids.station_id /\ td.station_id = r.told.station_id
        /\ st.audio_services = sa /\ td.audio_services = ta
        /\ st.data_services = r.pids.data_services /\ td.data_services = r.told.data_services
        /\ ShortTitles(st, r.pids, td, r.told)
    BY KnownFields DEF PidsType, ToldType, ShortTitles
  <2> HIDE DEF st, td
  <2>6. Known(st, td)
    BY <2>3, <2>5 DEF Known
  <2> QED
    BY <2>1, <2>4, <2>5, <2>6, ShortStepIs
<1>4. CASE ~news /\ item
  <2> DEFINE sd == Append(r.pids.data_services, p.value)
             td1 == r.told.data_services \cup {p.value}
             st == [r.pids EXCEPT !.data_services = sd]
             td == [r.told EXCEPT !.data_services = td1]
  <2>1. ServiceInformation(r, p) = [pids |-> st, told |-> td, updated |-> TRUE]
    <3>1. ServiceInformation(r, p) =
            [[r EXCEPT !.pids.data_services = Append(@, p.value), !.told.data_services = @ \cup {p.value}]
                EXCEPT !.updated = TRUE]
      BY <1>4 DEF ServiceInformation, Updated
    <3> QED
      BY <3>1, <1>2
  <2>2. sd \in DataType /\ td1 \in SUBSET (1 .. Versions)
    <3> DEFINE q == r.pids.data_services
    <3>1. q \in Seq(1 .. Versions) /\ Len(q) < DataServices /\ r.told.data_services \in SUBSET (1 .. Versions)
      BY <1>4, KnownFields DEF DataType
    <3> HIDE DEF q
    <3>2. Append(q, p.value) \in Seq(1 .. Versions) /\ Len(Append(q, p.value)) <= DataServices
      BY <1>1, <3>1, PidsConstants
    <3> QED
      BY <1>1, <3>1, <3>2 DEF DataType, q
  <2>3. Range(sd) \subseteq td1
    <3>1. r.pids.data_services \in Seq(1 .. Versions)
      BY KnownFields DEF DataType
    <3>2. Range(sd) = Range(r.pids.data_services) \cup {p.value}
      <4> DEFINE q == r.pids.data_services
      <4> HIDE DEF q
      <4>1. q \in Seq(1 .. Versions)
        BY <3>1 DEF q
      <4>2. Range(Append(q, p.value)) = Range(q) \cup {p.value}
        <5>1. /\ DOMAIN Append(q, p.value) = 1 .. Len(q) + 1 /\ DOMAIN q = 1 .. Len(q) /\ Len(q) \in Nat
              /\ \A k \in 1 .. Len(q) : Append(q, p.value)[k] = q[k]
              /\ Append(q, p.value)[Len(q) + 1] = p.value
          BY <4>1, <1>1
        <5> DEFINE e == Append(q, p.value)
        <5> HIDE DEF e
        <5>2. DOMAIN e = 1 .. Len(q) + 1 /\ e[Len(q) + 1] = p.value /\ \A k \in 1 .. Len(q) : e[k] = q[k]
          BY <5>1 DEF e
        <5>3. Range(e) = Range(q) \cup {p.value}
          BY <5>1, <5>2 DEF Range
        <5> QED
          BY <5>3 DEF e
      <4> QED
        BY <4>2 DEF q
    <3>3. Range(r.pids.data_services) \subseteq r.told.data_services
      BY DEF Known
    <3> HIDE DEF sd
    <3> QED
      BY <3>2, <3>3
  <2> HIDE DEF sd, td1
  <2>4. st \in PidsType /\ td \in ToldType
    BY <2>2, KnownFields DEF PidsType, ToldType
  <2>5. /\ st.texts = r.pids.texts /\ st.alert_timeout = r.pids.alert_timeout
        /\ td.message = r.told.message /\ td.alert = r.told.alert
        /\ st.location = r.pids.location /\ td.location = r.told.location
        /\ st.station_id = r.pids.station_id /\ td.station_id = r.told.station_id
        /\ st.audio_services = r.pids.audio_services /\ td.audio_services = r.told.audio_services
        /\ st.data_services = sd /\ td.data_services = td1
        /\ ShortTitles(st, r.pids, td, r.told)
    BY KnownFields DEF PidsType, ToldType, ShortTitles
  <2> HIDE DEF st, td
  <2>6. Known(st, td)
    BY <2>3, <2>5 DEF Known
  <2> QED
    BY <2>1, <2>4, <2>5, <2>6, ShortStepIs
<1>5. CASE ~news /\ ~item
  <2>1. ServiceInformation(r, p) = r
    BY <1>5 DEF ServiceInformation
  <2> QED
    BY <2>1 DEF ShortStep, ShortTitles, SameTold
<1> QED
  BY <1>3, <1>4, <1>5

LEMMA ParameterStep ==
    ASSUME NEW r \in KnownType, NEW p \in Messages, p.kind = "parameter", Known(r.pids, r.told)
    PROVE  ShortStep(r, Parameter(r, p))
<1> DEFINE parameters == [r.pids.parameters EXCEPT ![p.frame] = p.value]
           known == [r EXCEPT !.pids.parameters = parameters]
           st == [r.pids EXCEPT !.parameters = parameters]
           td == [r.told EXCEPT !.exciter = parameters]
           whole == parameters # r.pids.parameters /\ \A f \in Frames : parameters[f] # None
<1>1. p.value \in Contents /\ p.frame \in Frames
  BY PidsConstants DEF Messages, Contents
<1>2. parameters \in Pages
  BY <1>1, KnownFields DEF Pages
<1>3. Parameter(r, p) = IF whole THEN [known EXCEPT !.told.exciter = parameters] ELSE known
  BY DEF Parameter
<1> HIDE DEF parameters, whole
<1>4. known = [pids |-> st, told |-> r.told, updated |-> r.updated]
  <2>1. r = [pids |-> r.pids, told |-> r.told, updated |-> r.updated]
    BY KnownFields
  <2> QED
    BY <2>1
<1>5. st \in PidsType /\ td \in ToldType /\ r.told \in ToldType /\ r.updated \in BOOLEAN
  BY <1>2, KnownFields DEF PidsType, ToldType
<1>6. /\ st.texts = r.pids.texts /\ st.alert_timeout = r.pids.alert_timeout
      /\ st.location = r.pids.location /\ st.station_id = r.pids.station_id
      /\ st.audio_services = r.pids.audio_services /\ st.data_services = r.pids.data_services
  BY KnownFields DEF PidsType
<1>7. /\ SameTold(r.told, r.told) /\ SameTold(r.told, td)
      /\ ShortTitles(st, r.pids, td, r.told) /\ ShortTitles(st, r.pids, r.told, r.told)
  BY KnownFields DEF SameTold, ShortTitles, PidsType, ToldType
<1>8. [known EXCEPT !.told.exciter = parameters] = [pids |-> st, told |-> td, updated |-> r.updated]
  <2> HIDE DEF known, st
  <2> QED
    BY <1>4
<1> HIDE DEF st, td, known
<1>9. Known(st, r.told) /\ Known(st, td)
  BY <1>6, <1>7 DEF Known, SameTold
<1>10. td.message = r.told.message /\ td.alert = r.told.alert
  BY <1>7 DEF SameTold
<1>11. CASE whole
  BY <1>3, <1>5, <1>6, <1>7, <1>8, <1>9, <1>10, <1>11, ShortStepIs
<1>12. CASE ~whole
  BY <1>3, <1>4, <1>5, <1>6, <1>7, <1>9, <1>12, ShortStepIs
<1> QED
  BY <1>11, <1>12

\* A short message.
LEMMA DecodeShort ==
    ASSUME NEW r \in KnownType, NEW p \in Messages, p.kind \in Shorts, Known(r.pids, r.told)
    PROVE  ShortStep(r, Decode(r, p))
BY StationIdStep, StationNameShortStep, StationLocationStep, ServiceInformationStep, ParameterStep
   DEF Decode, Shorts

\* The long messages that last over a reset of the decoder: not shown before
\* they begin again.
Lasting == {"long_name", "message"}

\* What a frame of the text k, collected as s, does to the name and the slogan
\* that were told.
TextTitles(r, k, s, shown, st, td) ==
    /\ st.short_name = r.pids.short_name
    /\ \/ /\ td.name = r.told.name
          /\ st.universal_short_name_final = r.pids.universal_short_name_final
          /\ k = "universal_short_name" => (shown <=> s.displayed)
       \/ k = "universal_short_name" /\ shown /\ td.name = st.universal_short_name_final
    /\ \/ /\ td.slogan = r.told.slogan /\ td.slogan_of = r.told.slogan_of
          /\ k = "long_name" => (shown <=> s.displayed) \/ r.pids.texts["slogan"].displayed
          /\ k = "slogan" => \/ shown <=> s.displayed
                             \/ ~s.displayed /\ r.pids.texts["long_name"].displayed
       \/ k \in {"long_name", "slogan"} /\ shown /\ td.slogan = s.text /\ td.slogan_of = k

\* What a frame of a text does: it is put in its place, and when the text is
\* whole it is displayed, and those that are checked are told.
TextStep(r, p, d) ==
    LET k == p.kind
        s == Stored(r.pids.texts[k], p)
        t == d.pids.texts[k]
    IN  /\ d \in KnownType
        /\ d.pids.station_id = r.pids.station_id /\ d.pids.location = r.pids.location
        /\ d.pids.audio_services = r.pids.audio_services /\ d.pids.data_services = r.pids.data_services
        /\ d.told.station_id = r.told.station_id /\ d.told.location = r.told.location
        /\ d.told.audio_services = r.told.audio_services /\ d.told.data_services = r.told.data_services
        /\ \A j \in Texts \ {k} : d.pids.texts[j] = r.pids.texts[j]
        /\ t.seq = s.seq /\ t.have = s.have /\ t.text = s.text
        /\ TextTitles(r, k, s, t.displayed, d.pids, d.told)
        /\ k # "message" => d.told.message = r.told.message
        /\ k # "alert" => d.told.alert = r.told.alert
        /\ d.pids.alert_timeout = IF k = "alert" THEN 0 ELSE r.pids.alert_timeout
        /\ r.updated => d.updated
        /\ \/ /\ t.displayed <=> s.displayed
              /\ d.told.message = r.told.message /\ d.told.alert = r.told.alert
           \/ /\ t.displayed /\ d.updated
              /\ s.have = Frames /\ (k \in Lasting => s.seq >= 0)
              /\ k = "message" => d.told.message = s.text /\ Verified(s)
              /\ k = "alert" => d.told.alert = s.text /\ Verified(s)

\* What a text leaves alone.
OtherItems(st, old, k) ==
    /\ st.station_id = old.station_id /\ st.location = old.location
    /\ st.audio_services = old.audio_services /\ st.data_services = old.data_services
    /\ st.alert_timeout = IF k = "alert" THEN 0 ELSE old.alert_timeout
OtherTold(td, old, k) ==
    /\ td.station_id = old.station_id /\ td.location = old.location
    /\ td.audio_services = old.audio_services /\ td.data_services = old.data_services
    /\ k # "message" => td.message = old.message
    /\ k # "alert" => td.alert = old.alert

\* The receiver with another text of one kind.
WithText(st, k, t) == [st EXCEPT !.texts[k] = t]

LEMMA WithTextType ==
    ASSUME NEW st \in PidsType, NEW k \in Texts, NEW t \in TextType
    PROVE  /\ WithText(st, k, t) \in PidsType
           /\ WithText(st, k, t).texts = [st.texts EXCEPT ![k] = t]
           /\ WithText(st, k, t).texts[k] = t
           /\ \A j \in Texts \ {k} : WithText(st, k, t).texts[j] = st.texts[j]
           /\ WithText(st, k, t).station_id = st.station_id
           /\ WithText(st, k, t).location = st.location
           /\ WithText(st, k, t).audio_services = st.audio_services
           /\ WithText(st, k, t).data_services = st.data_services
           /\ WithText(st, k, t).alert_timeout = st.alert_timeout
           /\ WithText(st, k, t).short_name = st.short_name
           /\ WithText(st, k, t).universal_short_name_final = st.universal_short_name_final
           /\ k # "alert" => OtherItems(WithText(st, k, t), st, k)
<1> DEFINE texts == [st.texts EXCEPT ![k] = t]
           e == WithText(st, k, t)
<1>1. st.texts \in [Texts -> TextType]
  BY DEF PidsType
<1>2. texts \in [Texts -> TextType] /\ texts[k] = t /\ \A j \in Texts \ {k} : texts[j] = st.texts[j]
  BY <1>1
<1>3. e = [st EXCEPT !.texts = texts]
  BY DEF WithText
<1> HIDE DEF texts, e
<1>4. e \in PidsType
  BY <1>2, <1>3 DEF PidsType
<1>5. /\ e.texts = texts /\ e.station_id = st.station_id /\ e.location = st.location
      /\ e.audio_services = st.audio_services /\ e.data_services = st.data_services
      /\ e.alert_timeout = st.alert_timeout
      /\ e.short_name = st.short_name /\ e.universal_short_name_final = st.universal_short_name_final
  BY <1>3 DEF PidsType
<1> QED
  BY <1>2, <1>4, <1>5 DEF texts, e, OtherItems

\* An alert that is withdrawn.
LEMMA WithoutAlert ==
    ASSUME NEW st \in PidsType
    PROVE  /\ WithText(st, "alert", NoText) \in PidsType
           /\ WithText(st, "alert", NoText).texts["alert"] = NoText
           /\ \A j \in Texts \ {"alert"} : WithText(st, "alert", NoText).texts[j] = st.texts[j]
           /\ WithText(st, "alert", NoText).station_id = st.station_id
           /\ WithText(st, "alert", NoText).location = st.location
           /\ WithText(st, "alert", NoText).audio_services = st.audio_services
           /\ WithText(st, "alert", NoText).data_services = st.data_services
           /\ WithText(st, "alert", NoText).short_name = st.short_name
           /\ WithText(st, "alert", NoText).universal_short_name_final = st.universal_short_name_final
<1> DEFINE texts == [st.texts EXCEPT !["alert"] = NoText]
           e == WithText(st, "alert", NoText)
<1>1. NoText \in TextType /\ "alert" \in Texts
  BY BlankType DEF Texts, Sequenced
<1>2. st.texts \in [Texts -> TextType]
  BY DEF PidsType
<1>3. /\ texts \in [Texts -> TextType] /\ texts["alert"] = NoText
      /\ \A j \in Texts \ {"alert"} : texts[j] = st.texts[j]
  BY <1>1, <1>2
<1>4. e = [st EXCEPT !.texts = texts]
  BY DEF WithText
<1> HIDE DEF texts, e
<1>5. e \in PidsType
  BY <1>3, <1>4 DEF PidsType
<1>6. /\ e.texts = texts /\ e.station_id = st.station_id /\ e.location = st.location
      /\ e.audio_services = st.audio_services /\ e.data_services = st.data_services
      /\ e.short_name = st.short_name /\ e.universal_short_name_final = st.universal_short_name_final
  BY <1>4 DEF PidsType
<1> QED
  BY <1>3, <1>5, <1>6 DEF e

\* A text that is not whole.
LEMMA TextKept ==
    ASSUME NEW r \in KnownType, NEW p \in Messages, p.kind \in Texts,
           NEW st \in PidsType, OtherItems(st, r.pids, p.kind),
           st.short_name = r.pids.short_name,
           st.universal_short_name_final = r.pids.universal_short_name_final,
           st.texts = [r.pids.texts EXCEPT ![p.kind] = Stored(r.pids.texts[p.kind], p)]
    PROVE  TextStep(r, p, [pids |-> st, told |-> r.told, updated |-> r.updated])
<1> DEFINE d == [pids |-> st, told |-> r.told, updated |-> r.updated]
<1>1. d \in KnownType /\ d.pids = st /\ d.told = r.told /\ (d.updated <=> r.updated)
  BY KnownFields DEF KnownType
<1>2. /\ st.texts[p.kind] = Stored(r.pids.texts[p.kind], p)
      /\ \A j \in Texts \ {p.kind} : st.texts[j] = r.pids.texts[j]
  BY KnownFields
<1> HIDE DEF d
<1>3. TextStep(r, p, d)
  BY <1>1, <1>2, Zenon DEF TextStep, TextTitles, OtherItems
<1> QED
  BY <1>3 DEF d

\* A text that is displayed now.
LEMMA TextShown ==
    ASSUME NEW r \in KnownType, NEW p \in Messages, p.kind \in Texts,
           NEW st \in PidsType, OtherItems(st, r.pids, p.kind),
           NEW td \in ToldType, OtherTold(td, r.told, p.kind),
           NEW s, s = Stored(r.pids.texts[p.kind], p), Complete(s),
           p.kind \in Lasting => s.seq >= 0,
           st.texts = [r.pids.texts EXCEPT ![p.kind] = [s EXCEPT !.displayed = TRUE]],
           p.kind = "message" => td.message = s.text /\ Verified(s),
           p.kind = "alert" => td.alert = s.text /\ Verified(s),
           TextTitles(r, p.kind, s, TRUE, st, td)
    PROVE  TextStep(r, p, [pids |-> st, told |-> td, updated |-> TRUE])
<1> DEFINE d == [pids |-> st, told |-> td, updated |-> TRUE]
           t == [s EXCEPT !.displayed = TRUE]
<1>1. d \in KnownType /\ d.pids = st /\ d.told = td /\ d.updated
  BY DEF KnownType
<1>2. s \in TextType
  <2>1. r.pids.texts[p.kind] \in TextType
    BY KnownFields
  <2> QED
    BY <2>1, StoredType
<1>3. t.seq = s.seq /\ t.have = s.have /\ t.text = s.text /\ t.displayed /\ s.have = Frames
  BY <1>2 DEF TextType, Complete
<1>4. st.texts[p.kind] = t /\ \A j \in Texts \ {p.kind} : st.texts[j] = r.pids.texts[j]
  BY KnownFields
<1> HIDE DEF d, t
<1>5. TextStep(r, p, d)
  BY <1>1, <1>3, <1>4, Zenon DEF TextStep, TextTitles, OtherItems, OtherTold
<1> QED
  BY <1>5 DEF d

LEMMA CollectedIs ==
    ASSUME NEW r \in KnownType, NEW p \in Messages, p.kind \in Texts
    PROVE  LET s == Stored(r.pids.texts[p.kind], p)
               t == [s EXCEPT !.displayed = TRUE]
               e == Collected(r, p)
           IN  /\ s \in TextType /\ t \in TextType
               /\ t.seq = s.seq /\ t.have = s.have /\ t.text = s.text /\ t.displayed
               /\ e = [pids |-> WithText(r.pids, p.kind, s), told |-> r.told, updated |-> r.updated]
               /\ e.pids.texts[p.kind] = s
               /\ Displayed(e, p.kind) =
                    [pids |-> WithText(r.pids, p.kind, t), told |-> r.told, updated |-> TRUE]
<1> DEFINE s == Stored(r.pids.texts[p.kind], p)
           t == [s EXCEPT !.displayed = TRUE]
           e == Collected(r, p)
           k == p.kind
<1>1. s \in TextType
  BY KnownFields, StoredType
<1>2. e = [r EXCEPT !.pids.texts[k] = s]
  BY DEF Collected
<1>3. r = [pids |-> r.pids, told |-> r.told, updated |-> r.updated] /\ r.pids \in PidsType
  BY KnownFields
<1> HIDE DEF s, e
<1>4. t \in TextType /\ t.seq = s.seq /\ t.have = s.have /\ t.text = s.text /\ t.displayed
  BY <1>1 DEF TextType
<1>5. e = [pids |-> WithText(r.pids, k, s), told |-> r.told, updated |-> r.updated]
  BY <1>2, <1>3 DEF WithText
<1>6. e.pids.texts[k] = s
  BY <1>1, <1>3, <1>5, WithTextType
<1>7. Displayed(e, k) = [pids |-> WithText(r.pids, k, t), told |-> r.told, updated |-> TRUE]
  <2>1. Displayed(e, k) = [[e EXCEPT !.pids.texts[k].displayed = TRUE] EXCEPT !.updated = TRUE]
    BY DEF Displayed, Updated
  <2>2. Displayed(e, k) =
          [pids |-> [e.pids EXCEPT !.texts[k].displayed = TRUE], told |-> r.told, updated |-> TRUE]
    BY <2>1, <1>5
  <2>3. [e.pids EXCEPT !.texts[k].displayed = TRUE] = WithText(r.pids, k, t)
    <3> DEFINE x == WithText(r.pids, k, s)
    <3>1. e.pids = x
      BY <1>5
    <3>2. [x EXCEPT !.texts[k].displayed = TRUE] = [x EXCEPT !.texts[k] = [x.texts[k] EXCEPT !.displayed = TRUE]]
      OBVIOUS
    <3>3. [x EXCEPT !.texts[k] = t] = [r.pids EXCEPT !.texts[k] = t]
      <4>1. x = [r.pids EXCEPT !.texts = [r.pids.texts EXCEPT ![k] = s]]
        BY DEF WithText
      <4>2. [x EXCEPT !.texts[k] = t] = [x EXCEPT !.texts = [x.texts EXCEPT ![k] = t]]
        OBVIOUS
      <4>3. x.texts = [r.pids.texts EXCEPT ![k] = s]
        BY <1>1, <1>3, WithTextType
      <4>4. [x.texts EXCEPT ![k] = t] = [r.pids.texts EXCEPT ![k] = t]
        BY <4>3, KnownFields
      <4>5. [x EXCEPT !.texts = [r.pids.texts EXCEPT ![k] = t]] = [r.pids EXCEPT !.texts = [r.pids.texts EXCEPT ![k] = t]]
        <5> DEFINE a == [r.pids.texts EXCEPT ![k] = s]
                   b == [r.pids.texts EXCEPT ![k] = t]
        <5> HIDE DEF x, a, b
        <5>1. x = [r.pids EXCEPT !.texts = a]
          BY <4>1 DEF a
        <5>2. [x EXCEPT !.texts = b] = [r.pids EXCEPT !.texts = b]
          BY <5>1, <1>3 DEF PidsType
        <5> QED
          BY <5>2 DEF b
      <4> QED
        BY <4>2, <4>4, <4>5
    <3>4. x.texts[k] = s
      BY <1>6, <3>1
    <3> HIDE DEF x
    <3> QED
      BY <3>1, <3>2, <3>3, <3>4 DEF WithText
  <2> QED
    BY <2>2, <2>3
<1> QED
  BY <1>1, <1>4, <1>5, <1>6, <1>7 DEF s, e

\* News, and what becomes of them when something is told.
IsNews(d, a, b) == d = [pids |-> a, told |-> b, updated |-> TRUE]
Tells(d, a, b) ==
    \A x :
        /\ [d EXCEPT !.told.message = x] = [pids |-> a, told |-> [b EXCEPT !.message = x], updated |-> TRUE]
        /\ [d EXCEPT !.told.alert = x] = [pids |-> a, told |-> [b EXCEPT !.alert = x], updated |-> TRUE]
        /\ [d EXCEPT !.pids.universal_short_name_final = x, !.told.name = x] =
             [pids |-> [a EXCEPT !.universal_short_name_final = x], told |-> [b EXCEPT !.name = x],
              updated |-> TRUE]

LEMMA Telling ==
    ASSUME NEW d, NEW a, NEW b, IsNews(d, a, b)
    PROVE  Tells(d, a, b)
<1> SUFFICES ASSUME NEW x
    PROVE  /\ [d EXCEPT !.told.message = x] = [pids |-> a, told |-> [b EXCEPT !.message = x], updated |-> TRUE]
           /\ [d EXCEPT !.told.alert = x] = [pids |-> a, told |-> [b EXCEPT !.alert = x], updated |-> TRUE]
           /\ [d EXCEPT !.pids.universal_short_name_final = x, !.told.name = x] =
                [pids |-> [a EXCEPT !.universal_short_name_final = x], told |-> [b EXCEPT !.name = x],
                 updated |-> TRUE]
  BY DEF Tells
<1>1. PICK y : y = TRUE
  OBVIOUS
<1>2. d = [pids |-> a, told |-> b, updated |-> y]
  BY <1>1, Zenon DEF IsNews
<1>4. [d EXCEPT !.told.message = x] = [pids |-> a, told |-> [b EXCEPT !.message = x], updated |-> y]
  BY ONLY <1>2
<1>5. [d EXCEPT !.told.alert = x] = [pids |-> a, told |-> [b EXCEPT !.alert = x], updated |-> y]
  BY ONLY <1>2
<1>6. [d EXCEPT !.pids.universal_short_name_final = x, !.told.name = x] =
        [pids |-> [a EXCEPT !.universal_short_name_final = x], told |-> [b EXCEPT !.name = x], updated |-> y]
  <2> DEFINE e == [d EXCEPT !.pids.universal_short_name_final = x]
             c == [a EXCEPT !.universal_short_name_final = x]
  <2>1. e = [pids |-> c, told |-> b, updated |-> y]
    BY ONLY <1>2
  <2>2. [d EXCEPT !.pids.universal_short_name_final = x, !.told.name = x] = [e EXCEPT !.told.name = x]
    OBVIOUS
  <2> HIDE DEF e, c
  <2>3. [e EXCEPT !.told.name = x] = [pids |-> c, told |-> [b EXCEPT !.name = x], updated |-> y]
    BY ONLY <2>1
  <2> QED
    BY <2>2, <2>3 DEF c
<1> QED
  BY <1>1, <1>4, <1>5, <1>6, Zenon

TellsSlogan(d, a, b) ==
    \A x, k :
        SloganTold(d, k, x) = [pids |-> a, told |-> [b EXCEPT !.slogan = x, !.slogan_of = k], updated |-> TRUE]

LEMMA TellingSlogan ==
    ASSUME NEW d, NEW a, NEW b, IsNews(d, a, b)
    PROVE  TellsSlogan(d, a, b)
<1> SUFFICES ASSUME NEW x, NEW k
    PROVE  SloganTold(d, k, x) = [pids |-> a, told |-> [b EXCEPT !.slogan = x, !.slogan_of = k], updated |-> TRUE]
  BY DEF TellsSlogan
<1>1. PICK y : y = TRUE
  OBVIOUS
<1>2. d = [pids |-> a, told |-> b, updated |-> y]
  BY <1>1, Zenon DEF IsNews
<1>3. SloganTold(d, k, x) = [pids |-> a, told |-> [b EXCEPT !.slogan = x, !.slogan_of = k], updated |-> y]
  <2> DEFINE e == [d EXCEPT !.told.slogan = x]
             c == [b EXCEPT !.slogan = x]
  <2>1. e = [pids |-> a, told |-> c, updated |-> y]
    BY ONLY <1>2
  <2>2. SloganTold(d, k, x) = [e EXCEPT !.told.slogan_of = k]
    BY DEF SloganTold
  <2> HIDE DEF e, c
  <2>3. [e EXCEPT !.told.slogan_of = k] = [pids |-> a, told |-> [c EXCEPT !.slogan_of = k], updated |-> y]
    BY ONLY <2>1
  <2> QED
    BY <2>2, <2>3 DEF c
<1> QED
  BY <1>1, <1>3, Zenon

LEMMA StationLongNameStep ==
    ASSUME NEW r \in KnownType, NEW p \in Messages, p.kind = "long_name"
    PROVE  TextStep(r, p, StationLongName(r, p))
<1> DEFINE s == Stored(r.pids.texts[p.kind], p)
           t == [s EXCEPT !.displayed = TRUE]
           e == Collected(r, p)
           d == Displayed(e, p.kind)
           st == WithText(r.pids, p.kind, s)
           sd == WithText(r.pids, p.kind, t)
           u == [r.told EXCEPT !.slogan = s.text, !.slogan_of = "long_name"]
<1>1. p.kind \in Texts
  BY DEF Texts, Sequenced
<1>2. s \in TextType /\ t \in TextType
  BY <1>1, CollectedIs
<1>3. e = [pids |-> st, told |-> r.told, updated |-> r.updated] /\ e.pids.texts[p.kind] = s
  BY <1>1, CollectedIs
<1>4. d = [pids |-> sd, told |-> r.told, updated |-> TRUE]
  BY <1>1, CollectedIs
<1>5. e = Collected(r, p) /\ d = Displayed(Collected(r, p), "long_name")
  OBVIOUS
<1>6. /\ st \in PidsType /\ st.texts = [r.pids.texts EXCEPT ![p.kind] = s] /\ OtherItems(st, r.pids, p.kind)
      /\ sd \in PidsType /\ sd.texts = [r.pids.texts EXCEPT ![p.kind] = t] /\ OtherItems(sd, r.pids, p.kind)
      /\ \A x \in {st, sd} : /\ x.short_name = r.pids.short_name
                            /\ x.universal_short_name_final = r.pids.universal_short_name_final
  <2>1. r.pids \in PidsType /\ p.kind # "alert"
    BY KnownFields
  <2> HIDE DEF s, t
  <2> QED
    BY <1>1, <1>2, <2>1, WithTextType
<1> HIDE DEF e, d, st, sd
<1>7. /\ u \in ToldType /\ OtherTold(u, r.told, p.kind) /\ r.told \in ToldType /\ OtherTold(r.told, r.told, p.kind)
      /\ u.name = r.told.name /\ u.slogan = s.text /\ u.slogan_of = "long_name"
  BY <1>2, KnownFields DEF OtherTold, ToldType, TextType
<1> HIDE DEF s, t
<1>8. SloganTold(d, "long_name", s.text) = [pids |-> sd, told |-> u, updated |-> TRUE]
  <2>1. IsNews(d, sd, r.told)
    BY <1>4 DEF IsNews
  <2>2. TellsSlogan(d, sd, r.told)
    BY <2>1, TellingSlogan
  <2> QED
    BY ONLY <2>2 DEF TellsSlogan
<1>9. StationLongName(r, p) =
        CASE ~Complete(s) \/ s.seq < 0 -> e
          [] Complete(s) /\ s.seq >= 0 /\ d.pids.texts["slogan"].displayed -> d
          [] OTHER -> SloganTold(d, "long_name", s.text)
  BY <1>3, <1>5 DEF StationLongName
<1>10. TextStep(r, p, e)
  BY <1>1, <1>3, <1>6, TextKept DEF s
<1> HIDE DEF u
<1>11. ASSUME Complete(s), s.seq >= 0, NEW td \in ToldType, OtherTold(td, r.told, p.kind),
              TextTitles(r, p.kind, s, TRUE, sd, td)
       PROVE  TextStep(r, p, [pids |-> sd, told |-> td, updated |-> TRUE])
  <2>1. s = Stored(r.pids.texts[p.kind], p) /\ sd.texts = [r.pids.texts EXCEPT ![p.kind] = [s EXCEPT !.displayed = TRUE]]
    BY <1>6 DEF s, t
  <2> QED
    BY <1>1, <1>6, <1>11, <2>1, TextShown
<1>13. TextTitles(r, p.kind, s, TRUE, sd, u)
  BY <1>6, <1>7, Zenon DEF TextTitles
<1>14. d.pids.texts["slogan"].displayed => TextTitles(r, p.kind, s, TRUE, sd, r.told)
  <2>1. d.pids = sd
    BY ONLY <1>4
  <2>2. sd.texts["slogan"] = r.pids.texts["slogan"]
    <3>1. "slogan" \in Texts /\ r.pids.texts \in [Texts -> TextType]
      BY KnownFields DEF Texts
    <3> QED
      BY <1>6, <3>1
  <2>3. p.kind = "long_name" /\ p.kind # "slogan" /\ p.kind # "universal_short_name"
    OBVIOUS
  <2>5. sd \in {st, sd}
    OBVIOUS
  <2>6. r.told.name = r.told.name /\ (TRUE <=> TRUE)
    OBVIOUS
  <2>4. d.pids.texts["slogan"] = r.pids.texts["slogan"]
    BY <2>1, <2>2
  <2> QED
    BY <1>6, <2>3, <2>4, Zenon DEF TextTitles
<1>12. s.seq < 0 \/ s.seq >= 0
  BY <1>2 DEF TextType, Numbers
<1> QED
  BY <1>4, <1>7, <1>8, <1>9, <1>10, <1>11, <1>12, <1>13, <1>14

LEMMA StationMessageStep ==
    ASSUME NEW r \in KnownType, NEW p \in Messages, p.kind = "message"
    PROVE  TextStep(r, p, StationMessage(r, p))
<1> DEFINE s == Stored(r.pids.texts[p.kind], p)
           t == [s EXCEPT !.displayed = TRUE]
           e == Collected(r, p)
           d == Displayed(e, p.kind)
           st == WithText(r.pids, p.kind, s)
           sd == WithText(r.pids, p.kind, t)
           u == [r.told EXCEPT !.message = s.text]
           ready == Complete(s) /\ s.seq >= 0 /\ Verified(s)
<1>1. p.kind \in Texts
  BY DEF Texts, Sequenced
<1>2. s \in TextType /\ t \in TextType
  BY <1>1, CollectedIs
<1>3. e = [pids |-> st, told |-> r.told, updated |-> r.updated] /\ e.pids.texts[p.kind] = s
  BY <1>1, CollectedIs
<1>4. d = [pids |-> sd, told |-> r.told, updated |-> TRUE]
  BY <1>1, CollectedIs
<1>5. e = Collected(r, p) /\ d = Displayed(Collected(r, p), "message")
  OBVIOUS
<1>6. /\ st \in PidsType /\ st.texts = [r.pids.texts EXCEPT ![p.kind] = s] /\ OtherItems(st, r.pids, p.kind)
      /\ sd \in PidsType /\ sd.texts = [r.pids.texts EXCEPT ![p.kind] = t] /\ OtherItems(sd, r.pids, p.kind)
      /\ \A x \in {st, sd} : /\ x.short_name = r.pids.short_name
                            /\ x.universal_short_name_final = r.pids.universal_short_name_final
  <2>1. r.pids \in PidsType /\ p.kind # "alert"
    BY KnownFields
  <2> HIDE DEF s, t
  <2> QED
    BY <1>1, <1>2, <2>1, WithTextType
<1> HIDE DEF e, d, st, sd
<1>7. /\ u \in ToldType /\ OtherTold(u, r.told, p.kind) /\ u.message = s.text
      /\ u.name = r.told.name /\ u.slogan = r.told.slogan /\ u.slogan_of = r.told.slogan_of
  BY <1>2, KnownFields DEF OtherTold, ToldType, TextType
<1> HIDE DEF s, t
<1>8. [d EXCEPT !.told.message = s.text] = [pids |-> sd, told |-> u, updated |-> TRUE]
  <2>1. IsNews(d, sd, r.told)
    BY <1>4 DEF IsNews
  <2>2. Tells(d, sd, r.told)
    BY <2>1, Telling
  <2> QED
    BY ONLY <2>2 DEF Tells
<1>9. StationMessage(r, p) = IF ready THEN [d EXCEPT !.told.message = s.text] ELSE e
  BY <1>3, <1>5 DEF StationMessage
<1>10. TextStep(r, p, e)
  BY <1>1, <1>3, <1>6, TextKept DEF s
<1> HIDE DEF u
<1>11. ASSUME ready PROVE TextStep(r, p, [pids |-> sd, told |-> u, updated |-> TRUE])
  <2>1. s = Stored(r.pids.texts[p.kind], p) /\ sd.texts = [r.pids.texts EXCEPT ![p.kind] = [s EXCEPT !.displayed = TRUE]]
    BY <1>6 DEF s, t
  <2>2. p.kind \notin {"long_name", "slogan", "universal_short_name"}
    OBVIOUS
  <2>3. TextTitles(r, p.kind, s, TRUE, sd, u)
    BY <1>6, <1>7, <2>2, Zenon DEF TextTitles
  <2> QED
    BY <1>1, <1>6, <1>7, <1>11, <2>1, <2>3, TextShown
<1> QED
  BY <1>8, <1>9, <1>10, <1>11

LEMMA UniversalShortStationNameStep ==
    ASSUME NEW r \in KnownType, NEW p \in Messages, p.kind \in {"universal_short_name", "slogan"}
    PROVE  TextStep(r, p, UniversalShortStationName(r, p))
<1> DEFINE s == Stored(r.pids.texts[p.kind], p)
           t == [s EXCEPT !.displayed = TRUE]
           e == Collected(r, p)
           d == Displayed(e, p.kind)
           st == WithText(r.pids, p.kind, s)
           sd == WithText(r.pids, p.kind, t)
           sf == [sd EXCEPT !.universal_short_name_final = s.text]
           u == [r.told EXCEPT !.slogan = s.text, !.slogan_of = "slogan"]
           n == [r.told EXCEPT !.name = s.text]
<1>1. p.kind \in Texts
  BY DEF Texts
<1>2. s \in TextType /\ t \in TextType
  BY <1>1, CollectedIs
<1>3. e = [pids |-> st, told |-> r.told, updated |-> r.updated] /\ e.pids.texts[p.kind] = s
  BY <1>1, CollectedIs
<1>4. d = [pids |-> sd, told |-> r.told, updated |-> TRUE]
  BY <1>1, CollectedIs
<1>5. e = Collected(r, p) /\ d = Displayed(Collected(r, p), p.kind)
  OBVIOUS
<1>6. /\ st \in PidsType /\ st.texts = [r.pids.texts EXCEPT ![p.kind] = s] /\ OtherItems(st, r.pids, p.kind)
      /\ sd \in PidsType /\ sd.texts = [r.pids.texts EXCEPT ![p.kind] = t] /\ OtherItems(sd, r.pids, p.kind)
      /\ \A x \in {st, sd} : /\ x.short_name = r.pids.short_name
                            /\ x.universal_short_name_final = r.pids.universal_short_name_final
  <2>1. r.pids \in PidsType /\ p.kind # "alert"
    BY KnownFields
  <2> HIDE DEF s, t
  <2> QED
    BY <1>1, <1>2, <2>1, WithTextType
<1> HIDE DEF e, d, st, sd
<1>7. /\ u \in ToldType /\ OtherTold(u, r.told, p.kind)
      /\ r.told \in ToldType /\ OtherTold(r.told, r.told, p.kind)
      /\ n \in ToldType /\ OtherTold(n, r.told, p.kind)
      /\ u.name = r.told.name /\ u.slogan = s.text /\ u.slogan_of = "slogan"
      /\ n.name = s.text /\ n.slogan = r.told.slogan /\ n.slogan_of = r.told.slogan_of
  BY <1>2, KnownFields DEF OtherTold, ToldType, TextType
<1> HIDE DEF s, t
<1>8. /\ SloganTold(d, "slogan", s.text) = [pids |-> sd, told |-> u, updated |-> TRUE]
      /\ [d EXCEPT !.pids.universal_short_name_final = s.text, !.told.name = s.text] =
            [pids |-> sf, told |-> n, updated |-> TRUE]
  <2>1. IsNews(d, sd, r.told)
    BY <1>4 DEF IsNews
  <2>2. Tells(d, sd, r.told)
    BY <2>1, Telling
  <2>5. TellsSlogan(d, sd, r.told)
    BY <2>1, TellingSlogan
  <2>3. SloganTold(d, "slogan", s.text) = [pids |-> sd, told |-> u, updated |-> TRUE]
    BY ONLY <2>5 DEF TellsSlogan
  <2>4. [d EXCEPT !.pids.universal_short_name_final = s.text, !.told.name = s.text] =
            [pids |-> sf, told |-> n, updated |-> TRUE]
    BY ONLY <2>2 DEF Tells
  <2> QED
    BY <2>3, <2>4
<1>9. UniversalShortStationName(r, p) =
        CASE ~Complete(s) -> e
          [] Complete(s) /\ p.kind = "universal_short_name" ->
                [d EXCEPT !.pids.universal_short_name_final = s.text, !.told.name = s.text]
          [] Complete(s) /\ p.kind = "slogan" /\ d.pids.texts["long_name"].displayed -> d
          [] OTHER -> SloganTold(d, "slogan", s.text)
  BY <1>3, <1>5 DEF UniversalShortStationName
<1>10. TextStep(r, p, e)
  BY <1>1, <1>3, <1>6, TextKept DEF s
<1>11. /\ sf \in PidsType /\ sf.texts = sd.texts /\ OtherItems(sf, r.pids, p.kind)
       /\ sf.short_name = sd.short_name /\ sf.universal_short_name_final = s.text
  BY <1>2, <1>6 DEF PidsType, TextType, OtherItems
<1> HIDE DEF u, n, sf
<1>12. ASSUME Complete(s), NEW td \in ToldType, OtherTold(td, r.told, p.kind), NEW x \in {sd, sf},
              TextTitles(r, p.kind, s, TRUE, x, td)
       PROVE  TextStep(r, p, [pids |-> x, told |-> td, updated |-> TRUE])
  <2>1. s = Stored(r.pids.texts[p.kind], p) /\ x.texts = [r.pids.texts EXCEPT ![p.kind] = [s EXCEPT !.displayed = TRUE]]
    BY <1>6, <1>11 DEF s, t
  <2>2. x \in PidsType /\ OtherItems(x, r.pids, p.kind)
    BY <1>6, <1>11
  <2>3. p.kind \notin Lasting
    BY DEF Lasting
  <2> QED
    BY <1>1, <1>12, <2>1, <2>2, <2>3, TextShown
<1>13. ASSUME Complete(s)
       PROVE  /\ p.kind = "universal_short_name" => TextStep(r, p, [pids |-> sf, told |-> n, updated |-> TRUE])
              /\ p.kind = "slogan" /\ d.pids.texts["long_name"].displayed =>
                    TextStep(r, p, [pids |-> sd, told |-> r.told, updated |-> TRUE])
              /\ p.kind = "slogan" => TextStep(r, p, [pids |-> sd, told |-> u, updated |-> TRUE])
  <2>1. p.kind = "universal_short_name" => TextTitles(r, p.kind, s, TRUE, sf, n)
    BY <1>6, <1>7, <1>11, Zenon DEF TextTitles
  <2>2. p.kind = "slogan" => p.kind # "long_name" /\ p.kind # "universal_short_name"
    OBVIOUS
  <2>3. p.kind = "slogan" => TextTitles(r, p.kind, s, TRUE, sd, u)
    BY <1>6, <1>7, <2>2, Zenon DEF TextTitles
  <2>4. d.pids.texts["long_name"] = r.pids.texts["long_name"]
    <3>1. "long_name" \in Texts /\ "long_name" # p.kind /\ r.pids.texts \in [Texts -> TextType]
      BY KnownFields DEF Texts, Sequenced
    <3>2. d.pids = sd
      BY ONLY <1>4
    <3> QED
      BY <1>6, <3>1, <3>2
  <2>5. ~s.displayed
    BY <1>13 DEF Complete
  <2>6. p.kind = "slogan" /\ d.pids.texts["long_name"].displayed => TextTitles(r, p.kind, s, TRUE, sd, r.told)
    BY <1>6, <2>2, <2>4, <2>5, Zenon DEF TextTitles
  <2> QED
    BY <1>7, <1>12, <1>13, <2>1, <2>3, <2>6, Zenon
<1>14. CASE ~Complete(s)
  BY <1>9, <1>10, <1>14, Zenon
<1>15. CASE Complete(s) /\ p.kind = "universal_short_name"
  <2>1. UniversalShortStationName(r, p) = [d EXCEPT !.pids.universal_short_name_final = s.text, !.told.name = s.text]
    BY <1>9, <1>15
  <2> QED
    BY <1>8, <1>13, <1>15, <2>1, Zenon
<1>16. CASE Complete(s) /\ p.kind = "slogan" /\ d.pids.texts["long_name"].displayed
  <2>1. UniversalShortStationName(r, p) = d
    BY <1>9, <1>16
  <2> QED
    BY <1>4, <1>13, <1>16, <2>1, Zenon
<1>17. CASE Complete(s) /\ p.kind = "slogan" /\ ~d.pids.texts["long_name"].displayed
  <2>1. UniversalShortStationName(r, p) = SloganTold(d, "slogan", s.text)
    BY <1>9, <1>17
  <2> QED
    BY <1>8, <1>13, <1>17, <2>1, Zenon
<1> QED
  BY <1>14, <1>15, <1>16, <1>17

LEMMA EmergencyAlertStep ==
    ASSUME NEW r \in KnownType, NEW p \in Messages, p.kind = "alert"
    PROVE  TextStep(r, p, EmergencyAlert(r, p))
<1> DEFINE z == [r.pids EXCEPT !.alert_timeout = 0]
           a == [r EXCEPT !.pids.alert_timeout = 0]
           s == Stored(r.pids.texts[p.kind], p)
           t == [s EXCEPT !.displayed = TRUE]
           e == Collected(a, p)
           d == Displayed(e, p.kind)
           st == WithText(z, p.kind, s)
           sd == WithText(z, p.kind, t)
           u == [r.told EXCEPT !.alert = s.text]
           ready == Complete(s) /\ Verified(s)
<1>1. p.kind \in Texts
  BY DEF Texts, Sequenced
<1>2. /\ z \in PidsType /\ z.texts = r.pids.texts /\ z.alert_timeout = 0
      /\ z.station_id = r.pids.station_id /\ z.location = r.pids.location /\ z.short_name = r.pids.short_name
      /\ z.universal_short_name_final = r.pids.universal_short_name_final
      /\ z.audio_services = r.pids.audio_services /\ z.data_services = r.pids.data_services
  BY KnownFields, PidsConstants DEF PidsType
<1>3. a = [pids |-> z, told |-> r.told, updated |-> r.updated]
  <2>1. r = [pids |-> r.pids, told |-> r.told, updated |-> r.updated]
    BY KnownFields
  <2> QED
    BY <2>1
<1> HIDE DEF z, a
<1>4. a \in KnownType /\ a.pids = z /\ a.told = r.told /\ (a.updated <=> r.updated)
  BY <1>2, <1>3, KnownFields DEF KnownType
<1>5. a.pids.texts[p.kind] = r.pids.texts[p.kind]
  BY <1>2, <1>4
<1> DEFINE x == Stored(a.pids.texts[p.kind], p)
           y == [x EXCEPT !.displayed = TRUE]
<1>6. /\ x \in TextType /\ y \in TextType
      /\ e = [pids |-> WithText(a.pids, p.kind, x), told |-> a.told, updated |-> a.updated]
      /\ e.pids.texts[p.kind] = x
      /\ d = [pids |-> WithText(a.pids, p.kind, y), told |-> a.told, updated |-> TRUE]
  BY <1>1, <1>4, CollectedIs
<1>7. x = s /\ y = t
  BY <1>5
<1> HIDE DEF x, y, s, t, e, d
<1>8. /\ s \in TextType /\ t \in TextType
      /\ e = [pids |-> st, told |-> a.told, updated |-> a.updated] /\ e.pids.texts[p.kind] = s
      /\ d = [pids |-> sd, told |-> r.told, updated |-> TRUE]
  BY <1>4, <1>6, <1>7, Zenon
<1> USE DEF s, t, e, d
<1>9. e = Collected([r EXCEPT !.pids.alert_timeout = 0], p)
      /\ d = Displayed(Collected([r EXCEPT !.pids.alert_timeout = 0], p), "alert")
  BY DEF a
<1>10. /\ st \in PidsType /\ st.texts = [r.pids.texts EXCEPT ![p.kind] = s] /\ OtherItems(st, r.pids, p.kind)
       /\ sd \in PidsType /\ sd.texts = [r.pids.texts EXCEPT ![p.kind] = t] /\ OtherItems(sd, r.pids, p.kind)
       /\ \A w \in {st, sd} : /\ w.short_name = r.pids.short_name
                            /\ w.universal_short_name_final = r.pids.universal_short_name_final
  <2> HIDE DEF s, t
  <2> QED
    BY <1>1, <1>2, <1>8, WithTextType DEF OtherItems
<1> HIDE DEF e, d, st, sd
<1>11. /\ u \in ToldType /\ OtherTold(u, r.told, p.kind) /\ u.alert = s.text
       /\ u.name = r.told.name /\ u.slogan = r.told.slogan /\ u.slogan_of = r.told.slogan_of
  BY <1>8, KnownFields DEF OtherTold, ToldType, TextType
<1> HIDE DEF s, t
<1>12. [d EXCEPT !.told.alert = s.text] = [pids |-> sd, told |-> u, updated |-> TRUE]
  <2>1. IsNews(d, sd, r.told)
    BY <1>8 DEF IsNews
  <2>2. Tells(d, sd, r.told)
    BY <2>1, Telling
  <2> QED
    BY ONLY <2>2 DEF Tells
<1>13. EmergencyAlert(r, p) = IF ready THEN [d EXCEPT !.told.alert = s.text] ELSE e
  BY <1>8, <1>9 DEF EmergencyAlert
<1>14. e = [pids |-> st, told |-> r.told, updated |-> r.updated]
  <2>1. a.told = r.told /\ a.updated = r.updated
    BY ONLY <1>3
  <2> QED
    BY <1>8, <2>1, Zenon
<1>15. TextStep(r, p, e)
  BY <1>1, <1>10, <1>14, TextKept DEF s
<1> HIDE DEF u
<1>16. ASSUME ready PROVE TextStep(r, p, [pids |-> sd, told |-> u, updated |-> TRUE])
  <2>1. s = Stored(r.pids.texts[p.kind], p) /\ sd.texts = [r.pids.texts EXCEPT ![p.kind] = [s EXCEPT !.displayed = TRUE]]
    BY <1>10 DEF s, t
  <2>2. p.kind \notin Lasting
    BY DEF Lasting
  <2>3. p.kind \notin {"long_name", "slogan", "universal_short_name"}
    OBVIOUS
  <2>4. TextTitles(r, p.kind, s, TRUE, sd, u)
    BY <1>10, <1>11, <2>3, Zenon DEF TextTitles
  <2> QED
    BY <1>1, <1>10, <1>11, <1>16, <2>1, <2>2, <2>4, TextShown
<1> QED
  BY <1>12, <1>13, <1>15, <1>16

\* A frame of a text.
LEMMA DecodeText ==
    ASSUME NEW r \in KnownType, NEW p \in Messages, p.kind \in Texts
    PROVE  TextStep(r, p, Decode(r, p))
BY StationLongNameStep, StationMessageStep, UniversalShortStationNameStep, EmergencyAlertStep
   DEF Decode, Texts, Sequenced

\* The version of a text after a frame of it.
Bases == {Mixed, None} \cup 1 .. Versions
BaseAfter(t, p, b) == IF Begins(t, p) \/ b \in {None, p.value} THEN p.value ELSE Mixed

\* A text that is displayed is whole, and has the frames of one version if all
\* that came since it began are of it; unless it was there before a reset.
TextSound(k, t, b) ==
    /\ \A f \in t.have : t.text[f] \in 1 .. Versions
    /\ t.displayed => t.have = Frames /\ (k \in Lasting => t.seq >= 0)
    /\ b # Mixed /\ (k \in Lasting => t.seq >= 0) => \A f \in t.have : t.text[f] = b

LEMMA TextSoundStep ==
    ASSUME NEW p \in Messages, p.kind \in Texts, NEW t \in TextType, NEW b \in Bases,
           TextSound(p.kind, t, b)
    PROVE  /\ BaseAfter(t, p, b) \in Bases
           /\ TextSound(p.kind, Stored(t, p), BaseAfter(t, p, b))
           /\ Stored(t, p).displayed /\ BaseAfter(t, p, b) # Mixed => b # Mixed /\ Stored(t, p).text = t.text
<1> DEFINE s == Stored(t, p)
           e == BaseAfter(t, p, b)
<1>1. /\ s \in TextType
      /\ p.frame \in Frames /\ p.value \in 1 .. Versions
      /\ Begins(t, p) => s.seq >= 0 /\ s.have = {p.frame} /\ s.displayed = FALSE
      /\ ~Begins(t, p) => /\ s.seq = t.seq /\ s.have = t.have \cup {p.frame} /\ s.displayed = t.displayed
                          /\ \A f \in Frames \ {p.frame} : s.text[f] = t.text[f]
      /\ s.text[p.frame] = p.value
  BY StoredType
<1>2. t.have \in SUBSET Frames /\ t.text \in Pages /\ s.have \in SUBSET Frames /\ s.text \in Pages
  BY <1>1 DEF TextType
<1>3. e \in Bases /\ Mixed \notin 1 .. Versions /\ None \notin 1 .. Versions /\ None # Mixed
  BY <1>1 DEF BaseAfter, Bases, Mixed, None
<1> HIDE DEF s, e
<1>4. CASE Begins(t, p)
  <2>1. e = p.value
    BY <1>4 DEF e, BaseAfter
  <2> QED
    BY <1>1, <1>3, <1>4, <2>1 DEF TextSound, s, e
<1>5. CASE ~Begins(t, p)
  <2>1. \A f \in s.have : s.text[f] \in 1 .. Versions
    BY <1>1, <1>2, <1>5 DEF TextSound
  <2>2. s.displayed => t.displayed
    BY <1>1, <1>5, Zenon
  <2>3. t.displayed => t.have = Frames /\ (p.kind \in Lasting => t.seq >= 0)
    BY DEF TextSound
  <2>4. s.displayed => s.have = Frames /\ (p.kind \in Lasting => s.seq >= 0)
    BY <1>1, <1>5, <2>2, <2>3
  <2>5. ASSUME e # Mixed, p.kind \in Lasting => s.seq >= 0
        PROVE  e = p.value /\ b # Mixed /\ \A f \in t.have : t.text[f] = p.value
    <3>1. b \in {None, p.value} /\ e = p.value /\ b # Mixed
      BY <1>1, <1>3, <1>5, <2>5 DEF e, BaseAfter
    <3>2. \A f \in t.have : t.text[f] = b
      BY <1>1, <1>5, <2>5, <3>1 DEF TextSound
    <3>3. \A f \in t.have : t.text[f] # None
      BY <1>3 DEF TextSound
    <3> QED
      BY <3>1, <3>2, <3>3
  <2>6. e # Mixed /\ (p.kind \in Lasting => s.seq >= 0) => \A f \in s.have : s.text[f] = e
    <3> SUFFICES ASSUME e # Mixed, p.kind \in Lasting => s.seq >= 0, NEW f \in s.have PROVE s.text[f] = e
      OBVIOUS
    <3>1. f = p.frame \/ (f \in t.have /\ f \in Frames \ {p.frame})
      BY <1>1, <1>2, <1>5
    <3> QED
      BY <1>1, <1>5, <2>5, <3>1
  <2>7. s.displayed /\ e # Mixed => b # Mixed /\ s.text = t.text
    <3> SUFFICES ASSUME s.displayed, e # Mixed PROVE b # Mixed /\ s.text = t.text
      OBVIOUS
    <3>1. t.have = Frames /\ (p.kind \in Lasting => s.seq >= 0)
      BY <1>1, <1>5, <2>2, <2>3
    <3>2. b # Mixed /\ \A f \in Frames : t.text[f] = p.value
      BY <2>5, <3>1
    <3>3. \A f \in Frames : s.text[f] = t.text[f]
      BY <1>1, <1>5, <3>2
    <3> QED
      BY <1>2, <3>2, <3>3 DEF Pages
  <2> QED
    BY <1>3, <2>1, <2>4, <2>6, <2>7 DEF TextSound, s, e
<1> QED
  BY <1>4, <1>5

WholeText(text) == \E v \in Contents : text = Whole(v)

\* The name and the slogan that were told, and those that are known now.
TitlesSound(st, td, bs) ==
    LET slogan == st.texts["slogan"]
        long == st.texts["long_name"]
    IN  /\ IF st.texts["universal_short_name"].displayed
           THEN td.name \in {st.universal_short_name_final, Whole(st.short_name)}
           ELSE st.short_name = None \/ td.name = Whole(st.short_name)
        /\ long.displayed /\ ~slogan.displayed =>
                td.slogan_of = "long_name" /\ (bs["long_name"] # Mixed => td.slogan = long.text)
        /\ slogan.displayed =>
                td.slogan_of = "long_name" \/ (bs["slogan"] # Mixed => td.slogan = slogan.text)

\* What is known, told and sent belongs together.
PidsSound(st, td, bs) ==
    /\ Known(st, td)
    /\ \A k \in Texts : TextSound(k, st.texts[k], bs[k])
    /\ WholeText(td.message) /\ WholeText(td.alert)
    /\ st.texts["message"].displayed /\ bs["message"] # Mixed => td.message = st.texts["message"].text
    /\ st.texts["alert"].displayed /\ bs["alert"] # Mixed => td.alert = st.texts["alert"].text
    /\ st.texts["alert"].displayed => td.alert # Blank
    /\ TitlesSound(st, td, bs)

\* The SIS event shows what has been told.
SisSound(ss, st, td, bs) ==
    /\ ss.station_id # None => td.station_id = ss.station_id
    /\ ss.location # Blank => td.location = ss.location
    /\ \A prog \in 0 .. Programs - 1 :
            ss.audio_services[prog] # None => td.audio_services[prog] = ss.audio_services[prog]
    /\ ss.data_services \subseteq td.data_services
    /\ bs["message"] = Mixed \/ ss.message \in {Blank, td.message} \/ ~st.texts["message"].displayed
    /\ bs["alert"] = Mixed \/ ss.alert \in {Blank, td.alert} \/ ~st.texts["alert"].displayed

\* A short message keeps it.
LEMMA SoundShort ==
    ASSUME NEW r \in KnownType, NEW d, ShortStep(r, d), NEW bs, PidsSound(r.pids, r.told, bs),
           NEW ss
    PROVE  /\ d \in KnownType /\ PidsSound(d.pids, d.told, bs)
           /\ ~r.updated /\ SisSound(ss, r.pids, r.told, bs) /\ ~d.updated => SisSound(ss, d.pids, d.told, bs)
<1>1. d \in KnownType /\ PidsSound(d.pids, d.told, bs)
  <2>1. /\ d.pids.texts = r.pids.texts /\ ShortTitles(d.pids, r.pids, d.told, r.told)
        /\ TitlesSound(r.pids, r.told, bs)
    BY DEF ShortStep, PidsSound
  <2>2. TitlesSound(d.pids, d.told, bs)
    BY <2>1, Zenon DEF ShortTitles, TitlesSound
  <2> QED
    BY <2>2 DEF ShortStep, PidsSound
<1>2. ASSUME SisSound(ss, r.pids, r.told, bs), ~d.updated PROVE SisSound(ss, d.pids, d.told, bs)
  BY <1>2, Zenon DEF ShortStep, SisSound, SameTold
<1> QED
  BY <1>1, <1>2

LEMMA WholeTexts ==
    ASSUME NEW v \in 1 .. Versions
    PROVE  Whole(v) # Blank /\ WholeText(Whole(v)) /\ WholeText(Blank)
<1>1. 0 \in Frames /\ v # 0 /\ v \in Contents /\ None \in Contents
  BY PidsConstants DEF Frames, Contents, None
<1>2. Whole(v)[0] = v /\ Blank[0] = 0
  BY <1>1 DEF Whole, Blank, None
<1> QED
  BY <1>1, <1>2 DEF WholeText, Blank

\* The versions of the texts after a message.
BasesAfter(st, p, bs) ==
    IF p.kind \in Texts THEN [bs EXCEPT ![p.kind] = BaseAfter(st.texts[p.kind], p, @)] ELSE bs

\* What becomes of the text k and its version, with regard to the titles.
TitlesStep(r, k, s, d, bs, cs) ==
    /\ \A j \in Texts \ {k} : d.pids.texts[j] = r.pids.texts[j] /\ cs[j] = bs[j]
    /\ TextTitles(r, k, s, d.pids.texts[k].displayed, d.pids, d.told)
    /\ d.pids.texts[k].text = s.text
    /\ s.displayed => r.pids.texts[k].displayed
    /\ s.displayed /\ cs[k] # Mixed => bs[k] # Mixed /\ s.text = r.pids.texts[k].text
    /\ k \notin Sequenced => (s.displayed <=> r.pids.texts[k].displayed)

\* A frame of a text keeps what was told of the name and the slogan.
LEMMA TitlesText ==
    ASSUME NEW r, NEW k \in Texts, NEW s, NEW d, NEW bs, NEW cs,
           TitlesSound(r.pids, r.told, bs), TitlesStep(r, k, s, d, bs, cs)
    PROVE  TitlesSound(d.pids, d.told, cs)
<1> DEFINE old == r.pids.texts
           new == d.pids.texts
<1>1. /\ {"slogan", "long_name", "universal_short_name"} \subseteq Texts
      /\ "slogan" \notin Sequenced /\ "universal_short_name" \notin Sequenced
  BY DEF Texts, Sequenced
<1>2. IF new["universal_short_name"].displayed
      THEN d.told.name \in {d.pids.universal_short_name_final, Whole(d.pids.short_name)}
      ELSE d.pids.short_name = None \/ d.told.name = Whole(d.pids.short_name)
  <2>1. IF old["universal_short_name"].displayed
        THEN r.told.name \in {r.pids.universal_short_name_final, Whole(r.pids.short_name)}
        ELSE r.pids.short_name = None \/ r.told.name = Whole(r.pids.short_name)
    BY DEF TitlesSound
  <2>2. CASE k = "universal_short_name"
    <3>1. s.displayed <=> old["universal_short_name"].displayed
      BY <1>1, <2>2, Zenon DEF TitlesStep
    <3> QED
      BY <2>1, <2>2, <3>1, Zenon DEF TitlesStep, TextTitles
  <2>3. CASE k # "universal_short_name"
    <3>1. new["universal_short_name"] = old["universal_short_name"]
      BY <1>1, <2>3 DEF TitlesStep
    <3> QED
      BY <2>1, <2>3, <3>1, Zenon DEF TitlesStep, TextTitles
  <2> QED
    BY <2>2, <2>3
<1>3. /\ old["long_name"].displayed /\ ~old["slogan"].displayed =>
            r.told.slogan_of = "long_name" /\ (bs["long_name"] # Mixed => r.told.slogan = old["long_name"].text)
      /\ old["slogan"].displayed =>
            r.told.slogan_of = "long_name" \/ (bs["slogan"] # Mixed => r.told.slogan = old["slogan"].text)
  BY Zenon DEF TitlesSound
<1> DEFINE Slogan ==
      /\ new["long_name"].displayed /\ ~new["slogan"].displayed =>
            d.told.slogan_of = "long_name" /\ (cs["long_name"] # Mixed => d.told.slogan = new["long_name"].text)
      /\ new["slogan"].displayed =>
            d.told.slogan_of = "long_name" \/ (cs["slogan"] # Mixed => d.told.slogan = new["slogan"].text)
<1>4. CASE k = "long_name"
  <2>1. /\ new["slogan"] = old["slogan"] /\ cs["slogan"] = bs["slogan"] /\ new["long_name"].text = s.text
        /\ s.displayed => old["long_name"].displayed
        /\ s.displayed /\ cs["long_name"] # Mixed => bs["long_name"] # Mixed /\ s.text = old["long_name"].text
        /\ k # "slogan"
    BY <1>1, <1>4 DEF TitlesStep
  <2>2. \/ /\ d.told.slogan = r.told.slogan /\ d.told.slogan_of = r.told.slogan_of
           /\ (new["long_name"].displayed <=> s.displayed) \/ old["slogan"].displayed
        \/ d.told.slogan = s.text /\ d.told.slogan_of = "long_name"
    BY <1>4, Zenon DEF TitlesStep, TextTitles
  <2>3. Slogan
    BY <1>3, <2>1, <2>2, Zenon
  <2> QED
    BY <1>2, <2>3, Zenon DEF TitlesSound
<1>5. CASE k = "slogan"
  <2>1. /\ new["long_name"] = old["long_name"] /\ cs["long_name"] = bs["long_name"] /\ new["slogan"].text = s.text
        /\ s.displayed <=> old["slogan"].displayed
        /\ s.displayed /\ cs["slogan"] # Mixed => bs["slogan"] # Mixed /\ s.text = old["slogan"].text
    BY <1>1, <1>5 DEF TitlesStep
  <2>2. \/ /\ d.told.slogan = r.told.slogan /\ d.told.slogan_of = r.told.slogan_of
           /\ \/ new["slogan"].displayed <=> s.displayed
              \/ ~s.displayed /\ old["long_name"].displayed
        \/ d.told.slogan = s.text /\ new["slogan"].displayed
    BY <1>5, Zenon DEF TitlesStep, TextTitles
  <2>3. Slogan
    BY <1>3, <2>1, <2>2, Zenon
  <2> QED
    BY <1>2, <2>3, Zenon DEF TitlesSound
<1>6. CASE k \notin {"long_name", "slogan"}
  <2>1. /\ new["long_name"] = old["long_name"] /\ cs["long_name"] = bs["long_name"]
        /\ new["slogan"] = old["slogan"] /\ cs["slogan"] = bs["slogan"]
        /\ k # "long_name" /\ k # "slogan"
    BY <1>1, <1>6 DEF TitlesStep
  <2>2. d.told.slogan = r.told.slogan /\ d.told.slogan_of = r.told.slogan_of
    BY <1>6, Zenon DEF TitlesStep, TextTitles
  <2>3. Slogan
    BY <1>3, <2>1, <2>2, Zenon
  <2> QED
    BY <1>2, <2>3, Zenon DEF TitlesSound
<1> QED
  BY <1>4, <1>5, <1>6

\* A frame of a text keeps it.
LEMMA SoundText ==
    ASSUME NEW r \in KnownType, NEW p \in Messages, p.kind \in Texts, NEW d, TextStep(r, p, d),
           NEW bs \in [Texts -> Bases], PidsSound(r.pids, r.told, bs), NEW cs,
           cs = BasesAfter(r.pids, p, bs), NEW ss
    PROVE  /\ d \in KnownType /\ cs \in [Texts -> Bases] /\ PidsSound(d.pids, d.told, cs)
           /\ SisSound(ss, r.pids, r.told, bs) /\ ~d.updated => SisSound(ss, d.pids, d.told, cs)
<1> DEFINE k == p.kind
           old == r.pids.texts[k]
           s == Stored(old, p)
           t == d.pids.texts[k]
           b == bs[k]
           c == BaseAfter(old, p, b)
<1>1. d \in KnownType /\ k \in Texts /\ old \in TextType /\ b \in Bases /\ d.pids.texts \in [Texts -> TextType]
  BY KnownFields DEF TextStep
<1>2. TextSound(k, old, b)
  BY DEF PidsSound
<1>3. /\ c \in Bases /\ TextSound(k, s, c)
      /\ s.displayed /\ c # Mixed => b # Mixed /\ s.text = old.text
  BY <1>1, <1>2, TextSoundStep
<1>4. s \in TextType /\ p.value \in 1 .. Versions
  BY <1>1, StoredType
<1>5. cs \in [Texts -> Bases] /\ cs[k] = c /\ \A j \in Texts \ {k} : cs[j] = bs[j]
  <2>1. cs = [bs EXCEPT ![k] = c]
    BY DEF BasesAfter
  <2> HIDE DEF c
  <2> QED
    BY <1>3, <2>1
<1>6. /\ d.pids.station_id = r.pids.station_id /\ d.pids.location = r.pids.location
      /\ d.pids.audio_services = r.pids.audio_services /\ d.pids.data_services = r.pids.data_services
      /\ d.told.station_id = r.told.station_id /\ d.told.location = r.told.location
      /\ d.told.audio_services = r.told.audio_services /\ d.told.data_services = r.told.data_services
      /\ \A j \in Texts \ {k} : d.pids.texts[j] = r.pids.texts[j]
  BY DEF TextStep
<1>7. /\ t.seq = s.seq /\ t.have = s.have /\ t.text = s.text
      /\ k # "message" => d.told.message = r.told.message
      /\ k # "alert" => d.told.alert = r.told.alert
      /\ \/ /\ t.displayed <=> s.displayed
            /\ d.told.message = r.told.message /\ d.told.alert = r.told.alert
         \/ /\ t.displayed /\ d.updated
            /\ s.have = Frames /\ (k \in Lasting => s.seq >= 0)
            /\ k = "message" => d.told.message = s.text /\ Verified(s)
            /\ k = "alert" => d.told.alert = s.text /\ Verified(s)
  BY DEF TextStep
<1> HIDE DEF old, s, t, b, c
<1>8. TextSound(k, t, c)
  BY <1>3, <1>7, Zenon DEF TextSound
<1>9. \A j \in Texts : TextSound(j, d.pids.texts[j], cs[j])
  <2> SUFFICES ASSUME NEW j \in Texts, j # k PROVE TextSound(j, d.pids.texts[j], cs[j])
    BY <1>5, <1>8 DEF t
  <2> QED
    BY <1>5, <1>6 DEF PidsSound
<1>10. Known(d.pids, d.told)
  BY <1>6 DEF PidsSound, Known
<1>11. Verified(s) => WholeText(s.text) /\ s.text # Blank
  BY WholeTexts DEF Verified
<1>12. WholeText(d.told.message) /\ WholeText(d.told.alert)
  BY <1>7, <1>11, Zenon DEF PidsSound
<1>13. {"message", "alert"} \subseteq Texts
  BY DEF Texts, Sequenced
<1>14. s.displayed => old.displayed
  <2>1. s.displayed => old.displayed \/ s.displayed = FALSE
    BY <1>1, StoredType DEF s
  <2> QED
    BY <2>1, Zenon
<1>18. k \notin Sequenced => (s.displayed <=> old.displayed)
  <2>1. k \notin Sequenced => ~Begins(old, p)
    BY DEF Begins
  <2> QED
    BY <1>1, <2>1, StoredType DEF s
<1>19. TitlesSound(d.pids, d.told, cs)
  <2>1. TextTitles(r, k, s, d.pids.texts[k].displayed, d.pids, d.told) /\ TitlesSound(r.pids, r.told, bs)
    BY Zenon DEF TextStep, PidsSound, s, old
  <2>3. \A j \in Texts \ {k} : d.pids.texts[j] = r.pids.texts[j] /\ cs[j] = bs[j]
    BY <1>5, <1>6
  <2>4. TitlesStep(r, k, s, d, bs, cs)
    BY <1>3, <1>5, <1>7, <1>14, <1>18, <2>1, <2>3, Zenon DEF TitlesStep, t, b, old
  <2>5. k \in Texts /\ TitlesSound(r.pids, r.told, bs)
    BY <1>1, <2>1
  <2> HIDE DEF k
  <2> QED
    BY <2>4, <2>5, TitlesText
<1>15. CASE k = "message"
  <2>1. d.pids.texts["alert"] = r.pids.texts["alert"] /\ d.told.alert = r.told.alert /\ cs["alert"] = bs["alert"]
    BY <1>5, <1>6, <1>7, <1>13, <1>15
  <2>2. t.displayed /\ c # Mixed => d.told.message = t.text
    BY <1>3, <1>7, <1>14, <1>15, Zenon DEF PidsSound, b, old
  <2>3. ~d.updated /\ t.displayed /\ c # Mixed =>
            b # Mixed /\ old.displayed /\ d.told.message = r.told.message
    BY <1>3, <1>7, <1>14, Zenon
  <2>4. PidsSound(d.pids, d.told, cs)
    BY <1>5, <1>9, <1>10, <1>12, <1>15, <1>19, <2>1, <2>2, Zenon DEF PidsSound, t
  <2>5. SisSound(ss, r.pids, r.told, bs) /\ ~d.updated => SisSound(ss, d.pids, d.told, cs)
    BY <1>5, <1>6, <1>15, <2>1, <2>3, Zenon DEF SisSound, t, b, old
  <2> QED
    BY <1>1, <1>5, <2>4, <2>5
<1>16. CASE k = "alert"
  <2>1. d.pids.texts["message"] = r.pids.texts["message"] /\ d.told.message = r.told.message /\ cs["message"] = bs["message"]
    BY <1>5, <1>6, <1>7, <1>13, <1>16
  <2>2. t.displayed /\ c # Mixed => d.told.alert = t.text
    BY <1>3, <1>7, <1>14, <1>16, Zenon DEF PidsSound, b, old
  <2>3. ~d.updated /\ t.displayed /\ c # Mixed =>
            b # Mixed /\ old.displayed /\ d.told.alert = r.told.alert
    BY <1>3, <1>7, <1>14, Zenon
  <2>4. t.displayed => d.told.alert # Blank
    BY <1>7, <1>11, <1>16, <1>14, Zenon DEF PidsSound, old
  <2>5. PidsSound(d.pids, d.told, cs)
    BY <1>5, <1>9, <1>10, <1>12, <1>16, <1>19, <2>1, <2>2, <2>4, Zenon DEF PidsSound, t
  <2>6. SisSound(ss, r.pids, r.told, bs) /\ ~d.updated => SisSound(ss, d.pids, d.told, cs)
    BY <1>5, <1>6, <1>16, <2>1, <2>3, Zenon DEF SisSound, t, b, old
  <2> QED
    BY <1>1, <1>5, <2>5, <2>6
<1>17. CASE k \notin {"message", "alert"}
  <2>1. /\ d.pids.texts["message"] = r.pids.texts["message"] /\ d.told.message = r.told.message /\ cs["message"] = bs["message"]
        /\ d.pids.texts["alert"] = r.pids.texts["alert"] /\ d.told.alert = r.told.alert /\ cs["alert"] = bs["alert"]
    BY <1>5, <1>6, <1>7, <1>13, <1>17
  <2>2. PidsSound(d.pids, d.told, cs)
    BY <1>9, <1>10, <1>12, <1>19, <2>1, Zenon DEF PidsSound
  <2>3. SisSound(ss, r.pids, r.told, bs) /\ ~d.updated => SisSound(ss, d.pids, d.told, cs)
    BY <1>6, <2>1, Zenon DEF SisSound
  <2> QED
    BY <1>1, <1>5, <2>2, <2>3
<1> QED
  BY <1>15, <1>16, <1>17

\* The bits of a message, with those before it.
Bits(bits, p) == bits + 4 + Size(p.kind)

BitsRuns(A, b, q) ==
    \E h \in [0 .. Len(q) -> A] :
        /\ h[0] = b /\ h[Len(q)] = FoldLeft(Bits, b, q)
        /\ \A k \in 1 .. Len(q) : h[k] = Bits(h[k - 1], q[k])

LEMMA BitsFold ==
    ASSUME NEW A, NEW X, \A a \in A, x \in X : Bits(a, x) \in A, NEW b \in A, NEW q \in Seq(X)
    PROVE  BitsRuns(A, b, q)
<1> DEFINE n == Len(q)
           F == [ax \in A \X X |-> Bits(ax[1], ax[2])]
<1>1. n \in Nat /\ DOMAIN q = 1 .. n /\ q \in [1 .. n -> X] /\ n = Len(q)
  OBVIOUS
<1>2. F \in [A \X X -> A] /\ \A a \in A, x \in X : F[<<a, x>>] = Bits(a, x)
  OBVIOUS
<1> HIDE DEF n, F
<1>3. PICK g \in [SUBSET (1 .. n) -> A] : IsFold(g, n, F, b, q)
  <2>1. b \in A
    OBVIOUS
  <2> QED
    BY <1>1, <1>2, <2>1, FoldExists, Zenon
<1> DEFINE Iter(e) == e = [s \in SUBSET (1 .. n) |-> IF s = {} THEN b ELSE Bits(e[s \ {Max(s)}], q[Max(s)])]
           i == CHOOSE e : Iter(e)
<1>4. Iter(g)
  <2>1. \A s \in SUBSET (1 .. n) : s # {} => Max(s) \in 1 .. n /\ s \ {Max(s)} \in SUBSET (1 .. n)
    BY MaxIs, <1>1
  <2>2. \A s \in SUBSET (1 .. n) :
          s # {} => F[<<g[s \ {Max(s)}], q[Max(s)]>>] = Bits(g[s \ {Max(s)}], q[Max(s)])
    BY <2>1, <1>1, <1>2
  <2> QED
    BY <1>3, <2>2 DEF IsFold
<1>5. Iter(i)
  BY <1>4
<1>6. FoldLeft(Bits, b, q) = i[1 .. n]
  BY <1>1 DEF FoldLeft, MapThenFoldSet
<1> HIDE DEF i
<1>7. i[{}] = b /\ \A k \in 1 .. n : i[1 .. k] = Bits(i[1 .. k - 1], q[k])
  <2>1. \A s \in SUBSET (1 .. n) : i[s] = IF s = {} THEN b ELSE Bits(i[s \ {Max(s)}], q[Max(s)])
    BY <1>5
  <2>2. {} \in SUBSET (1 .. n)
    OBVIOUS
  <2>3. i[{}] = b
    BY <2>1, <2>2
  <2>4. ASSUME NEW k \in 1 .. n PROVE i[1 .. k] = Bits(i[1 .. k - 1], q[k])
    <3>1. 1 .. k # {} /\ 1 .. k \in SUBSET (1 .. n) /\ Max(1 .. k) = k /\ (1 .. k) \ {k} = 1 .. k - 1
      BY <1>1, Segments
    <3> QED
      BY <2>1, <3>1
  <2> QED
    BY <2>3, <2>4
<1>8. IsIter(i, A, F, b, q)
  BY <1>1, <1>2, <1>7 DEF IsIter
<1>9. PICK h \in [0 .. Len(q) -> A] : IsRun(h, F, b, q) /\ h[Len(q)] = i[1 .. Len(q)]
  <2>1. b \in A /\ q \in Seq(X)
    OBVIOUS
  <2>2. HasRun(A, F, b, q, i[1 .. Len(q)])
    BY <1>2, <1>8, <2>1, FoldRun
  <2> QED
    BY <2>2 DEF HasRun
<1>10. \A k \in 1 .. n : F[<<h[k - 1], q[k]>>] = Bits(h[k - 1], q[k])
  <2>1. \A k \in 1 .. n : k - 1 \in 0 .. Len(q) /\ q[k] \in X
    BY <1>1
  <2> QED
    BY <1>2, <2>1
<1> QED
  BY <1>1, <1>6, <1>9, <1>10 DEF IsRun, BitsRuns

LEMMA SequenceOfTwo ==
    ASSUME NEW X, NEW p \in X, NEW q \in X
    PROVE  <<p>> \in Seq(X) /\ Len(<<p>>) = 1 /\ <<p, q>> \in Seq(X) /\ Len(<<p, q>>) = 2
OBVIOUS

\* Two messages in a frame are short ones.
LEMMA FitTwo ==
    ASSUME NEW p \in Messages, NEW q \in Messages, Fit(<<p, q>>)
    PROVE  p.kind \in Shorts /\ q.kind \in Shorts
<1> DEFINE s == <<p, q>>
<1>1. \A m \in Messages : m.kind \in Texts \cup Shorts /\ Size(m.kind) \in Nat /\ Size(m.kind) >= 22
                          /\ (m.kind \in Texts => Size(m.kind) = 58)
  BY DEF Messages, Size, Texts, Shorts, Sequenced
<1>2. s \in Seq(Messages) /\ Len(s) = 2 /\ s[1] = p /\ s[2] = q
  BY SequenceOfTwo
<1>3. \A a \in Nat, m \in Messages : Bits(a, m) \in Nat
  BY <1>1 DEF Bits
<1>4. FoldLeft(LAMBDA bits, m : bits + 4 + Size(m.kind), 0, s) = FoldLeft(Bits, 0, s)
  BY DEF FoldLeft, MapThenFoldSet, Bits
<1>5. 1 + FoldLeft(LAMBDA bits, m : bits + 4 + Size(m.kind), 0, s) <= 63
  BY DEF Fit
<1> HIDE DEF s
<1>6. PICK h \in [0 .. Len(s) -> Nat] :
              /\ h[0] = 0 /\ h[Len(s)] = FoldLeft(Bits, 0, s)
              /\ \A k \in 1 .. Len(s) : h[k] = Bits(h[k - 1], s[k])
  <2>1. BitsRuns(Nat, 0, s)
    BY <1>2, <1>3, BitsFold
  <2> QED
    BY <2>1 DEF BitsRuns
<1>7. h[1] = 4 + Size(p.kind) /\ h[2] = 4 + Size(p.kind) + 4 + Size(q.kind)
  <2>1. 1 \in 1 .. Len(s) /\ 2 \in 1 .. Len(s) /\ 1 - 1 = 0 /\ 2 - 1 = 1
    BY <1>2
  <2>2. h[1] = Bits(h[0], s[1]) /\ h[2] = Bits(h[1], s[2])
    BY <1>6, <2>1
  <2>3. h[1] = 0 + 4 + Size(p.kind)
    BY <1>2, <1>6, <2>2 DEF Bits
  <2>4. h[2] = h[1] + 4 + Size(q.kind)
    BY <1>2, <2>2 DEF Bits
  <2>5. Size(p.kind) \in Nat /\ Size(q.kind) \in Nat
    BY <1>1
  <2> QED
    BY <2>3, <2>4, <2>5
<1>8. 1 + 4 + Size(p.kind) + 4 + Size(q.kind) <= 63
  <2>1. 1 + h[2] <= 63
    BY <1>2, <1>4, <1>5, <1>6
  <2>2. Size(p.kind) \in Nat /\ Size(q.kind) \in Nat
    BY <1>1
  <2> QED
    BY <1>7, <2>1, <2>2
<1> QED
  BY <1>1, <1>8

\* What is decoded one message at a time.
Sound == {r \in KnownType : Known(r.pids, r.told)}

LEMMA DecodeSound ==
    ASSUME NEW r \in Sound, NEW p \in Messages
    PROVE  Decode(r, p) \in Sound
<1>1. r \in KnownType /\ Known(r.pids, r.told)
  BY DEF Sound
<1>2. CASE p.kind \in Shorts
  BY <1>1, <1>2, DecodeShort DEF ShortStep, Sound
<1>3. CASE p.kind \in Texts
  <2>1. TextStep(r, p, Decode(r, p))
    BY <1>1, <1>3, DecodeText
  <2> DEFINE d == Decode(r, p)
  <2> HIDE DEF d
  <2>2. /\ d \in KnownType
        /\ d.pids.station_id = r.pids.station_id /\ d.pids.location = r.pids.location
        /\ d.pids.audio_services = r.pids.audio_services /\ d.pids.data_services = r.pids.data_services
        /\ d.told.station_id = r.told.station_id /\ d.told.location = r.told.location
        /\ d.told.audio_services = r.told.audio_services /\ d.told.data_services = r.told.data_services
    BY <2>1 DEF d, TextStep
  <2>3. Known(d.pids, d.told)
    BY <1>1, <2>2 DEF Known
  <2>4. d \in Sound
    BY <2>2, <2>3 DEF Sound
  <2> QED
    BY <2>4 DEF d
<1> QED
  BY <1>2, <1>3 DEF Messages

LEMMA DecodeOne ==
    ASSUME NEW r \in Sound, NEW p \in Messages
    PROVE  FoldLeft(Decode, r, <<p>>) = Decode(r, p)
<1> DEFINE s == <<p>>
<1>1. s \in Seq(Messages) /\ Len(s) = 1 /\ s[1] = p
  BY SequenceOfTwo
<1> HIDE DEF s
<1>2. PICK h \in [0 .. Len(s) -> Sound] :
              /\ h[0] = r /\ h[Len(s)] = FoldLeft(Decode, r, s)
              /\ \A k \in 1 .. Len(s) : h[k] = Decode(h[k - 1], s[k])
  <2>1. \A a \in Sound, x \in Messages : Decode(a, x) \in Sound
    BY DecodeSound
  <2>2. DecodeRuns(Sound, r, s)
    BY <1>1, <2>1, DecodeFold
  <2> QED
    BY <2>2 DEF DecodeRuns
<1>3. h[1] = Decode(h[0], s[1])
  <2>1. 1 \in 1 .. Len(s) /\ 1 - 1 = 0
    BY <1>1
  <2> QED
    BY <1>2, <2>1
<1>4. FoldLeft(Decode, r, s) = Decode(r, p)
  BY <1>1, <1>2, <1>3
<1> QED
  BY <1>4 DEF s

LEMMA DecodeTwo ==
    ASSUME NEW r \in Sound, NEW p \in Messages, NEW q \in Messages
    PROVE  FoldLeft(Decode, r, <<p, q>>) = Decode(Decode(r, p), q)
<1> DEFINE s == <<p, q>>
<1>1. s \in Seq(Messages) /\ Len(s) = 2 /\ s[1] = p /\ s[2] = q
  BY SequenceOfTwo
<1> HIDE DEF s
<1>2. PICK h \in [0 .. Len(s) -> Sound] :
              /\ h[0] = r /\ h[Len(s)] = FoldLeft(Decode, r, s)
              /\ \A k \in 1 .. Len(s) : h[k] = Decode(h[k - 1], s[k])
  <2>1. \A a \in Sound, x \in Messages : Decode(a, x) \in Sound
    BY DecodeSound
  <2>2. DecodeRuns(Sound, r, s)
    BY <1>1, <2>1, DecodeFold
  <2> QED
    BY <2>2 DEF DecodeRuns
<1>3. h[1] = Decode(h[0], s[1]) /\ h[2] = Decode(h[1], s[2])
  BY <1>1, <1>2
<1>4. FoldLeft(Decode, r, s) = Decode(Decode(r, p), q)
  BY <1>1, <1>2, <1>3
<1> QED
  BY <1>4 DEF s

-----------------------------------------------------------------------------
(* The invariant of the station information. *)

PidsInv ==
    /\ lineup \in Lineups
    /\ version \in [lineup \cap (Texts \cup Shorts) -> 1 .. Versions]
    /\ pids \in PidsType /\ pids.alert_timeout < AlertLimit
    /\ told \in ToldType /\ sis \in SisType
    /\ silent \in 0 .. AlertLimit
    /\ base \in [Texts -> Bases]
    /\ PidsSound(pids, told, base) /\ SisSound(sis, pids, told, base)
    /\ pids.texts["alert"].displayed => pids.alert_timeout = silent

\* The frame is counted before it is looked into.
LEMMA CountedIs ==
    ASSUME NEW st \in PidsType, st.alert_timeout < AlertLimit
    PROVE  /\ Counted(st) \in PidsType /\ Counted(st).texts = st.texts
           /\ Counted(st).station_id = st.station_id /\ Counted(st).location = st.location
           /\ Counted(st).audio_services = st.audio_services
           /\ Counted(st).data_services = st.data_services
           /\ Counted(st).short_name = st.short_name
           /\ Counted(st).universal_short_name_final = st.universal_short_name_final
           /\ Counted(st).alert_timeout =
                IF st.texts["alert"].displayed THEN st.alert_timeout + 1 ELSE st.alert_timeout
<1>1. st.alert_timeout \in 0 .. AlertLimit
  BY DEF PidsType
<1>2. st.alert_timeout + 1 \in 0 .. AlertLimit
  BY <1>1, PidsConstants
<1> QED
  BY <1>1, <1>2 DEF Counted, PidsType

\* What is decoded may still be withdrawn.
LEMMA WithdrawnSound ==
    ASSUME NEW c \in KnownType, NEW bs \in [Texts -> Bases], PidsSound(c.pids, c.told, bs),
           c.pids.alert_timeout = AlertLimit => c.pids.texts["alert"].displayed,
           NEW ss, ~c.updated => SisSound(ss, c.pids, c.told, bs)
    PROVE  LET w == Withdrawn(c)
               late == c.pids.texts["alert"].displayed /\ c.pids.alert_timeout >= AlertLimit
           IN  /\ w \in KnownType /\ w.pids.alert_timeout < AlertLimit
               /\ PidsSound(w.pids, w.told, bs)
               /\ ~w.updated => SisSound(ss, w.pids, w.told, bs)
               /\ late => w.told.alert = Blank /\ ~w.pids.texts["alert"].displayed
               /\ ~late => w = c
<1> DEFINE w == Withdrawn(c)
           late == c.pids.texts["alert"].displayed /\ c.pids.alert_timeout >= AlertLimit
<1>1. c.pids \in PidsType /\ c.told \in ToldType /\ c.pids.alert_timeout \in 0 .. AlertLimit /\ "alert" \in Texts
  BY KnownFields DEF Texts, Sequenced
<1>2. CASE ~late
  <2>1. w = c
    BY <1>2 DEF Withdrawn
  <2>2. c.pids.alert_timeout < AlertLimit
    BY <1>1, <1>2, PidsConstants
  <2> QED
    BY <1>2, <2>1, <2>2
<1>3. CASE late
  <2> DEFINE z == WithText(c.pids, "alert", NoText)
             st == [z EXCEPT !.alert_timeout = 0]
             td == [c.told EXCEPT !.alert = Blank]
  <2>1. /\ z \in PidsType /\ z.texts["alert"] = NoText
        /\ \A j \in Texts \ {"alert"} : z.texts[j] = c.pids.texts[j]
        /\ z.station_id = c.pids.station_id /\ z.location = c.pids.location
        /\ z.audio_services = c.pids.audio_services /\ z.data_services = c.pids.data_services
        /\ z.short_name = c.pids.short_name
        /\ z.universal_short_name_final = c.pids.universal_short_name_final
    BY <1>1, WithoutAlert
  <2>2. w = [pids |-> st, told |-> td, updated |-> TRUE]
    <3>1. w = [[c EXCEPT !.pids.texts["alert"] = NoText, !.pids.alert_timeout = 0, !.told.alert = Blank]
                EXCEPT !.updated = TRUE]
      BY <1>3 DEF Withdrawn, Updated
    <3>2. c = [pids |-> c.pids, told |-> c.told, updated |-> c.updated]
      BY KnownFields
    <3> QED
      BY <3>1, <3>2 DEF WithText
  <2> HIDE DEF z
  <2>3. /\ st \in PidsType /\ st.texts = z.texts /\ st.alert_timeout = 0
        /\ st.station_id = c.pids.station_id /\ st.location = c.pids.location
        /\ st.audio_services = c.pids.audio_services /\ st.data_services = c.pids.data_services
        /\ st.short_name = c.pids.short_name
        /\ st.universal_short_name_final = c.pids.universal_short_name_final
    BY <2>1, PidsConstants DEF PidsType
  <2>4. /\ td \in ToldType /\ td.alert = Blank /\ td.message = c.told.message
        /\ td.station_id = c.told.station_id /\ td.location = c.told.location
        /\ td.audio_services = c.told.audio_services /\ td.data_services = c.told.data_services
        /\ td.name = c.told.name /\ td.slogan = c.told.slogan /\ td.slogan_of = c.told.slogan_of
    BY <1>1, BlankType DEF ToldType
  <2> HIDE DEF w, st, td
  <2>5. w \in KnownType /\ w.pids = st /\ w.told = td /\ w.updated
    BY <2>2, <2>3, <2>4 DEF KnownType
  <2>6. TextSound("alert", NoText, bs["alert"]) /\ ~NoText.displayed
    BY DEF TextSound, NoText
  <2>7. \A j \in Texts : TextSound(j, st.texts[j], bs[j])
    <3> SUFFICES ASSUME NEW j \in Texts, j # "alert" PROVE TextSound(j, st.texts[j], bs[j])
      BY <2>1, <2>3, <2>6
    <3> QED
      BY <2>1, <2>3 DEF PidsSound
  <2>8. Known(st, td)
    BY <2>3, <2>4 DEF PidsSound, Known
  <2>9. WholeText(Blank) /\ WholeText(c.told.message)
    BY PidsConstants, WholeTexts DEF PidsSound
  <2>10. st.texts["message"] = c.pids.texts["message"] /\ st.texts["alert"] = NoText
    BY <2>1, <2>3 DEF Texts, Sequenced
  <2>14. TitlesSound(st, td, bs)
    <3>1. \A j \in {"universal_short_name", "slogan", "long_name"} : st.texts[j] = c.pids.texts[j]
      BY <2>1, <2>3 DEF Texts, Sequenced
    <3>2. TitlesSound(c.pids, c.told, bs)
      BY DEF PidsSound
    <3>3. /\ st.texts["universal_short_name"] = c.pids.texts["universal_short_name"]
          /\ st.texts["slogan"] = c.pids.texts["slogan"] /\ st.texts["long_name"] = c.pids.texts["long_name"]
      BY <3>1
    <3> QED
      BY <2>3, <2>4, <3>2, <3>3, Zenon DEF TitlesSound
  <2>11. PidsSound(st, td, bs)
    BY <2>4, <2>6, <2>7, <2>8, <2>9, <2>10, <2>14, Zenon DEF PidsSound
  <2>12. 0 < AlertLimit
    BY PidsConstants
  <2>13. /\ w \in KnownType /\ w.pids.alert_timeout < AlertLimit
         /\ PidsSound(w.pids, w.told, bs) /\ w.updated
         /\ w.told.alert = Blank /\ ~w.pids.texts["alert"].displayed
    BY <2>3, <2>4, <2>5, <2>6, <2>10, <2>11, <2>12
  <2> QED
    BY <1>3, <2>13 DEF w
<1> QED
  BY <1>2, <1>3

\* What the SIS event says.
LEMMA ReportSound ==
    ASSUME NEW st \in PidsType, NEW td \in ToldType, NEW bs, PidsSound(st, td, bs)
    PROVE  Report(st) \in SisType /\ SisSound(Report(st), st, td, bs)
<1> DEFINE Shown(k) == IF st.texts[k].displayed THEN st.texts[k].text ELSE Blank
           ss == Report(st)
<1>1. /\ st.station_id \in Contents /\ st.short_name \in Contents /\ st.location \in Pages
      /\ st.audio_services \in AudioType /\ st.data_services \in Seq(1 .. Versions)
      /\ st.universal_short_name_final \in Pages /\ st.texts \in [Texts -> TextType]
  BY DEF PidsType, DataType
<1>2. \A k \in Texts : Shown(k) \in Pages
  BY <1>1, BlankType DEF TextType
<1>3. Range(st.data_services) \in SUBSET (1 .. Versions) /\ Whole(st.short_name) \in Pages /\ Blank \in Pages
  <2>1. \A s \in Seq(1 .. Versions) : Range(s) \in SUBSET (1 .. Versions)
    <3> DEFINE P == 1 .. Versions
    <3>1. \A s \in Seq(P) : Range(s) \in SUBSET P
      <4> HIDE DEF P
      <4> SUFFICES ASSUME NEW s \in Seq(P) PROVE \A i \in DOMAIN s : s[i] \in P
        BY DEF Range
      <4> QED
        OBVIOUS
    <3> QED
      BY <3>1
  <2> QED
    BY <1>1, <2>1, BlankType DEF Whole, Pages
<1>4. {"slogan", "long_name", "message", "alert"} \subseteq Texts
  BY DEF Texts, Sequenced
<1>5. ss = [station_id |-> st.station_id,
            name |-> IF st.texts["universal_short_name"].displayed
                     THEN st.universal_short_name_final ELSE Whole(st.short_name),
            slogan |-> IF st.texts["slogan"].displayed THEN Shown("slogan") ELSE Shown("long_name"),
            message |-> Shown("message"), alert |-> Shown("alert"),
            location |-> IF st.location[0] # None /\ st.location[1] # None THEN st.location ELSE Blank,
            audio_services |-> st.audio_services,
            data_services |-> Range(st.data_services)]
  BY DEF Report
<1> HIDE DEF ss, Shown
<1>6. ss \in SisType
  BY <1>1, <1>2, <1>3, <1>4, <1>5 DEF SisType
<1>7. /\ ss.station_id = st.station_id /\ ss.message = Shown("message") /\ ss.alert = Shown("alert")
      /\ ss.location = IF st.location[0] # None /\ st.location[1] # None THEN st.location ELSE Blank
      /\ ss.audio_services = st.audio_services /\ ss.data_services = Range(st.data_services)
  BY <1>5
<1>8. SisSound(ss, st, td, bs)
  <2>1. /\ Shown("message") = IF st.texts["message"].displayed THEN st.texts["message"].text ELSE Blank
        /\ Shown("alert") = IF st.texts["alert"].displayed THEN st.texts["alert"].text ELSE Blank
    BY DEF Shown
  <2>2. /\ bs["message"] = Mixed \/ ss.message \in {Blank, td.message} \/ ~st.texts["message"].displayed
        /\ bs["alert"] = Mixed \/ ss.alert \in {Blank, td.alert} \/ ~st.texts["alert"].displayed
    BY <1>7, <2>1, Zenon DEF PidsSound
  <2>3. /\ ss.station_id # None => td.station_id = ss.station_id
        /\ ss.location # Blank => td.location = ss.location
        /\ \A prog \in 0 .. Programs - 1 :
                ss.audio_services[prog] # None => td.audio_services[prog] = ss.audio_services[prog]
        /\ ss.data_services \subseteq td.data_services
    BY <1>7 DEF PidsSound, Known
  <2> QED
    BY <2>2, <2>3 DEF SisSound
<1> QED
  BY <1>6, <1>8 DEF ss

\* One message keeps what belongs together, and an alert restarts its timeout.
LEMMA DecodedSound ==
    ASSUME NEW r \in KnownType, NEW bs \in [Texts -> Bases], PidsSound(r.pids, r.told, bs),
           NEW ss, ~r.updated => SisSound(ss, r.pids, r.told, bs), NEW p \in Messages
    PROVE  LET d == Decode(r, p)
               cs == BasesAfter(r.pids, p, bs)
           IN  /\ d \in KnownType /\ cs \in [Texts -> Bases] /\ PidsSound(d.pids, d.told, cs)
               /\ ~d.updated => SisSound(ss, d.pids, d.told, cs)
               /\ p.kind = "alert" => /\ d.pids.alert_timeout = 0
                                      /\ r.told.alert # Blank => d.told.alert # Blank
               /\ p.kind # "alert" => /\ d.pids.alert_timeout = r.pids.alert_timeout
                                      /\ d.pids.texts["alert"] = r.pids.texts["alert"]
                                      /\ d.told.alert = r.told.alert
<1> DEFINE d == Decode(r, p)
           cs == BasesAfter(r.pids, p, bs)
<1>1. "alert" \in Texts /\ "alert" \notin Shorts
  BY DEF Texts, Sequenced, Shorts
<1>2. CASE p.kind \in Texts
  <2>1. TextStep(r, p, d)
    BY <1>2, DecodeText
  <2>2. cs = BasesAfter(r.pids, p, bs)
    OBVIOUS
  <2> HIDE DEF d, cs
  <2>3. /\ d \in KnownType /\ cs \in [Texts -> Bases] /\ PidsSound(d.pids, d.told, cs)
        /\ SisSound(ss, r.pids, r.told, bs) /\ ~d.updated => SisSound(ss, d.pids, d.told, cs)
    BY <1>2, <2>1, <2>2, SoundText
  <2>4. r.updated => d.updated
    BY <2>1, Zenon DEF TextStep
  <2>5. ~d.updated => SisSound(ss, d.pids, d.told, cs)
    BY <2>3, <2>4, Zenon
  <2> DEFINE s == Stored(r.pids.texts[p.kind], p)
  <2>6. /\ p.kind = "alert" => d.pids.alert_timeout = 0
        /\ p.kind # "alert" => /\ d.pids.alert_timeout = r.pids.alert_timeout
                               /\ d.pids.texts["alert"] = r.pids.texts["alert"]
                               /\ d.told.alert = r.told.alert
        /\ d.told.alert = r.told.alert \/ (d.told.alert = s.text /\ Verified(s))
    <3>1. /\ d.pids.alert_timeout = IF p.kind = "alert" THEN 0 ELSE r.pids.alert_timeout
          /\ \A j \in Texts \ {p.kind} : d.pids.texts[j] = r.pids.texts[j]
          /\ p.kind # "alert" => d.told.alert = r.told.alert
      BY <2>1, Zenon DEF TextStep
    <3>2. d.told.alert = r.told.alert \/ (d.told.alert = s.text /\ Verified(s))
      BY <2>1, Zenon DEF TextStep
    <3> QED
      BY <1>1, <3>1, <3>2
  <2>7. Verified(s) => s.text # Blank
    BY WholeTexts DEF Verified
  <2> HIDE DEF s
  <2>8. r.told.alert # Blank => d.told.alert # Blank
    BY <2>6, <2>7
  <2> QED
    BY <2>3, <2>5, <2>6, <2>8 DEF d, cs
<1>3. CASE p.kind \in Shorts
  <2>1. ShortStep(r, d)
    BY <1>3, DecodeShort DEF PidsSound
  <2>2. cs = bs
    BY <1>3 DEF BasesAfter, Shorts, Texts, Sequenced
  <2> HIDE DEF d, cs
  <2>3. /\ d \in KnownType /\ PidsSound(d.pids, d.told, bs)
        /\ ~r.updated /\ SisSound(ss, r.pids, r.told, bs) /\ ~d.updated => SisSound(ss, d.pids, d.told, bs)
    BY <2>1, SoundShort
  <2>4. r.updated => d.updated
    BY <2>1, Zenon DEF ShortStep
  <2>5. ~d.updated => SisSound(ss, d.pids, d.told, cs)
    BY <2>2, <2>3, <2>4, Zenon
  <2>6. /\ d.pids.alert_timeout = r.pids.alert_timeout
        /\ d.pids.texts["alert"] = r.pids.texts["alert"] /\ d.told.alert = r.told.alert
    BY <2>1 DEF ShortStep
  <2> QED
    BY <1>1, <1>3, <2>2, <2>3, <2>5, <2>6 DEF d, cs
<1> QED
  BY <1>2, <1>3 DEF Messages

\* A frame: all its messages are decoded, and then an alert is withdrawn.
\* Afterwards everything belongs together, and an alert that was displayed is
\* withdrawn in this frame just if it was the last one of its time.
FrameDone(c, cs, alert) ==
    LET w == Withdrawn(c)
    IN  /\ c \in KnownType /\ cs \in [Texts -> Bases] /\ PidsSound(c.pids, c.told, cs)
        /\ ~c.updated => SisSound(sis, c.pids, c.told, cs)
        /\ alert => c.pids.alert_timeout = 0 /\ (told.alert # Blank => c.told.alert # Blank)
        /\ ~alert => /\ c.pids.alert_timeout = Counted(pids).alert_timeout
                     /\ c.pids.texts["alert"] = pids.texts["alert"] /\ c.told.alert = told.alert

LEMMA PidsFrameStep ==
    ASSUME PidsInv, NEW payloads,
           LET start == [pids |-> Counted(pids), told |-> told, updated |-> FALSE]
               alert == \E i \in DOMAIN payloads : payloads[i].kind = "alert"
           IN  FrameDone(FoldLeft(Decode, start, payloads), base', alert),
           PidsFrame(payloads)
    PROVE  /\ PidsInv'
           /\ pids.texts["alert"].displayed =>
                /\ silent' = AlertLimit => told'.alert = Blank
                /\ told'.alert = Blank => silent' = AlertLimit
<1> DEFINE start == [pids |-> Counted(pids), told |-> told, updated |-> FALSE]
           alert == \E i \in DOMAIN payloads : payloads[i].kind = "alert"
           c == FoldLeft(Decode, start, payloads)
           w == Withdrawn(c)
           late == c.pids.texts["alert"].displayed /\ c.pids.alert_timeout >= AlertLimit
<1>1. /\ pids' = w.pids /\ told' = w.told
      /\ sis' = IF w.updated THEN Report(w.pids) ELSE sis
      /\ silent' = IF alert THEN 0 ELSE IF silent < AlertLimit THEN silent + 1 ELSE silent
      /\ UNCHANGED <<lineup, version>>
  BY DEF PidsFrame, SisDecode
<1>2. FrameDone(c, base', alert)
  OBVIOUS
<1>3. /\ pids \in PidsType /\ pids.alert_timeout < AlertLimit /\ told \in ToldType /\ silent \in 0 .. AlertLimit
      /\ sis \in SisType
      /\ pids.texts["alert"].displayed => pids.alert_timeout = silent /\ told.alert # Blank
      /\ pids.alert_timeout \in Nat /\ AlertLimit \in Nat /\ AlertLimit >= 1
  BY PidsConstants DEF PidsInv, PidsSound, PidsType
<1>4. Counted(pids).alert_timeout =
        IF pids.texts["alert"].displayed THEN pids.alert_timeout + 1 ELSE pids.alert_timeout
  BY <1>3, CountedIs
<1> HIDE DEF alert, c, w
<1>5. /\ c \in KnownType /\ base' \in [Texts -> Bases] /\ PidsSound(c.pids, c.told, base')
      /\ ~c.updated => SisSound(sis, c.pids, c.told, base')
      /\ alert => c.pids.alert_timeout = 0 /\ (told.alert # Blank => c.told.alert # Blank)
      /\ ~alert => /\ c.pids.alert_timeout = Counted(pids).alert_timeout
                   /\ c.pids.texts["alert"] = pids.texts["alert"] /\ c.told.alert = told.alert
  BY <1>2 DEF FrameDone
<1>6. c.pids.alert_timeout = AlertLimit => c.pids.texts["alert"].displayed
  <2>1. CASE alert
    BY <1>3, <1>5, <2>1
  <2>2. CASE ~alert
    <3>1. c.pids.alert_timeout = AlertLimit => pids.texts["alert"].displayed
      BY <1>3, <1>4, <1>5, <2>2
    <3> QED
      BY <1>5, <2>2, <3>1
  <2> QED
    BY <2>1, <2>2
<1>7. /\ w \in KnownType /\ w.pids.alert_timeout < AlertLimit
      /\ PidsSound(w.pids, w.told, base')
      /\ ~w.updated => SisSound(sis, w.pids, w.told, base')
      /\ late => w.told.alert = Blank /\ ~w.pids.texts["alert"].displayed
      /\ ~late => w = c
  BY <1>5, <1>6, WithdrawnSound DEF w
<1>8. w.pids \in PidsType /\ w.told \in ToldType /\ c.pids \in PidsType
  BY <1>5, <1>7, KnownFields
<1>9. sis' \in SisType /\ SisSound(sis', w.pids, w.told, base')
  BY <1>1, <1>3, <1>7, <1>8, ReportSound
<1>10. silent' \in 0 .. AlertLimit
  BY <1>1, <1>3
<1>11. w.pids.texts["alert"].displayed => w.pids.alert_timeout = silent'
  <2> SUFFICES ASSUME w.pids.texts["alert"].displayed PROVE w.pids.alert_timeout = silent'
    OBVIOUS
  <2>1. w = c
    BY <1>7
  <2>2. CASE alert
    BY <1>1, <1>5, <2>1, <2>2
  <2>3. CASE ~alert
    <3>1. pids.texts["alert"].displayed
      BY <1>5, <2>1, <2>3
    <3>2. c.pids.alert_timeout = silent + 1 /\ silent < AlertLimit
      BY <1>3, <1>4, <1>5, <2>3, <3>1
    <3> QED
      BY <1>1, <2>1, <2>3, <3>2
  <2> QED
    BY <2>2, <2>3
<1>12. PidsInv'
  BY <1>1, <1>5, <1>7, <1>8, <1>9, <1>10, <1>11 DEF PidsInv
<1>13. ASSUME pids.texts["alert"].displayed
       PROVE  (silent' = AlertLimit => told'.alert = Blank) /\ (told'.alert = Blank => silent' = AlertLimit)
  <2>1. told.alert # Blank /\ silent < AlertLimit /\ pids.alert_timeout = silent
    BY <1>3, <1>13
  <2>2. CASE alert
    <3>1. silent' = 0 /\ c.pids.alert_timeout = 0 /\ c.told.alert # Blank
      BY <1>1, <1>5, <2>1, <2>2
    <3>2. ~late
      BY <1>3, <3>1
    <3>3. w.told.alert # Blank
      BY <1>7, <3>1, <3>2
    <3> QED
      BY <1>1, <1>3, <3>1, <3>3
  <2>3. CASE ~alert
    <3>1. /\ silent' = silent + 1 /\ c.pids.alert_timeout = silent + 1
          /\ c.pids.texts["alert"].displayed /\ c.told.alert # Blank
      BY <1>1, <1>3, <1>4, <1>5, <1>13, <2>1, <2>3
    <3>2. late <=> silent' = AlertLimit
      BY <1>3, <2>1, <3>1
    <3>3. late <=> w.told.alert = Blank
      BY <1>7, <3>1
    <3> HIDE DEF late
    <3> QED
      BY <1>1, <3>2, <3>3
  <2> QED
    BY <2>2, <2>3
<1> QED
  BY <1>12, <1>13

LEMMA PayloadsAreMessages ==
    ASSUME PidsInv
    PROVE  Payloads \subseteq Messages
<1>1. DOMAIN version \subseteq Texts \cup Shorts
  BY DEF PidsInv
<1> QED
  BY <1>1 DEF Payloads, Messages

\* Before its messages are decoded, the frame changes nothing but the count.
LEMMA StartSound ==
    ASSUME PidsInv
    PROVE  LET start == [pids |-> Counted(pids), told |-> told, updated |-> FALSE]
           IN  /\ start \in KnownType /\ start.pids = Counted(pids) /\ start.told = told
               /\ start.pids.texts = pids.texts
               /\ PidsSound(start.pids, start.told, base)
               /\ ~start.updated /\ SisSound(sis, start.pids, start.told, base)
<1> DEFINE start == [pids |-> Counted(pids), told |-> told, updated |-> FALSE]
           n == Counted(pids)
<1>1. /\ n \in PidsType /\ n.texts = pids.texts /\ n.station_id = pids.station_id
      /\ n.location = pids.location /\ n.audio_services = pids.audio_services
      /\ n.data_services = pids.data_services /\ n.short_name = pids.short_name
      /\ n.universal_short_name_final = pids.universal_short_name_final
  BY CountedIs DEF PidsInv
<1>2. PidsSound(pids, told, base) /\ SisSound(sis, pids, told, base) /\ told \in ToldType
  BY DEF PidsInv
<1> HIDE DEF n
<1>3. Known(n, told)
  BY <1>1, <1>2 DEF Known, PidsSound
<1>4. PidsSound(n, told, base) /\ SisSound(sis, n, told, base)
  <2>1. TitlesSound(n, told, base)
    BY <1>1, <1>2, Zenon DEF PidsSound, TitlesSound
  <2> QED
    BY <1>1, <1>2, <1>3, <2>1, Zenon DEF PidsSound, SisSound
<1>5. start \in KnownType /\ start.pids = n /\ start.told = told /\ ~start.updated
  BY <1>1, <1>2 DEF KnownType, n
<1> HIDE DEF start
<1> QED
  BY <1>1, <1>4, <1>5 DEF start, n

LEMMA PidsFramesStep ==
    ASSUME PidsInv, PidsFrames
    PROVE  /\ PidsInv'
           /\ pids.texts["alert"].displayed =>
                /\ silent' = AlertLimit => told'.alert = Blank
                /\ told'.alert = Blank => silent' = AlertLimit
<1> DEFINE start == [pids |-> Counted(pids), told |-> told, updated |-> FALSE]
<1>1. /\ start \in KnownType /\ start.pids = Counted(pids) /\ start.told = told
      /\ start.pids.texts = pids.texts
      /\ PidsSound(start.pids, start.told, base)
      /\ ~start.updated /\ SisSound(sis, start.pids, start.told, base)
  BY StartSound
<1>2. start \in Sound
  BY <1>1 DEF Sound, PidsSound
<1>3. Payloads \subseteq Messages /\ base \in [Texts -> Bases]
  BY PayloadsAreMessages DEF PidsInv
<1> HIDE DEF start
<1>4. ASSUME NEW p \in Messages
      PROVE  LET d == Decode(start, p)
                 cs == BasesAfter(pids, p, base)
             IN  /\ d \in KnownType /\ cs \in [Texts -> Bases] /\ PidsSound(d.pids, d.told, cs)
                 /\ ~d.updated => SisSound(sis, d.pids, d.told, cs)
                 /\ p.kind = "alert" => /\ d.pids.alert_timeout = 0
                                        /\ told.alert # Blank => d.told.alert # Blank
                 /\ p.kind # "alert" => /\ d.pids.alert_timeout = Counted(pids).alert_timeout
                                        /\ d.pids.texts["alert"] = pids.texts["alert"]
                                        /\ d.told.alert = told.alert
  <2>1. BasesAfter(start.pids, p, base) = BasesAfter(pids, p, base)
    BY <1>1 DEF BasesAfter
  <2> QED
    BY <1>1, <1>3, <2>1, DecodedSound
<1>5. ASSUME NEW p \in Payloads, PidsFrame(<<p>>)
      PROVE  FrameDone(FoldLeft(Decode, start, <<p>>), base', \E i \in DOMAIN <<p>> : <<p>>[i].kind = "alert")
  <2>1. p \in Messages /\ FoldLeft(Decode, start, <<p>>) = Decode(start, p)
    BY <1>2, <1>3, DecodeOne
  <2>2. (\E i \in DOMAIN <<p>> : <<p>>[i].kind = "alert") <=> p.kind = "alert"
    OBVIOUS
  <2>3. base' = BasesAfter(pids, p, base)
    BY <1>5 DEF PidsFrame, BasesAfter, BaseAfter
  <2> DEFINE d == Decode(start, p)
             alert == \E i \in DOMAIN <<p>> : <<p>>[i].kind = "alert"
  <2>4. /\ d \in KnownType /\ base' \in [Texts -> Bases] /\ PidsSound(d.pids, d.told, base')
        /\ ~d.updated => SisSound(sis, d.pids, d.told, base')
        /\ p.kind = "alert" => /\ d.pids.alert_timeout = 0
                               /\ told.alert # Blank => d.told.alert # Blank
        /\ p.kind # "alert" => /\ d.pids.alert_timeout = Counted(pids).alert_timeout
                               /\ d.pids.texts["alert"] = pids.texts["alert"]
                               /\ d.told.alert = told.alert
    BY <1>4, <2>1, <2>3
  <2> HIDE DEF d, alert
  <2>5. alert <=> p.kind = "alert"
    BY <2>2 DEF alert
  <2>6. FrameDone(d, base', alert)
    BY <2>4, <2>5, Zenon DEF FrameDone
  <2> QED
    BY <2>1, <2>6 DEF d, alert
<1>6. ASSUME NEW p \in Payloads, NEW q \in Payloads, Fit(<<p, q>>), PidsFrame(<<p, q>>)
      PROVE  FrameDone(FoldLeft(Decode, start, <<p, q>>), base',
                       \E i \in DOMAIN <<p, q>> : <<p, q>>[i].kind = "alert")
  <2>1. /\ p \in Messages /\ q \in Messages
        /\ FoldLeft(Decode, start, <<p, q>>) = Decode(Decode(start, p), q)
    BY <1>2, <1>3, DecodeTwo
  <2>2. p.kind \in Shorts /\ q.kind \in Shorts
    BY <1>6, <2>1, FitTwo
  <2>3. p.kind \notin Texts /\ q.kind \notin Texts /\ p.kind # "alert" /\ q.kind # "alert"
    BY <2>2 DEF Texts, Sequenced, Shorts
  <2> DEFINE e == Decode(start, p)
             d == Decode(e, q)
             alert == \E i \in DOMAIN <<p, q>> : <<p, q>>[i].kind = "alert"
  <2>4. ~alert
    BY <2>3
  <2>5. base' = base /\ BasesAfter(pids, p, base) = base
    BY <1>6, <2>3 DEF PidsFrame, BasesAfter
  <2>6. /\ e \in KnownType /\ PidsSound(e.pids, e.told, base)
        /\ ~e.updated => SisSound(sis, e.pids, e.told, base)
        /\ e.pids.alert_timeout = Counted(pids).alert_timeout
        /\ e.pids.texts["alert"] = pids.texts["alert"] /\ e.told.alert = told.alert
    BY <1>4, <2>1, <2>3, <2>5
  <2> HIDE DEF e, alert
  <2>7. BasesAfter(e.pids, q, base) = base
    BY <2>3 DEF BasesAfter
  <2>8. /\ d \in KnownType /\ PidsSound(d.pids, d.told, base)
        /\ ~d.updated => SisSound(sis, d.pids, d.told, base)
        /\ d.pids.alert_timeout = e.pids.alert_timeout
        /\ d.pids.texts["alert"] = e.pids.texts["alert"] /\ d.told.alert = e.told.alert
    BY <1>3, <2>1, <2>3, <2>6, <2>7, DecodedSound
  <2> HIDE DEF d
  <2>9. FrameDone(d, base', alert)
    BY <1>3, <2>4, <2>5, <2>6, <2>8, Zenon DEF FrameDone
  <2> QED
    BY <2>1, <2>9 DEF d, e, alert
<1>7. CASE \E p \in Payloads : PidsFrame(<<p>>)
  <2>1. PICK p \in Payloads : PidsFrame(<<p>>)
    BY <1>7
  <2>2. FrameDone(FoldLeft(Decode, start, <<p>>), base', \E i \in DOMAIN <<p>> : <<p>>[i].kind = "alert")
    BY <1>5, <2>1
  <2> QED
    BY <2>1, <2>2, PidsFrameStep DEF start
<1>8. CASE \E p, q \in Payloads : Fit(<<p, q>>) /\ PidsFrame(<<p, q>>)
  <2>1. PICK p \in Payloads, q \in Payloads : Fit(<<p, q>>) /\ PidsFrame(<<p, q>>)
    BY <1>8
  <2>2. FrameDone(FoldLeft(Decode, start, <<p, q>>), base',
                  \E i \in DOMAIN <<p, q>> : <<p, q>>[i].kind = "alert")
    BY <1>6, <2>1
  <2> QED
    BY <2>1, <2>2, PidsFrameStep DEF start
<1> QED
  BY <1>7, <1>8 DEF PidsFrames

\* A new version of a message.
LEMMA ChangesStep ==
    ASSUME PidsInv, NEW k \in DOMAIN version, Changes(k)
    PROVE  PidsInv'
<1>1. version' \in [lineup \cap (Texts \cup Shorts) -> 1 .. Versions]
  BY PidsConstants DEF PidsInv, Changes
<1>2. UNCHANGED <<lineup, pids, told, sis, silent, base>>
  BY DEF Changes
<1> QED
  BY <1>1, <1>2 DEF PidsInv

\* decode_reset: what lasts is not shown before it begins again.
LEMMA PidsInitSound ==
    ASSUME NEW st \in PidsType, NEW bs,
           \A k \in Texts : TextSound(k, st.texts[k], bs[k])
    PROVE  LET e == PidsInit(st)
           IN  /\ e \in PidsType /\ e.station_id = None /\ e.location = Blank
               /\ e.audio_services = [prog \in 0 .. Programs - 1 |-> None] /\ e.data_services = <<>>
               /\ e.alert_timeout = 0 /\ e.short_name = None
               /\ \A k \in Texts : ~e.texts[k].displayed
               /\ \A k \in Texts : TextSound(k, e.texts[k], None)
<1> DEFINE e == PidsInit(st)
           long == [st.texts["long_name"] EXCEPT !.displayed = FALSE, !.seq = -1]
           message == [st.texts["message"] EXCEPT !.displayed = FALSE, !.seq = -1]
           a == WithText(NoPids, "long_name", long)
           b == WithText(a, "message", message)
<1>1. "long_name" \in Texts /\ "message" \in Texts /\ -1 \in Numbers
  BY PidsConstants DEF Texts, Sequenced, Numbers
<1>2. st.texts["long_name"] \in TextType /\ st.texts["message"] \in TextType
  BY <1>1 DEF PidsType
<1>3. /\ long \in TextType /\ long.seq = -1 /\ ~long.displayed
      /\ long.have = st.texts["long_name"].have /\ long.text = st.texts["long_name"].text
      /\ message \in TextType /\ message.seq = -1 /\ ~message.displayed
      /\ message.have = st.texts["message"].have /\ message.text = st.texts["message"].text
  BY <1>1, <1>2 DEF TextType
<1>4. e = b
  <2>1. e = [NoPids EXCEPT !.texts["long_name"] = long, !.texts["message"] = message]
    BY DEF PidsInit
  <2> QED
    BY <2>1 DEF WithText
<1> HIDE DEF e, long, message, b, a
<1>5. NoPids \in PidsType
  BY BlankType
<1>6. /\ a \in PidsType /\ a.texts = [NoPids.texts EXCEPT !["long_name"] = long]
      /\ a.station_id = NoPids.station_id /\ a.location = NoPids.location
      /\ a.audio_services = NoPids.audio_services /\ a.data_services = NoPids.data_services
      /\ a.alert_timeout = NoPids.alert_timeout /\ a.short_name = NoPids.short_name
  BY <1>1, <1>3, <1>5, WithTextType DEF a
<1>7. /\ b \in PidsType /\ b.texts = [a.texts EXCEPT !["message"] = message]
      /\ b.station_id = a.station_id /\ b.location = a.location
      /\ b.audio_services = a.audio_services /\ b.data_services = a.data_services
      /\ b.alert_timeout = a.alert_timeout /\ b.short_name = a.short_name
  BY <1>1, <1>3, <1>6, WithTextType DEF b
<1>8. /\ NoPids.station_id = None /\ NoPids.location = Blank
      /\ NoPids.audio_services = [prog \in 0 .. Programs - 1 |-> None] /\ NoPids.data_services = <<>>
      /\ NoPids.alert_timeout = 0 /\ NoPids.short_name = None /\ NoPids.texts = [k \in Texts |-> NoText]
  BY DEF NoPids
<1>9. ASSUME NEW k \in Texts PROVE ~e.texts[k].displayed /\ TextSound(k, e.texts[k], None)
  <2>1. e.texts[k] = IF k = "long_name" THEN long ELSE IF k = "message" THEN message ELSE NoText
    BY <1>1, <1>4, <1>6, <1>7, <1>8
  <2>2. ~NoText.displayed /\ TextSound(k, NoText, None)
    BY DEF NoText, TextSound
  <2>3. k = "long_name" => TextSound(k, long, None)
    <3>1. ~(long.seq >= 0) /\ "long_name" \in Lasting
      BY <1>3 DEF Lasting
    <3>2. \A f \in long.have : long.text[f] \in 1 .. Versions
      BY <1>1, <1>3 DEF TextSound
    <3> QED
      BY <1>3, <3>1, <3>2, Zenon DEF TextSound
  <2>4. k = "message" => TextSound(k, message, None)
    <3>1. ~(message.seq >= 0) /\ "message" \in Lasting
      BY <1>3 DEF Lasting
    <3>2. \A f \in message.have : message.text[f] \in 1 .. Versions
      BY <1>1, <1>3 DEF TextSound
    <3> QED
      BY <1>3, <3>1, <3>2, Zenon DEF TextSound
  <2> QED
    BY <1>3, <2>1, <2>2, <2>3, <2>4
<1> QED
  BY <1>4, <1>6, <1>7, <1>8, <1>9 DEF e

LEMMA PidsResetStep ==
    ASSUME PidsInv, PidsReset, version' \in [lineup \cap (Texts \cup Shorts) -> 1 .. Versions]
    PROVE  PidsInv'
<1> DEFINE e == PidsInit(pids)
<1>1. pids' = e /\ base' = [k \in Texts |-> None] /\ UNCHANGED <<lineup, told, sis, silent>>
  BY DEF PidsReset
<1>2. /\ lineup \in Lineups /\ told \in ToldType /\ sis \in SisType /\ silent \in 0 .. AlertLimit
      /\ PidsSound(pids, told, base) /\ SisSound(sis, pids, told, base) /\ pids \in PidsType
  BY DEF PidsInv
<1>3. /\ e \in PidsType /\ e.station_id = None /\ e.location = Blank
      /\ e.audio_services = [prog \in 0 .. Programs - 1 |-> None] /\ e.data_services = <<>>
      /\ e.alert_timeout = 0 /\ e.short_name = None
      /\ \A k \in Texts : ~e.texts[k].displayed
      /\ \A k \in Texts : TextSound(k, e.texts[k], None)
  BY <1>2, PidsInitSound DEF PidsSound
<1> HIDE DEF e
<1>4. 0 \in Frames /\ 0 < AlertLimit
  BY PidsConstants DEF Frames
<1>5. "message" \in Texts /\ "alert" \in Texts
  BY DEF Texts, Sequenced
<1>6. Known(e, told)
  <2>1. e.location[0] = None
    BY <1>3, <1>4 DEF Blank, Whole
  <2>2. Range(e.data_services) = {}
    BY <1>3 DEF Range
  <2> QED
    BY <1>3, <2>1, <2>2 DEF Known
<1>7. base' \in [Texts -> Bases] /\ \A k \in Texts : base'[k] = None
  BY <1>1 DEF Bases
<1>8. PidsSound(e, told, base')
  <2>1. \A k \in Texts : TextSound(k, e.texts[k], base'[k])
    BY <1>3, <1>7
  <2>2. ~e.texts["message"].displayed /\ ~e.texts["alert"].displayed
    BY <1>3, <1>5
  <2>3. /\ ~e.texts["universal_short_name"].displayed /\ ~e.texts["slogan"].displayed
        /\ ~e.texts["long_name"].displayed
    BY <1>3 DEF Texts, Sequenced
  <2>4. TitlesSound(e, told, base')
    BY <1>3, <2>3, Zenon DEF TitlesSound
  <2> QED
    BY <1>2, <1>6, <2>1, <2>2, <2>4, Zenon DEF PidsSound
<1>9. SisSound(sis, e, told, base')
  <2>1. ~e.texts["message"].displayed /\ ~e.texts["alert"].displayed
    BY <1>3, <1>5
  <2> QED
    BY <1>2, <2>1, Zenon DEF SisSound
<1> QED
  BY <1>1, <1>2, <1>3, <1>4, <1>5, <1>7, <1>8, <1>9 DEF PidsInv

LEMMA PidsStartInv ==
    ASSUME PidsStart
    PROVE  PidsInv
<1>1. /\ lineup \in Lineups /\ version = [k \in lineup \cap (Texts \cup Shorts) |-> 1]
      /\ pids = NoPids /\ told = NothingTold /\ sis = Report(NoPids)
      /\ silent = 0 /\ base = [k \in Texts |-> None]
  BY DEF PidsStart
<1>2. version \in [lineup \cap (Texts \cup Shorts) -> 1 .. Versions] /\ silent \in 0 .. AlertLimit
      /\ base \in [Texts -> Bases]
  BY <1>1, PidsConstants DEF Bases
<1>3. pids \in PidsType /\ told \in ToldType
  BY <1>1, BlankType
<1>4. /\ pids.station_id = None /\ pids.location = Blank /\ told.location = Blank
      /\ pids.audio_services = [prog \in 0 .. Programs - 1 |-> None] /\ pids.data_services = <<>>
      /\ pids.alert_timeout = 0 /\ pids.texts = [k \in Texts |-> NoText]
      /\ told.message = Blank /\ told.alert = Blank /\ pids.short_name = None
  BY <1>1 DEF NoPids, NothingTold
<1>5. 0 \in Frames /\ 0 < AlertLimit /\ "message" \in Texts /\ "alert" \in Texts /\ ~NoText.displayed
  BY PidsConstants DEF Frames, Texts, Sequenced, NoText
<1>6. Known(pids, told)
  <2>1. pids.location[0] = None
    BY <1>4, <1>5 DEF Blank, Whole
  <2>2. Range(pids.data_services) = {}
    BY <1>4 DEF Range
  <2> QED
    BY <1>4, <2>1, <2>2 DEF Known
<1>7. \A k \in Texts : TextSound(k, NoText, base[k])
  BY DEF TextSound, NoText
<1>8. PidsSound(pids, told, base)
  <2>1. WholeText(told.message) /\ WholeText(told.alert)
    BY <1>4, PidsConstants, WholeTexts
  <2>2. \A k \in Texts : pids.texts[k] = NoText
    BY <1>4
  <2>3. /\ ~pids.texts["universal_short_name"].displayed /\ ~pids.texts["slogan"].displayed
        /\ ~pids.texts["long_name"].displayed
    BY <1>5, <2>2 DEF Texts, Sequenced
  <2>4. TitlesSound(pids, told, base)
    BY <1>4, <2>3, Zenon DEF TitlesSound
  <2> QED
    BY <1>5, <1>6, <1>7, <2>1, <2>2, <2>4 DEF PidsSound
<1>9. sis \in SisType /\ SisSound(sis, pids, told, base)
  BY <1>1, <1>3, <1>8, ReportSound
<1>10. ~pids.texts["alert"].displayed
  BY <1>4, <1>5
<1> QED
  BY <1>1, <1>2, <1>3, <1>4, <1>5, <1>8, <1>9, <1>10 DEF PidsInv

\* Every step of the services keeps the station information as it should be.
LEMMA PidsServices ==
    ASSUME PidsInv, [Next]_vars
    PROVE  /\ PidsInv'
           /\ pids.texts["alert"].displayed =>
                \/ UNCHANGED pidsVars
                \/ (silent' = AlertLimit => told'.alert = Blank) /\ (told'.alert = Blank => silent' = AlertLimit)
<1> DEFINE OnTime == (silent' = AlertLimit => told'.alert = Blank) /\ (told'.alert = Blank => silent' = AlertLimit)
<1>1. pids.texts["alert"].displayed => silent # AlertLimit /\ told.alert # Blank
  <2>1. pids.alert_timeout \in Nat /\ AlertLimit \in Nat
    BY PidsConstants DEF PidsInv, PidsType
  <2> QED
    BY <2>1 DEF PidsInv, PidsSound
<1>2. UNCHANGED pidsVars => PidsInv'
  BY DEF PidsInv, pidsVars
<1>3. CASE UNCHANGED vars
  BY <1>2, <1>3 DEF vars, pidsVars
<1>4. CASE Information
  <2>1. PidsFrames
    BY <1>4 DEF Information
  <2> QED
    BY <2>1, PidsFramesStep
<1>5. CASE Frame
  BY <1>2, <1>5 DEF Frame, pidsVars
<1>6. CASE News
  <2>1. PICK k \in DOMAIN version : Changes(k)
    BY <1>6 DEF News
  <2>2. PidsInv'
    BY <2>1, ChangesStep
  <2>3. silent' = silent /\ told' = told
    BY <2>1 DEF Changes
  <2> QED
    BY <1>1, <2>2, <2>3
<1>7. CASE DamagedFrame
  BY <1>2, <1>7 DEF DamagedFrame, pidsVars
<1>8. CASE LostFrames
  BY <1>2, <1>8 DEF LostFrames, pidsVars
<1>9. CASE Resync \/ Retune
  <2>1. PidsReset
    BY <1>9 DEF Resync, Retune
  <2>2. version' \in [lineup \cap (Texts \cup Shorts) -> 1 .. Versions]
    <3>1. version \in [lineup \cap (Texts \cup Shorts) -> 1 .. Versions]
      BY DEF PidsInv
    <3>2. CASE Resync
      BY <3>1, <3>2 DEF Resync
    <3>3. CASE Retune
      BY <3>1, <3>3, PidsConstants DEF Retune
    <3> QED
      BY <1>9, <3>2, <3>3
  <2>3. PidsInv'
    BY <2>1, <2>2, PidsResetStep
  <2>4. silent' = silent /\ told' = told
    BY <2>1 DEF PidsReset
  <2> QED
    BY <1>1, <2>3, <2>4
<1> QED
  BY <1>3, <1>4, <1>5, <1>6, <1>7, <1>8, <1>9 DEF Next

LEMMA PidsInvariant == Spec => []PidsInv
<1>1. Init => PidsInv
  BY PidsStartInv DEF Init
<1>2. PidsInv /\ [Next]_vars => PidsInv'
  BY PidsServices
<1> QED
  BY <1>1, <1>2, PTL DEF Spec

\* A text is never shown with frames of two versions in it, if all that came
\* since its first frame were of one; and the SIS event shows what the events
\* of the items told: the name but for a short name told after the universal
\* one, the slogan but for one that came after a long name was told.
THEOREM ServicesShown == Spec => []ShownAsSent
<1>1. PidsInv => ShownAsSent
  <2> SUFFICES ASSUME PidsInv PROVE TextsWhole /\ SisShowsTold
    BY DEF ShownAsSent
  <2>1. /\ PidsSound(pids, told, base) /\ SisSound(sis, pids, told, base)
        /\ pids.texts \in [Texts -> TextType] /\ base \in [Texts -> Bases]
    BY DEF PidsInv, PidsType
  <2>2. ASSUME NEW k \in Texts, pids.texts[k].displayed, base[k] # Mixed
        PROVE  pids.texts[k].text = Whole(base[k])
    <3>1. TextSound(k, pids.texts[k], base[k]) /\ pids.texts[k].text \in Pages
      BY <2>1 DEF PidsSound, TextType
    <3>2. pids.texts[k].have = Frames /\ (k \in Lasting => pids.texts[k].seq >= 0)
      BY <2>2, <3>1 DEF TextSound
    <3>3. \A f \in Frames : pids.texts[k].text[f] = base[k]
      BY <2>2, <3>1, <3>2 DEF TextSound
    <3> QED
      BY <3>1, <3>3 DEF Pages, Whole
  <2>3. \A k \in Checked : \E v \in 0 .. Versions : told[k] = Whole(v)
    BY <2>1 DEF PidsSound, WholeText, Checked, Contents
  <2>4. \A k \in Checked : base[k] = Mixed \/ sis[k] \in {Blank, told[k]} \/ ~pids.texts[k].displayed
    BY <2>1 DEF SisSound, Checked
  <2>6. NameShown
    <3>1. Report(pids).name = IF pids.texts["universal_short_name"].displayed
                              THEN pids.universal_short_name_final ELSE Whole(pids.short_name)
      BY DEF Report
    <3>2. Whole(None) = Blank
      BY DEF Blank
    <3> QED
      BY <2>1, <3>1, <3>2 DEF NameShown, PidsSound, TitlesSound
  <2>7. SloganShown
    <3> DEFINE slogan == pids.texts["slogan"]
               long == pids.texts["long_name"]
    <3>1. Report(pids).slogan =
            IF slogan.displayed THEN slogan.text ELSE IF long.displayed THEN long.text ELSE Blank
      BY DEF Report
    <3>2. TitlesSound(pids, told, base)
      BY <2>1 DEF PidsSound
    <3>3. CASE slogan.displayed
      <4>1. Report(pids).slogan = slogan.text
        BY <3>1, <3>3
      <4> QED
        BY <3>2, <3>3, <4>1 DEF SloganShown, TitlesSound
    <3>4. CASE ~slogan.displayed
      <4>1. Report(pids).slogan = IF long.displayed THEN long.text ELSE Blank
        BY <3>1, <3>4
      <4> QED
        BY <3>2, <3>4, <4>1 DEF SloganShown, TitlesSound
    <3> QED
      BY <3>3, <3>4
  <2>5. SisShowsTold
    BY <2>1, <2>4, <2>6, <2>7 DEF SisSound, SisShowsTold
  <2> QED
    BY <2>2, <2>3, <2>5 DEF TextsWhole
<1> QED
  BY <1>1, PidsInvariant, PTL

\* An alert on display is withdrawn when so many frames have come without a
\* message of it, and not before.
THEOREM ServicesAlert == Spec => AlertOnTime
<1>1. PidsInv /\ [Next]_vars =>
        [pids.texts["alert"].displayed =>
            (silent' = AlertLimit => told'.alert = Blank) /\
            (told'.alert = Blank => silent' = AlertLimit)]_pidsVars
  BY PidsServices, Zenon
<1> QED
  BY <1>1, PidsInvariant, PTL DEF Spec, AlertOnTime

-----------------------------------------------------------------------------
(* Images *)

LEMMA Product ==
    ASSUME NEW a \in Nat \ {0}, NEW b \in Nat \ {0}
    PROVE  a * b \in Nat \ {0}
OBVIOUS

\* What is below a product is below its second factor, divided by the first.
LEMMA Quotient ==
    ASSUME NEW a \in Nat, NEW b \in Nat \ {0}, NEW c \in Nat, a < b * c
    PROVE  a \div b \in 0 .. c - 1 /\ a = b * (a \div b) + (a % b) /\ a % b \in 0 .. b - 1
<1> DEFINE q == a \div b
           r == a % b
<1>1. q \in Nat /\ r \in 0 .. b - 1 /\ a = b * q + r
  OBVIOUS
<1> HIDE DEF q, r
<1>2. q < c
  <2> SUFFICES ASSUME q >= c PROVE FALSE
    BY <1>1
  <2>1. PICK d \in Nat : q = c + d
    <3>1. q - c \in Nat /\ q = c + (q - c)
      BY <1>1
    <3> QED
      BY <3>1
  <2>2. b * q = b * c + b * d
    BY <2>1
  <2>3. b * d \in Nat /\ b * q \in Nat /\ b * c \in Nat
    BY <1>1, <2>1
  <2> QED
    BY <1>1, <2>2, <2>3
<1> QED
  BY <1>1, <1>2 DEF q, r

Divides(a, b, c, d) ==
    a \in Int /\ b \in Nat \ {0} /\ c \in Int /\ d \in 0 .. b - 1 /\ a = b * c + d

\* The remainder is the only one.
LEMMA Remainder ==
    ASSUME NEW a, NEW b, NEW c, NEW d, Divides(a, b, c, d)
    PROVE  a % b = d
<1> DEFINE q == a \div b
           r == a % b
<1>1. q \in Int /\ r \in 0 .. b - 1 /\ a = b * q + r /\ a = b * c + d /\ d \in 0 .. b - 1
      /\ a \in Int /\ b \in Nat \ {0} /\ c \in Int
  <2>1. a \in Int /\ b \in Nat \ {0} /\ c \in Int /\ d \in 0 .. b - 1 /\ a = b * c + d
    BY DEF Divides
  <2> QED
    BY <2>1
<1> HIDE DEF q, r
<1>2. c = q
  <2>1. CASE c > q
    <3>1. PICK e \in Nat : c = q + 1 + e
      <4>1. c - q - 1 \in Nat /\ c = q + 1 + (c - q - 1)
        BY <1>1, <2>1
      <4> QED
        BY <4>1
    <3>2. b * c = b * q + b + b * e
      BY <1>1, <3>1
    <3>3. b * e \in Nat /\ b * q \in Int
      BY <1>1, <3>1
    <3> QED
      BY <1>1, <3>2, <3>3
  <2>2. CASE c < q
    <3>1. PICK e \in Nat : q = c + 1 + e
      <4>1. q - c - 1 \in Nat /\ q = c + 1 + (q - c - 1)
        BY <1>1, <2>2
      <4> QED
        BY <4>1
    <3>2. b * q = b * c + b + b * e
      BY <1>1, <3>1
    <3>3. b * e \in Nat /\ b * c \in Int
      BY <1>1, <3>1
    <3> QED
      BY <1>1, <3>2, <3>3
  <2> QED
    BY <1>1, <2>1, <2>2
<1>3. b * q \in Int
  BY <1>1
<1> QED
  BY <1>1, <1>2, <1>3 DEF r

LEMMA Multiple ==
    ASSUME NEW a \in Int, NEW b \in Nat \ {0}, NEW c \in Int, a = b * c
    PROVE  a % b = 0
<1>1. b * c \in Int /\ 0 \in 0 .. b - 1
  OBVIOUS
<1>2. Divides(a, b, c, 0)
  BY <1>1 DEF Divides
<1> QED
  BY <1>2, Remainder

\* A number is a multiple and a remainder.
LEMMA Divided ==
    ASSUME NEW a \in Nat, NEW b \in Nat \ {0}
    PROVE  \E q \in Int : Divides(a, b, q, a % b)
<1> DEFINE q == a \div b
           r == a % b
<1>1. q \in Nat /\ r \in 0 .. b - 1 /\ a = b * q + r
  OBVIOUS
<1> HIDE DEF q, r
<1>2. q \in Int /\ Divides(a, b, q, r)
  BY <1>1 DEF Divides
<1> QED
  BY <1>2 DEF r

LEMMA SumOfMultiples ==
    ASSUME NEW a \in Nat, NEW c \in Nat, NEW b \in Nat \ {0}, a % b = 0, c % b = 0
    PROVE  (a + c) % b = 0
<1>1. PICK x \in Int : Divides(a, b, x, a % b)
  BY Divided
<1>2. PICK y \in Int : Divides(c, b, y, c % b)
  BY Divided
<1>3. b * x \in Int /\ b * y \in Int /\ b * (x + y) = b * x + b * y
  OBVIOUS
<1>4. Divides(a + c, b, x + y, 0)
  BY <1>1, <1>2, <1>3 DEF Divides
<1> QED
  BY <1>4, Remainder

\* The number after a number.
LEMMA Successor ==
    ASSUME NEW k \in Nat, NEW s \in Nat \ {0}
    PROVE  ((k % s) + 1) % s = (k + 1) % s
<1> DEFINE r == k % s
<1>1. r \in 0 .. s - 1
  OBVIOUS
<1>2. PICK q \in Int : Divides(k, s, q, r)
  BY Divided
<1> HIDE DEF r
<1>3. s * q \in Int /\ s * (q + 1) = s * q + s
  OBVIOUS
<1>4. CASE r + 1 < s
  <2>1. Divides(k + 1, s, q, r + 1) /\ Divides(r + 1, s, 0, r + 1) /\ r + 1 \in Int
    BY <1>1, <1>2, <1>3, <1>4 DEF Divides
  <2>2. (k + 1) % s = r + 1 /\ (r + 1) % s = r + 1
    BY <2>1, Remainder
  <2> QED
    BY <2>2 DEF r
<1>5. CASE r + 1 = s
  <2>1. Divides(k + 1, s, q + 1, 0) /\ Divides(r + 1, s, 1, 0) /\ r + 1 \in Int
    BY <1>1, <1>2, <1>3, <1>5 DEF Divides
  <2>2. (k + 1) % s = 0 /\ (r + 1) % s = 0
    BY <2>1, Remainder
  <2> QED
    BY <2>2 DEF r
<1> QED
  BY <1>1, <1>4, <1>5

\* What is missing between two packets that the numbers do not tell apart.
Alike(p, s, k, n) ==
    /\ p \in Nat \ {0} /\ s \in Nat \ {0} /\ p % s = 0
    /\ k \in 0 .. p - 1 /\ n \in 0 .. p - 1 /\ k % s = n % s

LEMMA Rounds ==
    ASSUME NEW p, NEW s, NEW k, NEW n, Alike(p, s, k, n)
    PROVE  /\ (k - n) % p \in Nat /\ ((k - n) % p) % s = 0
           /\ (k - n) % p = 0 => k = n
<1>0. /\ p \in Nat \ {0} /\ s \in Nat \ {0} /\ p % s = 0
      /\ k \in 0 .. p - 1 /\ n \in 0 .. p - 1 /\ k % s = n % s
  BY DEF Alike
<1> USE <1>0
<1> DEFINE r == k % s
<1>1. PICK a \in Int : Divides(k, s, a, r)
  BY Divided
<1>2. PICK c \in Int : Divides(n, s, c, r)
  BY Divided
<1>3. PICK e \in Int : Divides(p, s, e, 0)
  BY Divided
<1>4. r \in Int
  OBVIOUS
<1> HIDE DEF r
<1>5. /\ s * a \in Int /\ s * c \in Int /\ s * e \in Int
      /\ s * (a - c) = s * a - s * c /\ s * (e + (a - c)) = s * e + (s * a - s * c)
  OBVIOUS
<1>6. Divides(k - n, s, a - c, 0) /\ Divides(p + (k - n), s, e + (a - c), 0)
  BY <1>1, <1>2, <1>3, <1>4, <1>5 DEF Divides
<1>7. CASE k >= n
  <2>1. k - n \in 0 .. p - 1 /\ Divides(k - n, p, 0, k - n)
    BY <1>7 DEF Divides
  <2>2. (k - n) % p = k - n
    BY <2>1, Remainder
  <2>3. (k - n) % s = 0
    BY <1>6, Remainder
  <2> QED
    BY <2>1, <2>2, <2>3
<1>8. CASE k < n
  <2>1. p + (k - n) \in 1 .. p - 1 /\ Divides(k - n, p, -1, p + (k - n)) /\ k - n \in Int
    BY <1>8 DEF Divides
  <2>2. (k - n) % p = p + (k - n)
    BY <2>1, Remainder
  <2>3. (p + (k - n)) % s = 0
    BY <1>6, <2>1, Remainder
  <2> QED
    BY <2>1, <2>2, <2>3
<1> QED
  BY <1>7, <1>8

Parts == [kind : {"marker", "body"}, station : Nat, image : 0 .. ImageCount - 1, part : Nat]

LEMMA HereConstants ==
    /\ PacketSeqs \in Nat /\ PacketSeqs >= 2 /\ Tiles \in Nat
    /\ Len(TilesOnAir) \in Nat \ {0} /\ \A i \in 1 .. Len(TilesOnAir) : TilesOnAir[i] \in Nat
    /\ Editions \in Nat \ {0} /\ ImageBody \in Nat \ {0}
    /\ ImageLength \in Nat \ {0} /\ ImageLength = 2 + ImageBody
    /\ ImageCount \in Nat \ {0} /\ ImageCount = (2 * Len(TilesOnAir)) * Editions
    /\ ImageSymbols \in Nat \ {0} /\ ImageSymbols = ImageLength * ImageCount
<1>1. /\ PacketSeqs \in Nat /\ PacketSeqs >= 2 /\ Tiles \in Nat
      /\ TilesOnAir \in Seq(Nat) /\ TilesOnAir # <<>>
      /\ Editions \in Nat \ {0} /\ ImageBody \in Nat \ {0}
  BY HereAssumption
<1>2. Len(TilesOnAir) \in Nat \ {0} /\ \A i \in 1 .. Len(TilesOnAir) : TilesOnAir[i] \in Nat
  BY <1>1
<1>3. ImageLength \in Nat \ {0} /\ ImageLength = 2 + ImageBody
  BY <1>1 DEF ImageLength
<1>4. 2 * Len(TilesOnAir) \in Nat \ {0}
  BY <1>2
<1>5. ImageCount \in Nat \ {0} /\ ImageCount = (2 * Len(TilesOnAir)) * Editions
  BY <1>1, <1>4, Product DEF ImageCount
<1>6. ImageSymbols \in Nat \ {0} /\ ImageSymbols = ImageLength * ImageCount
  BY <1>3, <1>5, Product DEF ImageSymbols
<1> QED
  BY <1>1, <1>2, <1>3, <1>5, <1>6

LEMMA FixedConstants ==
    /\ Width \in Nat \ {0} /\ CccLength \in Nat \ {0} /\ PduData \in Nat \ {0}
    /\ BlockData \in Nat \ {0} /\ Body \in Nat \ {0} /\ MaxAas \in Nat /\ MaxAas >= Body
    /\ Packets \in Nat \ {0} /\ ImageSymbols = Body * Packets
    /\ PacketLength \in Nat \ {0} /\ PacketLength = Body + 1
    /\ BlockLength \in Nat \ {0} /\ BlockLength = BlockData + 2
    /\ Blocks \in Nat \ {0} /\ PacketLength * Packets = BlockData * Blocks
    /\ Period \in Nat \ {0} /\ Period = BlockLength * Blocks /\ PduData <= Period
<1>1. /\ Width \in Nat \ {0} /\ CccLength \in Nat \ {0} /\ PduData \in Nat \ {0}
      /\ BlockData \in Nat \ {0} /\ Body \in Nat \ {0} /\ MaxAas \in Nat /\ MaxAas >= Body
  BY FixedAssumption, HereAssumption
<1>2. ASSUME NEW a \in Nat \ {0}, NEW b \in Nat \ {0}, a % b = 0
      PROVE  a \div b \in Nat \ {0} /\ a = b * (a \div b)
  <2> DEFINE q == a \div b
             r == a % b
  <2>1. q \in Nat /\ a = b * q + r /\ r = 0
    BY <1>2
  <2> HIDE DEF q, r
  <2>2. b * q \in Nat
    BY <2>1
  <2>3. a = b * q
    BY <2>1, <2>2
  <2>4. q # 0
    BY <2>3
  <2> QED
    BY <2>1, <2>3, <2>4 DEF q
<1>3. ImageSymbols \in Nat \ {0} /\ ImageSymbols % Body = 0
  BY HereConstants, PeriodAssumption
<1>4. Packets \in Nat \ {0} /\ ImageSymbols = Body * Packets
  BY <1>1, <1>2, <1>3 DEF Packets
<1>5. PacketLength \in Nat \ {0} /\ PacketLength = Body + 1
  BY <1>1 DEF PacketLength
<1>6. BlockLength \in Nat \ {0} /\ BlockLength = BlockData + 2
  BY <1>1 DEF BlockLength
<1>7. Packets * PacketLength \in Nat \ {0} /\ (Packets * PacketLength) % BlockData = 0
  BY <1>4, <1>5, Product, PeriodAssumption
<1>8. Blocks \in Nat \ {0} /\ Packets * PacketLength = BlockData * Blocks
  BY <1>1, <1>2, <1>7 DEF Blocks
<1>9. PacketLength * Packets = BlockData * Blocks
  BY <1>4, <1>5, <1>8
<1>10. Period \in Nat \ {0} /\ Period = BlockLength * Blocks
  BY <1>6, <1>8, Product DEF Period
<1> QED
  BY <1>1, <1>4, <1>5, <1>6, <1>8, <1>9, <1>10, PeriodAssumption

LEMMA ImageSymbolType ==
    ASSUME NEW st \in Nat, NEW m \in Nat
    PROVE  ImageSymbol(st, m) \in Parts
<1> DEFINE part == m % ImageLength
           image == (m \div ImageLength) % ImageCount
<1>1. part \in Nat /\ image \in 0 .. ImageCount - 1
  <2>1. ImageLength \in Nat \ {0} /\ ImageCount \in Nat \ {0}
    BY HereConstants
  <2>2. part \in Nat /\ m \div ImageLength \in Nat
    BY <2>1
  <2> QED
    BY <2>1, <2>2
<1> HIDE DEF part, image
<1>2. [kind |-> IF part < 2 THEN "marker" ELSE "body", station |-> st, image |-> image,
       part |-> IF part < 2 THEN part ELSE part - 2] \in Parts
  BY <1>1 DEF Parts
<1> QED
  BY <1>2 DEF ImageSymbol, part, image

\* The times that a tile is shown with.
LEMMA TimestampType ==
    ASSUME NEW image \in 0 .. ImageCount - 1
    PROVE  TimestampOf(image) \in 1 .. Editions
<1>1. image \in Nat /\ 2 * Len(TilesOnAir) \in Nat \ {0} /\ Editions \in Nat
      /\ image < (2 * Len(TilesOnAir)) * Editions
  BY HereConstants
<1>2. image \div (2 * Len(TilesOnAir)) \in 0 .. Editions - 1
  BY <1>1, Quotient
<1> QED
  BY <1>2, HereConstants DEF TimestampOf

\* here_images_t.
Times == [0 .. Tiles -> 0 .. Editions]
Reported == [parts : Seq(Parts), missed : Nat]
HereRecord ==
    [expected_seq : -1 .. PacketSeqs - 1, payload : BOOLEAN, sync_state : Seq(Parts),
     buffer : Seq(Parts), last_timestamp : Times, next : 0 .. Packets - 1, missed : Nat,
     reported : Seq(Reported)]
HereType ==
    {h \in HereRecord :
        /\ Len(h.sync_state) <= 2 /\ Len(h.buffer) <= ImageBody
        /\ h.payload => Len(h.buffer) < ImageBody}

LEMMA NoHereType == NoHere \in HereType /\ NoTimestamps \in Times
<1>1. NoTimestamps \in Times
  BY HereConstants DEF NoTimestamps, Times
<1>2. NoHere \in HereRecord
  <2>1. 0 \in 0 .. Packets - 1 /\ -1 \in -1 .. PacketSeqs - 1 /\ <<>> \in Seq(Parts) /\ <<>> \in Seq(Reported)
    BY HereConstants, FixedConstants
  <2> QED
    BY <1>1, <2>1 DEF NoHere, HereRecord
<1>3. NoHere.sync_state = <<>> /\ NoHere.buffer = <<>> /\ ~NoHere.payload
  BY DEF NoHere
<1> QED
  BY <1>1, <1>2, <1>3, HereConstants DEF HereType

\* The fields of it.
LEMMA HereFields ==
    ASSUME NEW h \in HereType
    PROVE  /\ h.expected_seq \in -1 .. PacketSeqs - 1 /\ h.payload \in BOOLEAN
           /\ h.sync_state \in Seq(Parts) /\ h.buffer \in Seq(Parts)
           /\ h.last_timestamp \in Times /\ h.reported \in Seq(Reported)
           /\ h.next \in 0 .. Packets - 1 /\ h.missed \in Nat
           /\ Len(h.sync_state) \in Nat /\ Len(h.sync_state) <= 2
           /\ Len(h.buffer) \in Nat /\ Len(h.buffer) <= ImageBody
           /\ h.payload => Len(h.buffer) < ImageBody
           /\ h = [expected_seq |-> h.expected_seq, payload |-> h.payload, sync_state |-> h.sync_state,
                   buffer |-> h.buffer, last_timestamp |-> h.last_timestamp, next |-> h.next,
                   missed |-> h.missed, reported |-> h.reported]
<1>1. h \in HereRecord
  BY DEF HereType
<1>2. /\ h.expected_seq \in -1 .. PacketSeqs - 1 /\ h.payload \in BOOLEAN
      /\ h.sync_state \in Seq(Parts) /\ h.buffer \in Seq(Parts)
      /\ h.last_timestamp \in Times /\ h.reported \in Seq(Reported)
      /\ h.next \in 0 .. Packets - 1 /\ h.missed \in Nat
      /\ h = [expected_seq |-> h.expected_seq, payload |-> h.payload, sync_state |-> h.sync_state,
              buffer |-> h.buffer, last_timestamp |-> h.last_timestamp, next |-> h.next,
                   missed |-> h.missed, reported |-> h.reported]
  BY <1>1 DEF HereRecord
<1>3. Len(h.sync_state) \in Nat /\ Len(h.buffer) \in Nat
  BY <1>2
<1>4. /\ Len(h.sync_state) <= 2 /\ Len(h.buffer) <= ImageBody
      /\ h.payload => Len(h.buffer) < ImageBody
  BY DEF HereType
<1> QED
  BY <1>2, <1>3, <1>4

\* Changes of a here_images_t.
LEMMA Begun ==
    ASSUME NEW h \in HereRecord
    PROVE  LET r == [h EXCEPT !.payload = TRUE, !.buffer = <<>>]
           IN  /\ r \in HereRecord /\ r.payload /\ r.buffer = <<>>
               /\ r.expected_seq = h.expected_seq /\ r.sync_state = h.sync_state
               /\ r.last_timestamp = h.last_timestamp /\ r.reported = h.reported
               /\ r.next = h.next /\ r.missed = h.missed
<1>1. PICK y \in BOOLEAN : y = TRUE
  OBVIOUS
<1>2. PICK e \in Seq(Parts) : e = <<>>
  <2>1. <<>> \in Seq(Parts)
    OBVIOUS
  <2> QED
    BY <2>1, Zenon
<1>3. LET r == [h EXCEPT !.payload = y, !.buffer = e]
      IN  /\ r \in HereRecord /\ (r.payload <=> y) /\ r.buffer = e
          /\ r.expected_seq = h.expected_seq /\ r.sync_state = h.sync_state
          /\ r.last_timestamp = h.last_timestamp /\ r.reported = h.reported
               /\ r.next = h.next /\ r.missed = h.missed
  BY Zenon DEF HereRecord
<1> QED
  BY ONLY <1>1, <1>2, <1>3, Zenon

LEMMA Finished ==
    ASSUME NEW h \in HereRecord
    PROVE  LET r == [h EXCEPT !.payload = FALSE, !.missed = 0]
           IN  /\ r \in HereRecord /\ ~r.payload /\ r.buffer = h.buffer
               /\ r.expected_seq = h.expected_seq /\ r.sync_state = h.sync_state
               /\ r.last_timestamp = h.last_timestamp /\ r.reported = h.reported
               /\ r.next = h.next /\ r.missed = 0
<1>1. PICK y \in BOOLEAN : y = FALSE
  OBVIOUS
<1>2. PICK n \in Nat : n = 0
  OBVIOUS
<1>3. LET r == [h EXCEPT !.payload = y, !.missed = n]
      IN  /\ r \in HereRecord /\ (r.payload <=> y) /\ r.buffer = h.buffer
          /\ r.expected_seq = h.expected_seq /\ r.sync_state = h.sync_state
          /\ r.last_timestamp = h.last_timestamp /\ r.reported = h.reported
          /\ r.next = h.next /\ r.missed = n
  BY Zenon DEF HereRecord
<1> QED
  BY ONLY <1>1, <1>2, <1>3, Zenon

LEMMA WithSync ==
    ASSUME NEW h \in HereRecord, NEW s \in Seq(Parts)
    PROVE  LET r == [h EXCEPT !.sync_state = s]
           IN  /\ r \in HereRecord /\ (r.payload <=> h.payload) /\ r.buffer = h.buffer
               /\ r.expected_seq = h.expected_seq /\ r.sync_state = s
               /\ r.last_timestamp = h.last_timestamp /\ r.reported = h.reported
               /\ r.next = h.next /\ r.missed = h.missed
BY Zenon DEF HereRecord

LEMMA WithBuffer ==
    ASSUME NEW h \in HereRecord, NEW b \in Seq(Parts)
    PROVE  LET r == [h EXCEPT !.buffer = b]
           IN  /\ r \in HereRecord /\ (r.payload <=> h.payload) /\ r.buffer = b
               /\ r.expected_seq = h.expected_seq /\ r.sync_state = h.sync_state
               /\ r.last_timestamp = h.last_timestamp /\ r.reported = h.reported
               /\ r.next = h.next /\ r.missed = h.missed
BY Zenon DEF HereRecord

LEMMA WithNumber ==
    ASSUME NEW h \in HereRecord, NEW n \in -1 .. PacketSeqs - 1, NEW k \in 0 .. Packets - 1
    PROVE  LET r == [h EXCEPT !.expected_seq = n, !.next = k]
           IN  /\ r \in HereRecord /\ (r.payload <=> h.payload) /\ r.buffer = h.buffer
               /\ r.expected_seq = n /\ r.sync_state = h.sync_state
               /\ r.last_timestamp = h.last_timestamp /\ r.reported = h.reported
               /\ r.next = k /\ r.missed = h.missed
BY Zenon DEF HereRecord

LEMMA WithMissed ==
    ASSUME NEW h \in HereRecord, NEW n \in Nat
    PROVE  LET r == [h EXCEPT !.missed = n]
           IN  /\ r \in HereRecord /\ (r.payload <=> h.payload) /\ r.buffer = h.buffer
               /\ r.expected_seq = h.expected_seq /\ r.sync_state = h.sync_state
               /\ r.last_timestamp = h.last_timestamp /\ r.reported = h.reported
               /\ r.next = h.next /\ r.missed = n
BY Zenon DEF HereRecord

\* A file is reported, or it is the one that was reported before.
LEMMA ProcessFields ==
    ASSUME NEW h \in HereRecord, Len(h.buffer) >= 1
    PROVE  LET r == ProcessPacket(h)
           IN  /\ r \in HereRecord /\ (r.payload <=> h.payload) /\ r.buffer = h.buffer
               /\ r.expected_seq = h.expected_seq /\ r.sync_state = h.sync_state
               /\ r.last_timestamp \in Times
               /\ r.reported = h.reported \/ r.reported = Append(h.reported, [parts |-> h.buffer, missed |-> h.missed])
               /\ r.next = h.next /\ r.missed = h.missed
<1> DEFINE header == h.buffer[1]
           tile == TileOf(header.image)
           timestamp == TimestampOf(header.image)
           t == [h.last_timestamp EXCEPT ![tile] = timestamp]
           report == [parts |-> h.buffer, missed |-> h.missed]
           w == Append(h.reported, report)
<1>1. h.buffer \in Seq(Parts) /\ h.reported \in Seq(Reported) /\ h.missed \in Nat /\ h.last_timestamp \in Times
  BY DEF HereRecord
<1>2. header \in Parts /\ header.image \in 0 .. ImageCount - 1
  <2>1. Len(h.buffer) \in Nat /\ 1 \in 1 .. Len(h.buffer)
    BY <1>1
  <2>2. header \in Parts
    BY <1>1, <2>1
  <2> QED
    BY <2>2 DEF Parts
<1>3. timestamp \in 0 .. Editions
  <2>1. timestamp \in 1 .. Editions
    BY <1>2, TimestampType
  <2> HIDE DEF timestamp
  <2> QED
    BY <2>1
<1>4. t \in Times
  BY <1>1, <1>3 DEF Times
<1>5. w \in Seq(Reported)
  <2>1. report \in Reported
    BY <1>1 DEF Reported
  <2> HIDE DEF report
  <2> QED
    BY <1>1, <2>1
<1> DEFINE r == [h EXCEPT !.last_timestamp = t, !.reported = w]
<1>6. /\ r \in HereRecord /\ (r.payload <=> h.payload) /\ r.buffer = h.buffer
      /\ r.expected_seq = h.expected_seq /\ r.sync_state = h.sync_state
      /\ r.last_timestamp = t /\ r.reported = w
      /\ r.next = h.next /\ r.missed = h.missed
  <2> HIDE DEF t, w
  <2> QED
    BY <1>4, <1>5, Zenon DEF HereRecord
<1>7. [h EXCEPT !.last_timestamp[tile] = timestamp, !.reported = Append(@, report)] = r
  <2> HIDE DEF report, tile, timestamp
  <2> QED
    BY DEF HereRecord
<1>8. ProcessPacket(h) = IF tile \in 0 .. Tiles /\ h.last_timestamp[tile] # timestamp THEN r ELSE h
  BY <1>7 DEF ProcessPacket
<1> HIDE DEF r, tile, timestamp, t, w, report
<1> QED
  <2>1. CASE ProcessPacket(h) = r
    BY <2>1, <1>6, <1>4 DEF w, report
  <2>2. CASE ProcessPacket(h) = h
    BY <2>2, <1>1
  <2> QED
    BY <1>8, <2>1, <2>2

\* The latest two symbols, and the marker.
Shifted(s, x) == IF Len(s) < 2 THEN Append(s, x) ELSE <<s[2], x>>
Marker(s) == Len(s) = 2 /\ \A i \in 1 .. 2 : s[i].kind = "marker" /\ s[i].part = i - 1

\* What a symbol does.
Seen(h, x, r) ==
    /\ r.expected_seq = h.expected_seq
    /\ r.sync_state = Shifted(h.sync_state, x)
    /\ r.next = h.next
    /\ \/ /\ ~h.payload /\ (r.payload <=> Marker(r.sync_state))
          /\ r.buffer = IF Marker(r.sync_state) THEN <<>> ELSE h.buffer
          /\ r.reported = h.reported /\ r.missed = h.missed
       \/ /\ h.payload /\ r.payload /\ Len(h.buffer) + 1 < ImageBody
          /\ r.buffer = Append(h.buffer, x) /\ r.reported = h.reported /\ r.missed = h.missed
       \/ /\ h.payload /\ ~r.payload /\ Len(h.buffer) + 1 = ImageBody
          /\ r.buffer = Append(h.buffer, x) /\ r.missed = 0
          /\ \/ r.reported = h.reported
             \/ r.reported = Append(h.reported, [parts |-> r.buffer, missed |-> h.missed])

LEMMA HereSymbolSeen ==
    ASSUME NEW h \in HereType, NEW x \in Parts
    PROVE  HereSymbol(h, x) \in HereType /\ Seen(h, x, HereSymbol(h, x))
<1> DEFINE s == Shifted(h.sync_state, x)
           b == Append(h.buffer, x)
           shifted == [h EXCEPT !.sync_state = s]
           full == [shifted EXCEPT !.buffer = b]
           begun == [shifted EXCEPT !.payload = TRUE, !.buffer = <<>>]
           p == ProcessPacket(full)
           ended == [p EXCEPT !.payload = FALSE, !.missed = 0]
<1>1. h \in HereRecord
  BY DEF HereType
<1>2. s \in Seq(Parts) /\ Len(s) <= 2
  <2>1. h.sync_state \in Seq(Parts) /\ Len(h.sync_state) \in Nat /\ Len(h.sync_state) <= 2
    BY HereFields
  <2>2. CASE Len(h.sync_state) < 2
    BY <2>1, <2>2 DEF Shifted
  <2>3. CASE Len(h.sync_state) = 2
    <3>1. h.sync_state[2] \in Parts
      BY <2>1, <2>3
    <3>2. <<h.sync_state[2], x>> \in Seq(Parts) /\ Len(<<h.sync_state[2], x>>) = 2
      BY <3>1
    <3> QED
      BY <3>2, <2>3 DEF Shifted
  <2>4. Len(h.sync_state) < 2 \/ Len(h.sync_state) = 2
    <3> DEFINE n == Len(h.sync_state)
    <3>1. n \in Nat /\ n <= 2
      BY <2>1
    <3> HIDE DEF n
    <3>2. n < 2 \/ n = 2
      BY ONLY <3>1
    <3> QED
      BY <3>2, Zenon DEF n
  <2> QED
    BY ONLY <2>2, <2>3, <2>4
<1>3. b \in Seq(Parts) /\ Len(b) = Len(h.buffer) + 1 /\ Len(h.buffer) \in Nat
  BY HereFields
<1>4. /\ shifted \in HereRecord /\ (shifted.payload <=> h.payload) /\ shifted.buffer = h.buffer
      /\ shifted.expected_seq = h.expected_seq /\ shifted.sync_state = s
      /\ shifted.last_timestamp = h.last_timestamp /\ shifted.reported = h.reported
      /\ shifted.next = h.next /\ shifted.missed = h.missed
  BY <1>1, <1>2, WithSync
<1> HIDE DEF shifted
<1>5. /\ full \in HereRecord /\ (full.payload <=> shifted.payload) /\ full.buffer = b
      /\ full.expected_seq = shifted.expected_seq /\ full.sync_state = shifted.sync_state
      /\ full.last_timestamp = shifted.last_timestamp /\ full.reported = shifted.reported
      /\ full.next = shifted.next /\ full.missed = shifted.missed
  BY <1>3, <1>4, WithBuffer
<1>6. /\ begun \in HereRecord /\ begun.payload /\ begun.buffer = <<>>
      /\ begun.expected_seq = shifted.expected_seq /\ begun.sync_state = shifted.sync_state
      /\ begun.last_timestamp = shifted.last_timestamp /\ begun.reported = shifted.reported
      /\ begun.next = shifted.next /\ begun.missed = shifted.missed
  BY <1>4, Begun
<1> HIDE DEF full
<1>7. Len(full.buffer) >= 1
  BY <1>3, <1>5
<1>8. /\ p \in HereRecord /\ (p.payload <=> full.payload) /\ p.buffer = full.buffer
      /\ p.expected_seq = full.expected_seq /\ p.sync_state = full.sync_state
      /\ p.last_timestamp \in Times
      /\ p.reported = full.reported \/ p.reported = Append(full.reported, [parts |-> full.buffer, missed |-> full.missed])
      /\ p.next = full.next
  BY <1>5, <1>7, ProcessFields
<1> HIDE DEF p
<1>9. /\ ended \in HereRecord /\ ~ended.payload /\ ended.buffer = p.buffer
      /\ ended.expected_seq = p.expected_seq /\ ended.sync_state = p.sync_state
      /\ ended.reported = p.reported /\ ended.next = p.next /\ ended.missed = 0
  BY <1>8, Finished
<1> HIDE DEF ended, begun, s, b
<1>10. HereSymbol(h, x) =
        CASE ~h.payload -> IF Marker(s) THEN begun ELSE shifted
          [] h.payload /\ Len(b) < ImageBody -> full
          [] OTHER -> ended
  <2>1. shifted = [h EXCEPT !.sync_state = IF Len(@) < 2 THEN Append(@, x) ELSE <<@[2], x>>]
    BY <1>1 DEF shifted, s, Shifted, HereRecord
  <2>2. full = [shifted EXCEPT !.buffer = Append(@, x)]
    BY <1>1, <1>4 DEF full, b, HereRecord
  <2>3. HereSymbol(h, x) =
        CASE ~h.payload -> IF Marker(shifted.sync_state) THEN begun ELSE shifted
          [] h.payload /\ Len(full.buffer) < ImageBody -> full
          [] OTHER -> ended
    BY ONLY <2>1, <2>2, Zenon DEF HereSymbol, Marker, begun, ended, p
  <2> QED
    BY <2>3, <1>4, <1>5
<1>11. h.payload \in BOOLEAN /\ (h.payload => Len(h.buffer) < ImageBody) /\ Len(h.buffer) <= ImageBody
       /\ ImageBody \in Nat \ {0}
  BY HereFields, HereConstants
<1>12. CASE ~h.payload
  <2>1. CASE Marker(s)
    <3>1. HereSymbol(h, x) = begun
      BY <1>10, <1>12, <2>1
    <3>2. begun \in HereType
      BY <1>2, <1>4, <1>6, <1>11 DEF HereType
    <3> QED
      BY <3>1, <3>2, <1>12, <2>1, <1>4, <1>6 DEF Seen, s
  <2>2. CASE ~Marker(s)
    <3>1. HereSymbol(h, x) = shifted
      BY <1>10, <1>12, <2>2
    <3>2. shifted \in HereType
      BY <1>2, <1>4, <1>11, <1>12 DEF HereType
    <3> QED
      BY <3>1, <3>2, <1>12, <2>2, <1>4 DEF Seen, s
  <2> QED
    BY <2>1, <2>2
<1>13. CASE h.payload /\ Len(b) < ImageBody
  <2>1. HereSymbol(h, x) = full
    BY <1>10, <1>13
  <2>2. full \in HereType
    <3>1. Len(full.sync_state) <= 2 /\ Len(full.buffer) < ImageBody /\ Len(full.buffer) <= ImageBody
      BY <1>2, <1>3, <1>4, <1>5, <1>11, <1>13
    <3> QED
      BY <3>1, <1>5 DEF HereType
  <2> QED
    BY <2>1, <2>2, <1>13, <1>3, <1>4, <1>5 DEF Seen, s, b
<1>14. CASE h.payload /\ ~(Len(b) < ImageBody)
  <2>1. HereSymbol(h, x) = ended
    BY <1>10, <1>14
  <2>2. Len(b) = ImageBody
    BY <1>3, <1>11, <1>14
  <2>3. ended \in HereType
    BY <1>2, <2>2, <1>4, <1>5, <1>8, <1>9 DEF HereType
  <2> QED
    BY <2>1, <2>2, <2>3, <1>14, <1>3, <1>4, <1>5, <1>8, <1>9 DEF Seen, s, b
<1> QED
  BY <1>11, <1>12, <1>13, <1>14

\* The parts of a body, from its beginning.
Pieces(b, st, image) ==
    \A i \in 1 .. Len(b) : b[i] = [kind |-> "body", station |-> st, image |-> image, part |-> i - 1]

GoodImage(st, w) ==
    Len(w) = ImageBody /\ \E image \in 0 .. ImageCount - 1 : Pieces(w, st, image)

\* What has been collected is the beginning of the image that the stream is in.
At(h, st, m) ==
    /\ h.missed % PacketSeqs = 0 /\ (~h.payload => h.missed = 0)
    /\ h.payload /\ h.missed = 0 =>
          m % ImageLength = 2 + Len(h.buffer) /\ Pieces(h.buffer, st, (m \div ImageLength) % ImageCount)

\* So is what is reported, if no packet was missing in it.
GoodReport(st, w) == w.missed % PacketSeqs = 0 /\ (w.missed = 0 => GoodImage(st, w.parts))
Reports(h, st) == \A i \in 1 .. Len(h.reported) : GoodReport(st, h.reported[i])

LEMMA NextPlace ==
    ASSUME NEW a \in Nat, NEW b \in Nat \ {0}, (a % b) + 1 < b
    PROVE  (a + 1) % b = (a % b) + 1 /\ (a + 1) \div b = a \div b
<1> DEFINE q == a \div b
           r == a % b
<1>1. q \in Nat /\ r \in 0 .. b - 1 /\ a = b * q + r
  OBVIOUS
<1>2. r + 1 < b
  OBVIOUS
<1> HIDE DEF q, r
<1>3. (b * q + (r + 1)) % b = r + 1 /\ (b * q + (r + 1)) \div b = q
  <2> DEFINE c == b * q + (r + 1)
             y == c \div b
             z == c % b
  <2>1. y \in Nat /\ z \in 0 .. b - 1 /\ c = b * y + z
    <3>1. b * q \in Nat
      BY <1>1
    <3>2. c \in Nat
      BY <1>1, <3>1
    <3> HIDE DEF c
    <3> QED
      BY <3>2
  <2> HIDE DEF y, z
  <2>2. b * q + (r + 1) = b * y + z
    BY <2>1
  <2>3. y = q
    <3>1. CASE y > q
      <4>1. PICK d \in Nat : y = q + 1 + d
        <5>1. y - q - 1 \in Nat /\ y = q + 1 + (y - q - 1)
          BY <1>1, <2>1, <3>1
        <5> QED
          BY <5>1
      <4>2. b * y = b * q + b + b * d
        BY <1>1, <4>1
      <4>3. b * d \in Nat /\ b * q \in Nat
        BY <1>1, <4>1
      <4> QED
        BY <1>1, <1>2, <2>1, <2>2, <4>2, <4>3
    <3>2. CASE y < q
      <4>1. PICK d \in Nat : q = y + 1 + d
        <5>1. q - y - 1 \in Nat /\ q = y + 1 + (q - y - 1)
          BY <1>1, <2>1, <3>2
        <5> QED
          BY <5>1
      <4>2. b * q = b * y + b + b * d
        BY <2>1, <4>1
      <4>3. b * d \in Nat /\ b * y \in Nat
        BY <2>1, <4>1
      <4> QED
        BY <1>1, <1>2, <2>1, <2>2, <4>2, <4>3
    <3> QED
      BY <1>1, <2>1, <3>1, <3>2
  <2>4. z = r + 1
    <3>1. b * q \in Nat
      BY <1>1
    <3> QED
      BY <1>1, <2>1, <2>2, <2>3, <3>1
  <2> QED
    BY <2>3, <2>4 DEF y, z
<1>4. a + 1 = b * q + (r + 1)
  <2>1. b * q \in Nat
    BY <1>1
  <2> QED
    BY <1>1, <2>1
<1> QED
  BY <1>3, <1>4 DEF q, r

\* What a symbol of the stream is.
LEMMA ImageSymbolIs ==
    ASSUME NEW st \in Nat, NEW m \in Nat
    PROVE  /\ m % ImageLength \in 0 .. ImageLength - 1
           /\ (m \div ImageLength) % ImageCount \in 0 .. ImageCount - 1
           /\ m % ImageLength < 2 =>
                ImageSymbol(st, m).kind = "marker" /\ ImageSymbol(st, m).part = m % ImageLength
           /\ m % ImageLength >= 2 =>
                /\ ImageSymbol(st, m).kind # "marker"
                /\ ImageSymbol(st, m) = [kind |-> "body", station |-> st, image |-> (m \div ImageLength) % ImageCount,
                                         part |-> (m % ImageLength) - 2]
<1>1. ImageLength \in Nat \ {0} /\ ImageCount \in Nat \ {0}
  BY HereConstants
<1> DEFINE part == m % ImageLength
           q == m \div ImageLength
           image == q % ImageCount
<1>2. part \in 0 .. ImageLength - 1 /\ q \in Nat
  BY <1>1
<1> HIDE DEF q
<1>3. image \in 0 .. ImageCount - 1
  BY <1>1, <1>2
<1> HIDE DEF part, image
<1>4. ImageSymbol(st, m) = [kind |-> IF part < 2 THEN "marker" ELSE "body", station |-> st,
                            image |-> image, part |-> IF part < 2 THEN part ELSE part - 2]
  BY DEF ImageSymbol, part, image, q
<1>5. part < 2 => ImageSymbol(st, m).kind = "marker" /\ ImageSymbol(st, m).part = part
  BY <1>4
<1>6. part >= 2 => ImageSymbol(st, m) = [kind |-> "body", station |-> st, image |-> image, part |-> part - 2]
  BY <1>2, <1>4
<1>7. part >= 2 => ImageSymbol(st, m).kind # "marker"
  BY <1>6
<1> QED
  BY <1>2, <1>3, <1>5, <1>6, <1>7 DEF part, image, q

\* A symbol of the stream keeps them so.
LEMMA SymbolKeeps ==
    ASSUME NEW h \in HereType, NEW st \in Nat, NEW m \in Nat, At(h, st, m), Reports(h, st)
    PROVE  /\ At(HereSymbol(h, ImageSymbol(st, m)), st, m + 1)
           /\ Reports(HereSymbol(h, ImageSymbol(st, m)), st)
<1> DEFINE x == ImageSymbol(st, m)
           r == HereSymbol(h, x)
           L == ImageLength
           image == (m \div L) % ImageCount
           p == m % L
<1> SUFFICES At(r, st, m + 1) /\ Reports(r, st)
  OBVIOUS
<1>1. x \in Parts
  BY ImageSymbolType
<1>2. Seen(h, x, r) /\ r \in HereType
  BY <1>1, HereSymbolSeen
<1>3. /\ p \in 0 .. L - 1 /\ image \in 0 .. ImageCount - 1
      /\ p < 2 => x.kind = "marker" /\ x.part = p
      /\ p >= 2 => x.kind # "marker" /\ x = [kind |-> "body", station |-> st, image |-> image, part |-> p - 2]
  BY ImageSymbolIs
<1>4. L \in Nat /\ L = 2 + ImageBody /\ ImageBody \in Nat \ {0} /\ m + 1 \in Nat
  BY HereConstants
<1>5. p + 1 < L => (m + 1) % L = p + 1 /\ (m + 1) \div L = m \div L
  <2>1. L \in Nat \ {0}
    BY <1>4
  <2> HIDE DEF L
  <2> QED
    BY <2>1, NextPlace
<1> HIDE DEF x, r
<1>6. /\ h.buffer \in Seq(Parts) /\ h.sync_state \in Seq(Parts) /\ h.reported \in Seq(Reported)
      /\ Len(h.buffer) \in Nat /\ Len(h.sync_state) \in Nat /\ h.missed \in Nat
  BY HereFields
<1>7. At(h, st, m) /\ Reports(h, st)
  OBVIOUS
<1>8. /\ h.missed % PacketSeqs = 0 /\ (~h.payload => h.missed = 0)
      /\ h.payload /\ h.missed = 0 => p = 2 + Len(h.buffer) /\ Pieces(h.buffer, st, image)
  BY <1>7 DEF At
<1>9. ASSUME h.payload, h.missed = 0 PROVE Pieces(Append(h.buffer, x), st, image)
  <2>1. x = [kind |-> "body", station |-> st, image |-> image, part |-> Len(h.buffer)]
    BY <1>3, <1>6, <1>8, <1>9
  <2> HIDE DEF p, image, L
  <2>2. ASSUME NEW i \in 1 .. Len(Append(h.buffer, x))
        PROVE  Append(h.buffer, x)[i] = [kind |-> "body", station |-> st, image |-> image, part |-> i - 1]
    <3>1. CASE i \in 1 .. Len(h.buffer)
      BY <3>1, <1>1, <1>6, <1>8, <1>9 DEF Pieces
    <3>2. CASE i = Len(h.buffer) + 1
      BY <3>2, <1>1, <1>6, <2>1
    <3>3. Len(Append(h.buffer, x)) = Len(h.buffer) + 1
      BY <1>1, <1>6
    <3>4. i \in 1 .. Len(h.buffer) \/ i = Len(h.buffer) + 1
      <4> DEFINE n == Len(h.buffer)
      <4>1. n \in Nat /\ i \in 1 .. n + 1
        BY <1>6, <3>3
      <4> HIDE DEF n
      <4>2. i \in 1 .. n \/ i = n + 1
        BY ONLY <4>1
      <4> QED
        BY ONLY <4>2 DEF n
    <3> QED
      BY <3>1, <3>2, <3>4
  <2> QED
    BY <2>2 DEF Pieces
<1> HIDE DEF p, image
<1>10. CASE /\ ~h.payload /\ (r.payload <=> Marker(r.sync_state))
            /\ r.buffer = IF Marker(r.sync_state) THEN <<>> ELSE h.buffer
            /\ r.reported = h.reported /\ r.missed = h.missed
  <2>1. ASSUME Marker(r.sync_state) PROVE p = 1
    <3>1. r.sync_state = Shifted(h.sync_state, x)
      BY <1>2 DEF Seen
    <3>2. Len(r.sync_state) = 2 /\ r.sync_state[2].kind = "marker" /\ r.sync_state[2].part = 1
      BY <2>1 DEF Marker
    <3>3. r.sync_state[2] = x
      <4>1. CASE Len(h.sync_state) < 2
        <5>1. r.sync_state = Append(h.sync_state, x)
          BY <3>1, <4>1 DEF Shifted
        <5>2. Len(r.sync_state) = Len(h.sync_state) + 1
          BY <5>1, <1>1, <1>6
        <5>3. Len(h.sync_state) = 1
          <6> DEFINE n == Len(h.sync_state)
          <6>1. n \in Nat /\ 2 = n + 1
            BY <5>2, <3>2, <1>6, Zenon
          <6> HIDE DEF n
          <6>2. n = 1
            BY ONLY <6>1
          <6> QED
            BY <6>2, Zenon DEF n
        <5> QED
          BY <5>1, <5>3, <1>1, <1>6
      <4>2. CASE ~(Len(h.sync_state) < 2)
        BY <3>1, <4>2 DEF Shifted
      <4> QED
        BY <4>1, <4>2
    <3> QED
      BY <1>3, <3>2, <3>3, <1>4
  <2>2. At(r, st, m + 1)
    <3> SUFFICES ASSUME r.payload
                 PROVE (m + 1) % L = 2 + Len(r.buffer) /\ Pieces(r.buffer, st, ((m + 1) \div L) % ImageCount)
      BY <1>8, <1>10 DEF At
    <3>1. p = 1 /\ r.buffer = <<>>
      BY <1>10, <2>1
    <3>2. (m + 1) % L = 2
      BY <3>1, <1>4, <1>5
    <3>3. Len(<<>>) = 0
      OBVIOUS
    <3> QED
      BY <3>1, <3>2, <3>3 DEF Pieces
  <2>3. Reports(r, st)
    BY <1>7, <1>10 DEF Reports
  <2> QED
    BY <2>2, <2>3
<1>11. CASE /\ h.payload /\ r.payload /\ Len(h.buffer) + 1 < ImageBody
            /\ r.buffer = Append(h.buffer, x) /\ r.reported = h.reported /\ r.missed = h.missed
  <2>1. ASSUME h.missed = 0
        PROVE  (m + 1) % L = 2 + Len(r.buffer) /\ Pieces(r.buffer, st, ((m + 1) \div L) % ImageCount)
    <3>1. p + 1 < L /\ p + 1 = 2 + Len(r.buffer)
      BY <1>1, <1>4, <1>6, <1>8, <1>11, <2>1
    <3>2. (m + 1) % L = 2 + Len(r.buffer) /\ (m + 1) \div L = m \div L
      BY <1>5, <3>1
    <3>3. Pieces(r.buffer, st, ((m + 1) \div L) % ImageCount)
      BY <1>9, <1>11, <2>1, <3>2 DEF image
    <3> QED
      BY <3>2, <3>3
  <2>4. At(r, st, m + 1)
    BY <1>8, <1>11, <2>1 DEF At
  <2>5. Reports(r, st)
    BY <1>7, <1>11 DEF Reports
  <2> QED
    BY <2>4, <2>5
<1>12. CASE /\ h.payload /\ ~r.payload /\ Len(h.buffer) + 1 = ImageBody
            /\ r.buffer = Append(h.buffer, x) /\ r.missed = 0
            /\ \/ r.reported = h.reported
               \/ r.reported = Append(h.reported, [parts |-> r.buffer, missed |-> h.missed])
  <2> DEFINE report == [parts |-> r.buffer, missed |-> h.missed]
  <2>1. At(r, st, m + 1)
    <3>1. PacketSeqs \in Nat \ {0}
      BY HereConstants
    <3>2. 0 % PacketSeqs = 0
      BY <3>1
    <3> QED
      BY <1>12, <3>2 DEF At
  <2>2. Len(r.buffer) = ImageBody /\ r.buffer \in Seq(Parts)
    BY <1>1, <1>6, <1>12
  <2>3. GoodReport(st, report) /\ report \in Reported
    <3>1. h.missed = 0 => GoodImage(st, r.buffer)
      BY <1>3, <1>9, <1>12, <2>2 DEF GoodImage
    <3>2. report.parts = r.buffer /\ report.missed = h.missed /\ report \in Reported
      BY <1>6, <2>2 DEF Reported
    <3> QED
      BY <1>8, <3>1, <3>2 DEF GoodReport
  <2> HIDE DEF report
  <2>4. Reports(r, st)
    <3>1. CASE r.reported = h.reported
      BY <1>7, <3>1 DEF Reports
    <3>2. CASE r.reported = Append(h.reported, report)
      <4>1. ASSUME NEW i \in 1 .. Len(r.reported) PROVE GoodReport(st, r.reported[i])
        <5>1. CASE i \in 1 .. Len(h.reported)
          <6>1. r.reported[i] = h.reported[i]
            BY <1>6, <2>3, <3>2, <5>1
          <6> QED
            BY <1>7, <5>1, <6>1 DEF Reports
        <5>2. CASE i = Len(h.reported) + 1
          <6>1. r.reported[i] = report
            BY <1>6, <2>3, <3>2, <5>2
          <6> QED
            BY <2>3, <6>1
        <5> QED
          BY <1>6, <2>3, <3>2, <5>1, <5>2
      <4> QED
        BY <4>1 DEF Reports
    <3> QED
      BY <1>12, <3>1, <3>2 DEF report
  <2> QED
    BY <2>1, <2>4
<1> QED
  BY <1>2, <1>10, <1>11, <1>12 DEF Seen

HereSymbolRuns(A, b, q) ==
    \E h \in [0 .. Len(q) -> A] :
        /\ h[0] = b /\ h[Len(q)] = FoldLeft(HereSymbol, b, q)
        /\ \A k \in 1 .. Len(q) : h[k] = HereSymbol(h[k - 1], q[k])

LEMMA HereSymbolFold ==
    ASSUME NEW A, NEW X, \A a \in A, x \in X : HereSymbol(a, x) \in A, NEW b \in A, NEW q \in Seq(X)
    PROVE  HereSymbolRuns(A, b, q)
<1> DEFINE n == Len(q)
           F == [ax \in A \X X |-> HereSymbol(ax[1], ax[2])]
<1>1. n \in Nat /\ DOMAIN q = 1 .. n /\ q \in [1 .. n -> X] /\ n = Len(q)
  OBVIOUS
<1>2. F \in [A \X X -> A] /\ \A a \in A, x \in X : F[<<a, x>>] = HereSymbol(a, x)
  OBVIOUS
<1> HIDE DEF n, F
<1>3. PICK g \in [SUBSET (1 .. n) -> A] : IsFold(g, n, F, b, q)
  <2>1. b \in A
    OBVIOUS
  <2> QED
    BY <1>1, <1>2, <2>1, FoldExists, Zenon
<1> DEFINE Iter(e) == e = [s \in SUBSET (1 .. n) |-> IF s = {} THEN b ELSE HereSymbol(e[s \ {Max(s)}], q[Max(s)])]
           i == CHOOSE e : Iter(e)
<1>4. Iter(g)
  <2>1. \A s \in SUBSET (1 .. n) : s # {} => Max(s) \in 1 .. n /\ s \ {Max(s)} \in SUBSET (1 .. n)
    BY MaxIs, <1>1
  <2>2. \A s \in SUBSET (1 .. n) :
          s # {} => F[<<g[s \ {Max(s)}], q[Max(s)]>>] = HereSymbol(g[s \ {Max(s)}], q[Max(s)])
    BY <2>1, <1>1, <1>2
  <2> QED
    BY <1>3, <2>2 DEF IsFold
<1>5. Iter(i)
  BY <1>4
<1>6. FoldLeft(HereSymbol, b, q) = i[1 .. n]
  BY <1>1 DEF FoldLeft, MapThenFoldSet
<1> HIDE DEF i
<1>7. i[{}] = b /\ \A k \in 1 .. n : i[1 .. k] = HereSymbol(i[1 .. k - 1], q[k])
  <2>1. \A s \in SUBSET (1 .. n) : i[s] = IF s = {} THEN b ELSE HereSymbol(i[s \ {Max(s)}], q[Max(s)])
    BY <1>5
  <2>2. {} \in SUBSET (1 .. n)
    OBVIOUS
  <2>3. i[{}] = b
    BY <2>1, <2>2
  <2>4. ASSUME NEW k \in 1 .. n PROVE i[1 .. k] = HereSymbol(i[1 .. k - 1], q[k])
    <3>1. 1 .. k # {} /\ 1 .. k \in SUBSET (1 .. n) /\ Max(1 .. k) = k /\ (1 .. k) \ {k} = 1 .. k - 1
      BY <1>1, Segments
    <3> QED
      BY <2>1, <3>1
  <2> QED
    BY <2>3, <2>4
<1>8. IsIter(i, A, F, b, q)
  BY <1>1, <1>2, <1>7 DEF IsIter
<1>9. PICK h \in [0 .. Len(q) -> A] : IsRun(h, F, b, q) /\ h[Len(q)] = i[1 .. Len(q)]
  <2>1. b \in A /\ q \in Seq(X)
    OBVIOUS
  <2>2. HasRun(A, F, b, q, i[1 .. Len(q)])
    BY <1>2, <1>8, <2>1, FoldRun
  <2> QED
    BY <2>2 DEF HasRun
<1>10. \A k \in 1 .. n : F[<<h[k - 1], q[k]>>] = HereSymbol(h[k - 1], q[k])
  <2>1. \A k \in 1 .. n : k - 1 \in 0 .. Len(q) /\ q[k] \in X
    BY <1>1
  <2> QED
    BY <1>2, <2>1
<1> QED
  BY <1>1, <1>6, <1>9, <1>10 DEF IsRun, HereSymbolRuns


HerePushRuns(A, b, q) ==
    \E h \in [0 .. Len(q) -> A] :
        /\ h[0] = b /\ h[Len(q)] = FoldLeft(HerePush, b, q)
        /\ \A k \in 1 .. Len(q) : h[k] = HerePush(h[k - 1], q[k])

LEMMA HerePushFold ==
    ASSUME NEW A, NEW X, \A a \in A, x \in X : HerePush(a, x) \in A, NEW b \in A, NEW q \in Seq(X)
    PROVE  HerePushRuns(A, b, q)
<1> DEFINE n == Len(q)
           F == [ax \in A \X X |-> HerePush(ax[1], ax[2])]
<1>1. n \in Nat /\ DOMAIN q = 1 .. n /\ q \in [1 .. n -> X] /\ n = Len(q)
  OBVIOUS
<1>2. F \in [A \X X -> A] /\ \A a \in A, x \in X : F[<<a, x>>] = HerePush(a, x)
  OBVIOUS
<1> HIDE DEF n, F
<1>3. PICK g \in [SUBSET (1 .. n) -> A] : IsFold(g, n, F, b, q)
  <2>1. b \in A
    OBVIOUS
  <2> QED
    BY <1>1, <1>2, <2>1, FoldExists, Zenon
<1> DEFINE Iter(e) == e = [s \in SUBSET (1 .. n) |-> IF s = {} THEN b ELSE HerePush(e[s \ {Max(s)}], q[Max(s)])]
           i == CHOOSE e : Iter(e)
<1>4. Iter(g)
  <2>1. \A s \in SUBSET (1 .. n) : s # {} => Max(s) \in 1 .. n /\ s \ {Max(s)} \in SUBSET (1 .. n)
    BY MaxIs, <1>1
  <2>2. \A s \in SUBSET (1 .. n) :
          s # {} => F[<<g[s \ {Max(s)}], q[Max(s)]>>] = HerePush(g[s \ {Max(s)}], q[Max(s)])
    BY <2>1, <1>1, <1>2
  <2> QED
    BY <1>3, <2>2 DEF IsFold
<1>5. Iter(i)
  BY <1>4
<1>6. FoldLeft(HerePush, b, q) = i[1 .. n]
  BY <1>1 DEF FoldLeft, MapThenFoldSet
<1> HIDE DEF i
<1>7. i[{}] = b /\ \A k \in 1 .. n : i[1 .. k] = HerePush(i[1 .. k - 1], q[k])
  <2>1. \A s \in SUBSET (1 .. n) : i[s] = IF s = {} THEN b ELSE HerePush(i[s \ {Max(s)}], q[Max(s)])
    BY <1>5
  <2>2. {} \in SUBSET (1 .. n)
    OBVIOUS
  <2>3. i[{}] = b
    BY <2>1, <2>2
  <2>4. ASSUME NEW k \in 1 .. n PROVE i[1 .. k] = HerePush(i[1 .. k - 1], q[k])
    <3>1. 1 .. k # {} /\ 1 .. k \in SUBSET (1 .. n) /\ Max(1 .. k) = k /\ (1 .. k) \ {k} = 1 .. k - 1
      BY <1>1, Segments
    <3> QED
      BY <2>1, <3>1
  <2> QED
    BY <2>3, <2>4
<1>8. IsIter(i, A, F, b, q)
  BY <1>1, <1>2, <1>7 DEF IsIter
<1>9. PICK h \in [0 .. Len(q) -> A] : IsRun(h, F, b, q) /\ h[Len(q)] = i[1 .. Len(q)]
  <2>1. b \in A /\ q \in Seq(X)
    OBVIOUS
  <2>2. HasRun(A, F, b, q, i[1 .. Len(q)])
    BY <1>2, <1>8, <2>1, FoldRun
  <2> QED
    BY <2>2 DEF HasRun
<1>10. \A k \in 1 .. n : F[<<h[k - 1], q[k]>>] = HerePush(h[k - 1], q[k])
  <2>1. \A k \in 1 .. n : k - 1 \in 0 .. Len(q) /\ q[k] \in X
    BY <1>1
  <2> QED
    BY <1>2, <2>1
<1> QED
  BY <1>1, <1>6, <1>9, <1>10 DEF IsRun, HerePushRuns


\* The packets that a station sends.
PacketOf(st, k) ==
    [seq |-> k % PacketSeqs, number |-> k, symbols |-> [i \in 1 .. Body |-> ImageSymbol(st, k * Body + i - 1)]]
PacketsOf(st) == {PacketOf(st, k) : k \in 0 .. Packets - 1}

LEMMA SymbolsType ==
    ASSUME NEW h \in HereType, NEW q \in Seq(Parts)
    PROVE  FoldLeft(HereSymbol, h, q) \in HereType
<1>1. \A a \in HereType, x \in Parts : HereSymbol(a, x) \in HereType
  BY HereSymbolSeen
<1>2. HereSymbolRuns(HereType, h, q)
  BY <1>1, HereSymbolFold
<1>3. Len(q) \in 0 .. Len(q)
  OBVIOUS
<1> QED
  BY <1>2, <1>3 DEF HereSymbolRuns

LEMMA SymbolsKeep ==
    ASSUME NEW h \in HereType, NEW st \in Nat, NEW m \in Nat, NEW n \in Nat,
           At(h, st, m), Reports(h, st), NEW q \in Seq(Parts), Len(q) = n,
           \A i \in 1 .. n : q[i] = ImageSymbol(st, m + i - 1)
    PROVE  At(FoldLeft(HereSymbol, h, q), st, m + n) /\ Reports(FoldLeft(HereSymbol, h, q), st)
<1>1. \A a \in HereType, x \in Parts : HereSymbol(a, x) \in HereType
  BY HereSymbolSeen
<1>2. HereSymbolRuns(HereType, h, q)
  BY <1>1, HereSymbolFold
<1>3. PICK g \in [0 .. n -> HereType] :
        /\ g[0] = h /\ g[n] = FoldLeft(HereSymbol, h, q)
        /\ \A k \in 1 .. n : g[k] = HereSymbol(g[k - 1], q[k])
  BY <1>2 DEF HereSymbolRuns
<1> DEFINE S == {k \in 0 .. n : At(g[k], st, m + k) /\ Reports(g[k], st)}
<1>4. 0 \in S
  <2>1. At(g[0], st, m + 0) /\ Reports(g[0], st)
    BY <1>3
  <2> QED
    BY <2>1
<1>5. ASSUME NEW k \in 1 .. n, k - 1 \in S PROVE k \in S
  <2>1. k - 1 \in 0 .. n /\ m + (k - 1) \in Nat /\ m + (k - 1) + 1 = m + k /\ m + k - 1 = m + (k - 1)
    OBVIOUS
  <2>2. g[k - 1] \in HereType /\ At(g[k - 1], st, m + (k - 1)) /\ Reports(g[k - 1], st)
    BY <1>5, <2>1
  <2>3. g[k] = HereSymbol(g[k - 1], ImageSymbol(st, m + (k - 1)))
    BY <1>3, <2>1
  <2>4. At(g[k], st, m + (k - 1) + 1) /\ Reports(g[k], st)
    BY <2>1, <2>2, <2>3, SymbolKeeps
  <2> QED
    BY <2>1, <2>4
<1> HIDE DEF S
<1>6. S \in SUBSET (0 .. n)
  BY DEF S
<1>7. S = 0 .. n
  BY <1>4, <1>5, <1>6, Steps
<1>8. n \in S
  BY <1>7
<1> QED
  BY <1>3, <1>8 DEF S

LEMMA UnsyncIs ==
    ASSUME NEW h \in HereType
    PROVE  /\ HereUnsync(h) \in HereType /\ ~HereUnsync(h).payload
           /\ HereUnsync(h).reported = h.reported /\ HereUnsync(h).missed = 0
<1>1. PICK y \in BOOLEAN : y = FALSE
  OBVIOUS
<1>2. PICK e \in Seq(Parts) : e = <<>>
  <2>1. <<>> \in Seq(Parts)
    OBVIOUS
  <2> QED
    BY <2>1, Zenon
<1>7. PICK n \in Nat : n = 0
  OBVIOUS
<1> DEFINE r == [h EXCEPT !.buffer = e, !.payload = y, !.sync_state = e, !.missed = n]
<1>3. /\ r \in HereRecord /\ (r.payload <=> y) /\ r.buffer = e /\ r.sync_state = e
      /\ r.reported = h.reported /\ r.missed = n
  BY Zenon DEF HereRecord, HereType
<1>4. HereUnsync(h) = r
  BY ONLY <1>1, <1>2, <1>7, Zenon DEF HereUnsync
<1> HIDE DEF r
<1>5. Len(e) = 0
  BY <1>2
<1>6. r \in HereType
  BY <1>1, <1>3, <1>5, HereConstants DEF HereType
<1> QED
  BY <1>1, <1>7, <1>3, <1>4, <1>6, Zenon

\* The number is the expected one: as many packets are missing as there are
\* numbers, or twice as many, or none.
LEMMA GoesOnIs ==
    ASSUME NEW h \in HereType, NEW packet, packet.number \in 0 .. Packets - 1
    PROVE  LET u == HereGoesOn(h, packet)
               gap == (packet.number - h.next) % Packets
           IN  /\ u \in HereType /\ (u.payload <=> h.payload) /\ u.buffer = h.buffer
               /\ u.reported = h.reported
               /\ u.missed = IF h.payload THEN h.missed + gap ELSE h.missed
<1> DEFINE gap == (packet.number - h.next) % Packets
           n == h.missed + gap
           r == [h EXCEPT !.missed = n]
<1>1. gap \in Nat
  <2>1. Packets \in Nat \ {0}
    BY FixedConstants
  <2>2. h.next \in 0 .. Packets - 1
    BY HereFields
  <2> QED
    BY <2>1, <2>2
<1>2. n \in Nat /\ h \in HereRecord
  BY <1>1, HereFields DEF HereType
<1>3. HereGoesOn(h, packet) = IF h.payload THEN r ELSE h
  BY DEF HereGoesOn
<1> HIDE DEF n
<1>4. /\ r \in HereRecord /\ (r.payload <=> h.payload) /\ r.buffer = h.buffer
      /\ r.sync_state = h.sync_state /\ r.reported = h.reported /\ r.missed = n
  BY <1>2, Zenon DEF HereRecord
<1> HIDE DEF r
<1>5. r \in HereType
  BY <1>4 DEF HereType
<1> QED
  BY <1>3, <1>4, <1>5 DEF n

\* Where the stream is when the next packet is expected.
Placed(h, st) ==
    h.expected_seq >= 0 => At(h, st, h.next * Body) /\ h.expected_seq = h.next % PacketSeqs

LEMMA PacketIs ==
    ASSUME NEW st \in Nat, NEW k \in 0 .. Packets - 1
    PROVE  /\ PacketOf(st, k).seq \in 0 .. PacketSeqs - 1 /\ PacketOf(st, k).seq = k % PacketSeqs
           /\ PacketOf(st, k).number = k
           /\ PacketOf(st, k).symbols \in Seq(Parts) /\ Len(PacketOf(st, k).symbols) = Body
           /\ k * Body \in Nat
           /\ \A i \in 1 .. Body : PacketOf(st, k).symbols[i] = ImageSymbol(st, k * Body + i - 1)
<1>1. k \in Nat /\ PacketSeqs \in Nat \ {0} /\ Body \in Nat \ {0}
  BY FixedConstants, HereConstants
<1>2. k % PacketSeqs \in 0 .. PacketSeqs - 1
  BY <1>1
<1>3. k * Body \in Nat
  BY <1>1
<1> DEFINE q == [i \in 1 .. Body |-> ImageSymbol(st, k * Body + i - 1)]
<1>4. q \in Seq(Parts) /\ Len(q) = Body
  <2> DEFINE b == k * Body
  <2> HIDE DEF b
  <2>1. b \in Nat
    BY <1>3 DEF b
  <2>2. \A i \in 1 .. Body : ImageSymbol(st, b + i - 1) \in Parts
    <3>1. \A i \in 1 .. Body : b + i - 1 \in Nat
      BY <1>1, <2>1
    <3> QED
      BY <3>1, ImageSymbolType
  <2>3. [i \in 1 .. Body |-> ImageSymbol(st, b + i - 1)] \in Seq(Parts)
    BY <1>1, <2>2
  <2>4. Len([i \in 1 .. Body |-> ImageSymbol(st, b + i - 1)]) = Body
    BY <1>1
  <2> QED
    BY <2>3, <2>4 DEF b
<1>5. \A i \in 1 .. Body : q[i] = ImageSymbol(st, k * Body + i - 1)
  OBVIOUS
<1> HIDE DEF q
<1>6. PacketOf(st, k) = [seq |-> k % PacketSeqs, number |-> k, symbols |-> q]
  BY DEF PacketOf, q
<1>7. PacketOf(st, k).seq = k % PacketSeqs /\ PacketOf(st, k).number = k /\ PacketOf(st, k).symbols = q
  BY <1>6
<1> QED
  BY <1>2, <1>3, <1>4, <1>5, <1>7

\* What is done with the image at hand before a packet is read.
Prepared(h, st, k) ==
    IF k % PacketSeqs = h.expected_seq THEN HereGoesOn(h, PacketOf(st, k)) ELSE HereUnsync(h)

LEMMA PushIs ==
    ASSUME NEW h \in HereType, NEW st \in Nat, NEW k \in 0 .. Packets - 1
    PROVE  LET u == Prepared(h, st, k)
               f == FoldLeft(HereSymbol, u, PacketOf(st, k).symbols)
               r == HerePush(h, PacketOf(st, k))
           IN  /\ u \in HereType /\ f \in HereType /\ r \in HereType
               /\ (r.payload <=> f.payload) /\ r.buffer = f.buffer /\ r.reported = f.reported
               /\ r.missed = f.missed /\ r.next = (k + 1) % Packets
               /\ r.expected_seq = (k + 1) % PacketSeqs
<1> DEFINE s == k % PacketSeqs
           u == Prepared(h, st, k)
           f == FoldLeft(HereSymbol, u, PacketOf(st, k).symbols)
           n == (s + 1) % PacketSeqs
           w == (k + 1) % Packets
           r == [f EXCEPT !.expected_seq = n, !.next = w]
<1>1. /\ PacketOf(st, k).seq = s /\ PacketOf(st, k).symbols \in Seq(Parts) /\ s \in 0 .. PacketSeqs - 1
      /\ PacketOf(st, k).number = k
  BY PacketIs
<1>2. u \in HereType
  BY <1>1, UnsyncIs, GoesOnIs DEF Prepared
<1>3. HerePush(h, PacketOf(st, k)) = r
  BY <1>1 DEF HerePush, Prepared
<1> HIDE DEF u
<1>4. f \in HereType
  BY <1>1, <1>2, SymbolsType
<1>5. n \in -1 .. PacketSeqs - 1 /\ w \in 0 .. Packets - 1 /\ n = (k + 1) % PacketSeqs
  <2>1. PacketSeqs \in Nat \ {0} /\ s + 1 \in Nat /\ Packets \in Nat \ {0} /\ k \in Nat
    BY <1>1, HereConstants, FixedConstants
  <2>2. n = (k + 1) % PacketSeqs
    BY <2>1, Successor
  <2> HIDE DEF s, n
  <2> QED
    BY <2>1, <2>2
<1> HIDE DEF f, n, s, w
<1>6. /\ r \in HereRecord /\ (r.payload <=> f.payload) /\ r.buffer = f.buffer
      /\ r.expected_seq = n /\ r.sync_state = f.sync_state /\ r.reported = f.reported
      /\ r.next = w /\ r.missed = f.missed
  <2>1. f \in HereRecord
    BY <1>4 DEF HereType
  <2> QED
    BY <2>1, <1>5, Zenon DEF HereRecord
<1> HIDE DEF r
<1>7. r \in HereType
  BY <1>4, <1>6 DEF HereType
<1>8. /\ u \in HereType /\ f \in HereType /\ r \in HereType
      /\ (r.payload <=> f.payload) /\ r.buffer = f.buffer /\ r.reported = f.reported
      /\ r.missed = f.missed /\ r.next = w /\ r.expected_seq = (k + 1) % PacketSeqs
  BY <1>2, <1>4, <1>5, <1>6, <1>7
<1> QED
  BY <1>3, <1>8 DEF u, f, w

\* The image at hand is where the packet begins, or packets are missing in it.
LEMMA PreparedIs ==
    ASSUME NEW h \in HereType, NEW st \in Nat, NEW k \in 0 .. Packets - 1, Placed(h, st), Reports(h, st)
    PROVE  At(Prepared(h, st, k), st, k * Body) /\ Reports(Prepared(h, st, k), st)
<1>1. /\ PacketSeqs \in Nat \ {0} /\ Packets \in Nat \ {0} /\ k \in Nat
      /\ h.next \in 0 .. Packets - 1 /\ h.missed \in Nat /\ PacketOf(st, k).number = k
      /\ Packets % PacketSeqs = 0
  <2>1. PacketSeqs \in Nat \ {0} /\ Packets \in Nat \ {0} /\ Packets % PacketSeqs = 0
    BY HereConstants, FixedConstants, PeriodAssumption
  <2>2. h.next \in 0 .. Packets - 1 /\ h.missed \in Nat
    BY HereFields
  <2>3. PacketOf(st, k).number = k
    BY PacketIs
  <2> QED
    BY <2>1, <2>2, <2>3
<1>2. CASE k % PacketSeqs = h.expected_seq
  <2> DEFINE u == HereGoesOn(h, PacketOf(st, k))
             gap == (k - h.next) % Packets
  <2>1. Prepared(h, st, k) = u
    BY <1>2 DEF Prepared
  <2>2. /\ (u.payload <=> h.payload) /\ u.buffer = h.buffer /\ u.reported = h.reported
        /\ u.missed = IF h.payload THEN h.missed + gap ELSE h.missed
    BY <1>1, GoesOnIs
  <2>3. At(h, st, h.next * Body) /\ k % PacketSeqs = h.next % PacketSeqs
    <3>1. k % PacketSeqs >= 0
      BY <1>1
    <3> QED
      BY <1>2, <3>1 DEF Placed
  <2>4. gap \in Nat /\ gap % PacketSeqs = 0 /\ (gap = 0 => k = h.next)
    <3>1. Alike(Packets, PacketSeqs, k, h.next)
      BY <1>1, <2>3 DEF Alike
    <3> QED
      BY <3>1, Rounds
  <2> HIDE DEF u, gap
  <2>5. h.missed % PacketSeqs = 0 /\ (h.missed + gap) % PacketSeqs = 0
    BY <1>1, <2>3, <2>4, SumOfMultiples DEF At
  <2>6. u.missed % PacketSeqs = 0 /\ (~u.payload => u.missed = 0)
    BY <2>2, <2>3, <2>5 DEF At
  <2>7. u.payload /\ u.missed = 0 => h.payload /\ h.missed = 0 /\ k = h.next
    BY <1>1, <2>2, <2>4
  <2>8. At(u, st, k * Body)
    BY <2>2, <2>3, <2>6, <2>7 DEF At
  <2> QED
    BY <2>1, <2>2, <2>8 DEF Reports
<1>3. CASE k % PacketSeqs # h.expected_seq
  <2>1. Prepared(h, st, k) = HereUnsync(h)
    BY <1>3 DEF Prepared
  <2>2. 0 % PacketSeqs = 0
    BY <1>1
  <2> QED
    BY <2>1, <2>2, UnsyncIs DEF At, Reports
<1> QED
  BY <1>2, <1>3

LEMMA PushKeeps ==
    ASSUME NEW h \in HereType, NEW st \in Nat, NEW k \in 0 .. Packets - 1, Placed(h, st), Reports(h, st)
    PROVE  /\ Placed(HerePush(h, PacketOf(st, k)), st)
           /\ Reports(HerePush(h, PacketOf(st, k)), st)
<1> DEFINE u == Prepared(h, st, k)
           f == FoldLeft(HereSymbol, u, PacketOf(st, k).symbols)
           r == HerePush(h, PacketOf(st, k))
<1>1. /\ u \in HereType /\ f \in HereType /\ r \in HereType
      /\ (r.payload <=> f.payload) /\ r.buffer = f.buffer /\ r.reported = f.reported
      /\ r.missed = f.missed /\ r.next = (k + 1) % Packets
      /\ r.expected_seq = (k + 1) % PacketSeqs
  BY PushIs
<1>2. At(u, st, k * Body) /\ Reports(u, st)
  BY PreparedIs
<1> HIDE DEF u
<1>3. /\ PacketOf(st, k).symbols \in Seq(Parts) /\ Len(PacketOf(st, k).symbols) = Body
      /\ k * Body \in Nat /\ Body \in Nat
      /\ \A i \in 1 .. Body : PacketOf(st, k).symbols[i] = ImageSymbol(st, k * Body + i - 1)
  BY PacketIs, FixedConstants
<1>4. At(f, st, k * Body + Body) /\ Reports(f, st)
  <2> DEFINE q == PacketOf(st, k).symbols
             b == k * Body
  <2>1. /\ q \in Seq(Parts) /\ Len(q) = Body /\ b \in Nat /\ Body \in Nat
        /\ \A i \in 1 .. Body : q[i] = ImageSymbol(st, b + i - 1)
        /\ At(u, st, b) /\ Reports(u, st) /\ u \in HereType
    BY <1>1, <1>2, <1>3
  <2>2. f = FoldLeft(HereSymbol, u, q)
    OBVIOUS
  <2> HIDE DEF q, b, f
  <2>3. At(f, st, b + Body) /\ Reports(f, st)
    BY <2>1, <2>2, SymbolsKeep
  <2> QED
    BY <2>3 DEF b
<1> HIDE DEF f, r
<1>5. Reports(r, st)
  BY <1>1, <1>4 DEF Reports
<1>6. At(r, st, k * Body + Body)
  BY <1>1, <1>4 DEF At
<1>7. PacketSeqs \in Nat \ {0} /\ Packets \in Nat \ {0} /\ k \in Nat /\ k < Packets
      /\ Packets % PacketSeqs = 0 /\ Body \in Nat
  BY HereConstants, FixedConstants, PeriodAssumption
<1>8. Placed(r, st)
  <2>1. CASE k + 1 < Packets
    <3>1. r.next = k + 1
      <4>1. (k + 1) % Packets = k + 1
        BY <1>7, <2>1
      <4> QED
        BY <1>1, <4>1
    <3>2. (k + 1) * Body = k * Body + Body
      BY <1>7
    <3> QED
      BY <1>1, <1>6, <3>1, <3>2 DEF Placed
  <2>2. CASE k + 1 = Packets
    <3>1. r.next = 0 /\ r.expected_seq = 0 /\ 0 % PacketSeqs = 0 /\ 0 * Body = 0
      BY <1>1, <1>7, <2>2
    <3>2. k * Body + Body = ImageSymbols
      <4>1. k = Packets - 1 /\ ImageSymbols = Body * Packets /\ Packets \in Nat
        BY <2>2, <1>7, FixedConstants
      <4> QED
        BY <1>7, <1>3, <4>1
    <3>3. ~(r.payload /\ r.missed = 0)
      <4>1. ImageSymbols % ImageLength = 0
        <5>1. ImageLength \in Nat \ {0} /\ ImageCount \in Nat /\ ImageSymbols = ImageLength * ImageCount
          BY HereConstants
        <5>2. ImageSymbols \in Nat
          BY HereConstants
        <5> QED
          BY <5>1, <5>2, Multiple
      <4>2. Len(r.buffer) \in Nat
        BY <1>1, HereFields
      <4> QED
        BY <1>6, <3>2, <4>1, <4>2 DEF At
    <3>4. At(r, st, 0)
      BY <1>6, <3>3 DEF At
    <3> QED
      BY <3>1, <3>4 DEF Placed
  <2> QED
    BY <1>7, <2>1, <2>2
<1> QED
  BY <1>5, <1>8 DEF r

LEMMA PushesType ==
    ASSUME NEW h \in HereType, NEW st \in Nat, NEW q \in Seq(PacketsOf(st))
    PROVE  FoldLeft(HerePush, h, q) \in HereType
<1>1. \A a \in HereType, p \in PacketsOf(st) : HerePush(a, p) \in HereType
  <2> TAKE a \in HereType, p \in PacketsOf(st)
  <2>1. PICK k \in 0 .. Packets - 1 : p = PacketOf(st, k)
    BY DEF PacketsOf
  <2>2. HerePush(a, PacketOf(st, k)) \in HereType
    BY PushIs
  <2> QED
    BY <2>1, <2>2
<1>2. HerePushRuns(HereType, h, q)
  BY <1>1, HerePushFold
<1>3. Len(q) \in 0 .. Len(q)
  OBVIOUS
<1> QED
  BY <1>2, <1>3 DEF HerePushRuns

LEMMA PushesKeep ==
    ASSUME NEW h \in HereType, NEW st \in Nat, NEW q \in Seq(PacketsOf(st)), Placed(h, st), Reports(h, st)
    PROVE  Placed(FoldLeft(HerePush, h, q), st) /\ Reports(FoldLeft(HerePush, h, q), st)
<1> DEFINE Good == {a \in HereType : Placed(a, st) /\ Reports(a, st)}
<1>1. ASSUME NEW a \in Good, NEW p \in PacketsOf(st) PROVE HerePush(a, p) \in Good
  <2>1. PICK k \in 0 .. Packets - 1 : p = PacketOf(st, k)
    BY DEF PacketsOf
  <2>2. a \in HereType /\ Placed(a, st) /\ Reports(a, st)
    OBVIOUS
  <2>3. HerePush(a, PacketOf(st, k)) \in HereType
    BY <2>2, PushIs
  <2>4. /\ Placed(HerePush(a, PacketOf(st, k)), st)
        /\ Reports(HerePush(a, PacketOf(st, k)), st)
    BY <2>2, PushKeeps
  <2> QED
    BY <2>1, <2>3, <2>4
<1>2. h \in Good
  OBVIOUS
<1> HIDE DEF Good
<1>3. HerePushRuns(Good, h, q)
  BY <1>1, <1>2, HerePushFold
<1>4. Len(q) \in 0 .. Len(q)
  OBVIOUS
<1>5. FoldLeft(HerePush, h, q) \in Good
  BY <1>3, <1>4 DEF HerePushRuns
<1> QED
  BY <1>5 DEF Good

-----------------------------------------------------------------------------
(* The subchannel *)

Bytes == [kind : {"flag", "garbage", "bbm", "byte", "ccc"}, station : Nat, packet : 0 .. Packets - 1, part : Nat]
Air(st) == {x \in Bytes : x.kind = "byte" => x.station = st}
Buffers(A, n) == {b \in [on : BOOLEAN, bytes : Seq(A)] : Len(b.bytes) <= n}

LEMMA Signs ==
    ASSUME NEW st \in Nat
    PROVE  Flag \in Air(st) /\ Garbage \in Air(st) /\ Air(st) \subseteq Bytes
<1>1. 0 \in 0 .. Packets - 1
  BY FixedConstants
<1>2. Flag \in Bytes /\ Flag.kind = "flag"
  BY <1>1 DEF Flag, Bytes
<1>3. Garbage = [kind |-> "garbage", station |-> 0, packet |-> 0, part |-> 0]
  BY DEF Garbage, Flag
<1>4. Garbage \in Bytes /\ Garbage.kind = "garbage"
  BY <1>1, <1>3 DEF Bytes
<1> QED
  BY <1>2, <1>4 DEF Air

LEMMA SymbolType ==
    ASSUME NEW i \in 0 .. Period - 1, station \in Nat
    PROVE  Symbol(i) \in Air(station)
<1> DEFINE r == i % BlockLength
           b == i \div BlockLength
           d == b * BlockData + r - 2
           p == d \div PacketLength
           e == d % PacketLength
<1>1. BlockLength \in Nat \ {0} /\ BlockLength = BlockData + 2 /\ Blocks \in Nat /\ BlockData \in Nat
      /\ PacketLength \in Nat \ {0} /\ Packets \in Nat \ {0} /\ PacketLength * Packets = BlockData * Blocks
      /\ Period = BlockLength * Blocks /\ Period \in Nat
  BY FixedConstants
<1>2. r \in 0 .. BlockLength - 1 /\ b \in 0 .. Blocks - 1
  <2>1. i \in Nat /\ i < BlockLength * Blocks
    BY <1>1
  <2> QED
    BY <1>1, <2>1, Quotient
<1> HIDE DEF r, b
<1>3. r < 2 => Symbol(i) = [kind |-> "bbm", station |-> 0, packet |-> 0, part |-> r]
  BY DEF Symbol, Flag, r
<1>4. CASE r < 2
  <2>1. 0 \in 0 .. Packets - 1
    BY <1>1
  <2>2. [kind |-> "bbm", station |-> 0, packet |-> 0, part |-> r] \in Bytes
    BY <1>2, <2>1 DEF Bytes
  <2>3. Symbol(i) \in Bytes /\ Symbol(i).kind = "bbm"
    BY <1>3, <1>4, <2>2
  <2> QED
    BY <2>3 DEF Air
<1>5. CASE r >= 2
  <2>1. d \in Nat /\ d < PacketLength * Packets
    <3>1. b * BlockData \in Nat
      BY <1>1, <1>2
    <3>2. b * BlockData + BlockData <= Blocks * BlockData
      <4>1. PICK c \in Nat : Blocks = b + 1 + c
        <5>1. Blocks - b - 1 \in Nat /\ Blocks = b + 1 + (Blocks - b - 1)
          BY <1>1, <1>2
        <5> QED
          BY <5>1
      <4>2. Blocks * BlockData = b * BlockData + BlockData + c * BlockData
        BY <1>1, <1>2, <4>1
      <4>3. c * BlockData \in Nat
        BY <1>1, <4>1
      <4> QED
        BY <1>1, <3>1, <4>2, <4>3
    <3>3. Blocks * BlockData = PacketLength * Packets
      BY <1>1
    <3> QED
      BY <1>1, <1>2, <1>5, <3>1, <3>2, <3>3
  <2> HIDE DEF d
  <2>2. p \in 0 .. Packets - 1 /\ e \in 0 .. PacketLength - 1
    BY <1>1, <2>1, Quotient
  <2> HIDE DEF p, e
  <2>3. Symbol(i) = IF e = 0 THEN Flag
                    ELSE [kind |-> "byte", station |-> station, packet |-> p, part |-> e - 1]
    BY <1>2, <1>5 DEF Symbol, r, b, d, p, e
  <2>4. CASE e = 0
    BY <2>3, <2>4, Signs
  <2>5. CASE e # 0
    <3> DEFINE y == [kind |-> "byte", station |-> station, packet |-> p, part |-> e - 1]
    <3>1. y \in Bytes /\ y.station = station
      BY <1>1, <2>2, <2>5 DEF Bytes
    <3> HIDE DEF y
    <3>2. y \in Air(station)
      BY <3>1 DEF Air
    <3> QED
      BY <2>3, <2>5, <3>2 DEF y
  <2> QED
    BY <2>4, <2>5
<1> QED
  BY <1>1, <1>2, <1>4, <1>5

LEMMA SentType ==
    ASSUME station \in Nat, at \in 0 .. Period - 1, ccc_at \in Nat
    PROVE  Sent \in Seq(Air(station)) /\ CccSent \in Seq(Bytes)
<1>1. PduData \in Nat /\ Period \in Nat \ {0} /\ Width \in Nat /\ CccLength \in Nat \ {0}
      /\ CccLength + 1 \in Nat \ {0} /\ Packets \in Nat \ {0}
  BY FixedConstants
<1>2. ASSUME NEW i \in 1 .. PduData PROVE Symbol((at + i - 1) % Period) \in Air(station)
  <2>1. at + i - 1 \in Nat
    BY <1>1
  <2>2. (at + i - 1) % Period \in 0 .. Period - 1
    BY <1>1, <2>1
  <2> QED
    BY <2>2, SymbolType
<1>3. ASSUME NEW j \in Nat PROVE CccSymbol(j) \in Bytes
  <2> DEFINE e == j % (CccLength + 1)
             L == CccLength + 1
  <2>1. e \in 0 .. CccLength
    <3>1. L \in Nat \ {0} /\ e = j % L
      BY <1>1
    <3> HIDE DEF L, e
    <3>2. e \in 0 .. L - 1
      BY <3>1
    <3> QED
      BY <3>2, <1>1 DEF L
  <2> HIDE DEF e
  <2>2. CccSymbol(j) = IF e = 0 THEN Flag
                       ELSE [kind |-> "ccc", station |-> station, packet |-> 0, part |-> e - 1]
    BY DEF CccSymbol, e
  <2>3. CASE e = 0
    BY <2>2, <2>3, Signs DEF Air
  <2>4. CASE e # 0
    <3>1. 0 \in 0 .. Packets - 1
      BY <1>1
    <3>2. [kind |-> "ccc", station |-> station, packet |-> 0, part |-> e - 1] \in Bytes
      BY <1>1, <2>1, <2>4, <3>1 DEF Bytes
    <3> QED
      BY <2>2, <2>4, <3>2
  <2> QED
    BY <2>3, <2>4
<1>4. Sent \in Seq(Air(station))
  BY <1>1, <1>2 DEF Sent
<1>5. ASSUME NEW i \in 1 .. Width PROVE CccSymbol(ccc_at + i - 1) \in Bytes
  <2>1. ccc_at + i - 1 \in Nat
    BY <1>1
  <2> QED
    BY <2>1, <1>3
<1>6. CccSent \in Seq(Bytes)
  BY <1>1, <1>5 DEF CccSent
<1> QED
  BY <1>4, <1>6

LEMMA WaitingType ==
    ASSUME NEW A, NEW n \in Nat
    PROVE  Waiting \in Buffers(A, n) /\ [on |-> TRUE, bytes |-> <<>>] \in Buffers(A, n)
<1>1. <<>> \in Seq(A) /\ Len(<<>>) = 0
  OBVIOUS
<1>2. [on |-> FALSE, bytes |-> <<>>] \in [on : BOOLEAN, bytes : Seq(A)]
  BY <1>1
<1>3. [on |-> TRUE, bytes |-> <<>>] \in [on : BOOLEAN, bytes : Seq(A)]
  BY <1>1
<1>4. [on |-> FALSE, bytes |-> <<>>].bytes = <<>> /\ [on |-> TRUE, bytes |-> <<>>].bytes = <<>>
  OBVIOUS
<1> QED
  BY <1>1, <1>2, <1>3, <1>4 DEF Buffers, Waiting

LEMMA HdlcType ==
    ASSUME NEW A, NEW n \in Nat, NEW b \in Buffers(A, n), NEW x \in A
    PROVE  Hdlc(b, x, n) \in Buffers(A, n) /\ Ended(b, x) \in Seq(A)
<1>1. b \in [on : BOOLEAN, bytes : Seq(A)] /\ b.bytes \in Seq(A) /\ Len(b.bytes) \in Nat /\ Len(b.bytes) <= n
  BY DEF Buffers
<1>2. Ended(b, x) \in Seq(A)
  BY <1>1 DEF Ended
<1>3. ASSUME Len(b.bytes) < n PROVE [b EXCEPT !.bytes = Append(@, x)] \in Buffers(A, n)
  <2> DEFINE c == Append(b.bytes, x)
             r == [b EXCEPT !.bytes = c]
  <2>1. c \in Seq(A) /\ Len(c) = Len(b.bytes) + 1
    BY <1>1
  <2> HIDE DEF c
  <2>2. r \in [on : BOOLEAN, bytes : Seq(A)] /\ r.bytes = c
    BY <1>1, <2>1, Zenon
  <2> HIDE DEF r
  <2>3. r \in Buffers(A, n)
    BY <1>1, <1>3, <2>1, <2>2 DEF Buffers
  <2> QED
    BY <1>1, <2>3 DEF r, c
<1>4. \/ Hdlc(b, x, n) = [on |-> TRUE, bytes |-> <<>>]
      \/ Hdlc(b, x, n) = Waiting
      \/ Len(b.bytes) < n /\ Hdlc(b, x, n) = [b EXCEPT !.bytes = Append(@, x)]
      \/ Hdlc(b, x, n) = b
  <2> DEFINE added == [b EXCEPT !.bytes = Append(@, x)]
             flagged == [on |-> TRUE, bytes |-> <<>>]
  <2>1. Hdlc(b, x, n) = CASE x = Flag -> flagged
                          [] x # Flag /\ b.on /\ Len(b.bytes) = n -> Waiting
                          [] x # Flag /\ b.on /\ Len(b.bytes) < n -> added
                          [] OTHER -> b
    BY DEF Hdlc
  <2> HIDE DEF added, flagged
  <2>2. Hdlc(b, x, n) \in {flagged, Waiting, b} \/ (Len(b.bytes) < n /\ Hdlc(b, x, n) = added)
    BY <1>1, <2>1
  <2> QED
    BY <2>2 DEF added, flagged
<1> QED
  BY <1>2, <1>3, <1>4, WaitingType

\* ccc_data_t, while the station st sends.
FixedRecord(st) ==
    [sync_width : Nat, sync_count : 0 .. 2, ccc_buf : Buffers(Bytes, 2 * CccLength), fixed_ready : BOOLEAN,
     blocks : Seq(Bytes), data : Buffers(Bytes, MaxAas), packets : Seq(PacketsOf(st))]

\* With the subchannels known, everything in them is from this station.
FixedOf(st) ==
    {f \in FixedRecord(st) :
        /\ Len(f.blocks) < BlockLength
        /\ f.fixed_ready => /\ f.sync_count = 2 /\ f.blocks \in Seq(Air(st))
                            /\ f.data \in Buffers(Air(st), MaxAas)}

LEMMA FixedFields ==
    ASSUME NEW st \in Nat, NEW f \in FixedOf(st)
    PROVE  /\ f \in FixedRecord(st)
           /\ f.sync_width \in Nat /\ f.sync_count \in 0 .. 2 /\ f.ccc_buf \in Buffers(Bytes, 2 * CccLength)
           /\ f.fixed_ready \in BOOLEAN /\ f.blocks \in Seq(Bytes) /\ f.data \in Buffers(Bytes, MaxAas)
           /\ f.packets \in Seq(PacketsOf(st))
           /\ Len(f.blocks) \in Nat /\ Len(f.blocks) < BlockLength
           /\ f.fixed_ready => /\ f.sync_count = 2 /\ f.blocks \in Seq(Air(st))
                               /\ f.data \in Buffers(Air(st), MaxAas)
<1>1. f \in FixedRecord(st)
  BY DEF FixedOf
<1>2. /\ f.sync_width \in Nat /\ f.sync_count \in 0 .. 2 /\ f.ccc_buf \in Buffers(Bytes, 2 * CccLength)
      /\ f.fixed_ready \in BOOLEAN /\ f.blocks \in Seq(Bytes) /\ f.data \in Buffers(Bytes, MaxAas)
      /\ f.packets \in Seq(PacketsOf(st))
  BY <1>1 DEF FixedRecord
<1>3. Len(f.blocks) \in Nat
  BY <1>2
<1>4. /\ Len(f.blocks) < BlockLength
      /\ f.fixed_ready => /\ f.sync_count = 2 /\ f.blocks \in Seq(Air(st))
                          /\ f.data \in Buffers(Air(st), MaxAas)
  BY DEF FixedOf
<1> QED
  BY <1>1, <1>2, <1>3, <1>4

LEMMA WithPackets ==
    ASSUME NEW st, NEW f \in FixedRecord(st), NEW q \in Seq(PacketsOf(st))
    PROVE  LET r == [f EXCEPT !.packets = q]
           IN  /\ r \in FixedRecord(st) /\ (r.fixed_ready <=> f.fixed_ready)
               /\ r.sync_width = f.sync_width /\ r.sync_count = f.sync_count /\ r.ccc_buf = f.ccc_buf
               /\ r.blocks = f.blocks /\ r.data = f.data /\ r.packets = q
BY Zenon DEF FixedRecord

LEMMA WithData ==
    ASSUME NEW st, NEW f \in FixedRecord(st), NEW d \in Buffers(Bytes, MaxAas)
    PROVE  LET r == [f EXCEPT !.data = d]
           IN  /\ r \in FixedRecord(st) /\ (r.fixed_ready <=> f.fixed_ready)
               /\ r.sync_width = f.sync_width /\ r.sync_count = f.sync_count /\ r.ccc_buf = f.ccc_buf
               /\ r.blocks = f.blocks /\ r.data = d /\ r.packets = f.packets
BY Zenon DEF FixedRecord

LEMMA WithCcc ==
    ASSUME NEW st, NEW f \in FixedRecord(st), NEW d \in Buffers(Bytes, 2 * CccLength)
    PROVE  LET r == [f EXCEPT !.ccc_buf = d]
           IN  /\ r \in FixedRecord(st) /\ (r.fixed_ready <=> f.fixed_ready)
               /\ r.sync_width = f.sync_width /\ r.sync_count = f.sync_count /\ r.ccc_buf = d
               /\ r.blocks = f.blocks /\ r.data = f.data /\ r.packets = f.packets
BY Zenon DEF FixedRecord

LEMMA WithBlocks ==
    ASSUME NEW st, NEW f \in FixedRecord(st), NEW q \in Seq(Bytes)
    PROVE  LET r == [f EXCEPT !.blocks = q]
           IN  /\ r \in FixedRecord(st) /\ (r.fixed_ready <=> f.fixed_ready)
               /\ r.sync_width = f.sync_width /\ r.sync_count = f.sync_count /\ r.ccc_buf = f.ccc_buf
               /\ r.blocks = q /\ r.data = f.data /\ r.packets = f.packets
BY Zenon DEF FixedRecord

LEMMA BeginIs ==
    ASSUME NEW st, NEW f \in FixedRecord(st)
    PROVE  LET r == [f EXCEPT !.fixed_ready = TRUE, !.blocks = <<>>, !.data = Waiting]
           IN  /\ r \in FixedRecord(st) /\ r.fixed_ready /\ r.sync_count = f.sync_count
               /\ r.ccc_buf = f.ccc_buf /\ r.blocks = <<>> /\ r.data = Waiting /\ r.packets = f.packets
<1>1. PICK y \in BOOLEAN : y = TRUE
  OBVIOUS
<1>2. PICK e \in Seq(Bytes) : e = <<>>
  <2>1. <<>> \in Seq(Bytes)
    OBVIOUS
  <2> QED
    BY <2>1, Zenon
<1>3. PICK d \in Buffers(Bytes, MaxAas) : d = Waiting
  BY WaitingType, FixedConstants
<1>4. LET r == [f EXCEPT !.fixed_ready = y, !.blocks = e, !.data = d]
      IN  /\ r \in FixedRecord(st) /\ (r.fixed_ready <=> y) /\ r.sync_count = f.sync_count
          /\ r.ccc_buf = f.ccc_buf /\ r.blocks = e /\ r.data = d /\ r.packets = f.packets
  BY Zenon DEF FixedRecord
<1> QED
  BY ONLY <1>1, <1>2, <1>3, <1>4, Zenon

\* A packet that is intact is one that the station sends.
LEMMA AasIs ==
    ASSUME NEW st \in Nat, NEW bytes \in Seq(Air(st)), Intact(bytes, "byte", Body)
    PROVE  Aas(bytes) \in PacketsOf(st)
<1>1. Body \in Nat \ {0} /\ Len(bytes) = Body /\ 1 \in 1 .. Body
  BY FixedConstants DEF Intact
<1>2. bytes[1].kind = "byte"
  BY <1>1 DEF Intact
<1>3. bytes[1] \in Air(st)
  BY <1>1
<1>4. bytes[1].station = st /\ bytes[1].packet \in 0 .. Packets - 1
  BY <1>2, <1>3 DEF Air, Bytes
<1>5. Aas(bytes) = PacketOf(st, bytes[1].packet)
  BY <1>4 DEF Aas, PacketOf
<1> QED
  BY <1>4, <1>5 DEF PacketsOf

\* The subchannels are known.
Live(st) == {f \in FixedOf(st) : f.fixed_ready}

LEMMA DataByteType ==
    ASSUME NEW st \in Nat, NEW f \in Live(st), NEW x \in Air(st)
    PROVE  DataByte(f, x) \in Live(st)
<1> DEFINE g == AasPush(f, Ended(f.data, x))
           d == Hdlc(f.data, x, MaxAas)
           r == [g EXCEPT !.data = d]
<1>1. f \in FixedOf(st) /\ f.fixed_ready
  BY DEF Live
<1>2. /\ f \in FixedRecord(st) /\ f.packets \in Seq(PacketsOf(st)) /\ Len(f.blocks) < BlockLength
      /\ f.sync_count = 2 /\ f.blocks \in Seq(Air(st)) /\ f.data \in Buffers(Air(st), MaxAas)
      /\ f.data \in Buffers(Bytes, MaxAas)
  BY <1>1, FixedFields
<1>3. MaxAas \in Nat /\ x \in Bytes
  BY FixedConstants, Signs
<1>4. d \in Buffers(Air(st), MaxAas) /\ Ended(f.data, x) \in Seq(Air(st)) /\ d \in Buffers(Bytes, MaxAas)
  <2>1. d \in Buffers(Air(st), MaxAas) /\ Ended(f.data, x) \in Seq(Air(st))
    BY <1>2, <1>3, HdlcType
  <2>2. d \in Buffers(Bytes, MaxAas)
    BY <1>2, <1>3, HdlcType
  <2> QED
    BY <2>1, <2>2
<1> HIDE DEF d
<1>5. /\ g \in FixedRecord(st) /\ g.fixed_ready /\ g.sync_count = 2 /\ g.blocks = f.blocks /\ g.data = f.data
  <2> DEFINE b == Ended(f.data, x)
             q == Append(f.packets, Aas(b))
  <2>1. CASE Intact(b, "byte", Body)
    <3>1. Aas(b) \in PacketsOf(st)
      BY <1>4, <2>1, AasIs
    <3>2. q \in Seq(PacketsOf(st))
      BY <1>2, <3>1
    <3>3. g = [f EXCEPT !.packets = q]
      BY <1>2, <2>1 DEF AasPush, FixedRecord
    <3> HIDE DEF q, g
    <3>4. /\ [f EXCEPT !.packets = q] \in FixedRecord(st) /\ ([f EXCEPT !.packets = q].fixed_ready <=> f.fixed_ready)
          /\ [f EXCEPT !.packets = q].sync_count = f.sync_count
          /\ [f EXCEPT !.packets = q].blocks = f.blocks /\ [f EXCEPT !.packets = q].data = f.data
      BY <1>2, <3>2, WithPackets
    <3> QED
      BY <1>1, <1>2, <3>3, <3>4
  <2>2. CASE ~Intact(b, "byte", Body)
    BY <1>1, <1>2, <2>2 DEF AasPush
  <2> QED
    BY <2>1, <2>2
<1>6. DataByte(f, x) = r
  <2>1. r = [g EXCEPT !.data = Hdlc(@, x, MaxAas)]
    BY <1>5 DEF FixedRecord, d
  <2> QED
    BY <2>1 DEF DataByte
<1> HIDE DEF g
<1>7. /\ r \in FixedRecord(st) /\ (r.fixed_ready <=> g.fixed_ready) /\ r.sync_count = g.sync_count
      /\ r.blocks = g.blocks /\ r.data = d
  BY <1>4, <1>5, WithData
<1> HIDE DEF r
<1>8. r \in Live(st)
  BY <1>2, <1>4, <1>5, <1>7 DEF Live, FixedOf
<1> QED
  BY <1>6, <1>8

LEMMA CccByteType ==
    ASSUME NEW st \in Nat, NEW f \in FixedOf(st), f.sync_count = 2, NEW x \in Bytes
    PROVE  CccByte(f, x) \in FixedOf(st) /\ CccByte(f, x).sync_count = 2
<1> DEFINE b == Ended(f.ccc_buf, x)
           g == ProcessCcc(f, b)
           n == 2 * CccLength
           d == Hdlc(f.ccc_buf, x, n)
           r == [g EXCEPT !.ccc_buf = d]
<1>1. /\ f \in FixedRecord(st) /\ f.ccc_buf \in Buffers(Bytes, n) /\ Len(f.blocks) < BlockLength
      /\ f.fixed_ready \in BOOLEAN
      /\ f.fixed_ready => f.blocks \in Seq(Air(st)) /\ f.data \in Buffers(Air(st), MaxAas)
  BY FixedFields
<1>2. n \in Nat /\ MaxAas \in Nat /\ BlockLength \in Nat \ {0}
  BY FixedConstants
<1>3. d \in Buffers(Bytes, n)
  <2> HIDE DEF n
  <2> QED
    BY <1>1, <1>2, HdlcType
<1>4. /\ g \in FixedRecord(st) /\ g.sync_count = 2 /\ g.ccc_buf = f.ccc_buf /\ Len(g.blocks) < BlockLength
      /\ g.fixed_ready => g.blocks \in Seq(Air(st)) /\ g.data \in Buffers(Air(st), MaxAas)
  <2> DEFINE y == [f EXCEPT !.fixed_ready = TRUE, !.blocks = <<>>, !.data = Waiting]
  <2>1. /\ y \in FixedRecord(st) /\ y.fixed_ready /\ y.sync_count = f.sync_count
        /\ y.ccc_buf = f.ccc_buf /\ y.blocks = <<>> /\ y.data = Waiting
    BY <1>1, BeginIs
  <2>2. g = f \/ g = y
    BY Zenon DEF ProcessCcc
  <2> HIDE DEF y, g
  <2>3. Waiting \in Buffers(Air(st), MaxAas)
    BY <1>2, WaitingType
  <2>4. <<>> \in Seq(Air(st)) /\ Len(<<>>) = 0
    OBVIOUS
  <2>5. CASE g = f
    BY <1>1, <2>5
  <2>6. CASE g = y
    <3>1. Len(g.blocks) < BlockLength
      BY <1>2, <2>1, <2>4, <2>6
    <3>2. g.blocks \in Seq(Air(st)) /\ g.data \in Buffers(Air(st), MaxAas)
      BY <2>1, <2>3, <2>4, <2>6, Zenon
    <3> QED
      BY <2>1, <2>6, <3>1, <3>2, Zenon
  <2> QED
    BY <2>2, <2>5, <2>6
<1> HIDE DEF d, g
<1>5. CccByte(f, x) = r
  BY <1>4 DEF CccByte, FixedRecord, d, g, n, b
<1>6. /\ r \in FixedRecord(st) /\ (r.fixed_ready <=> g.fixed_ready) /\ r.sync_count = g.sync_count
      /\ r.blocks = g.blocks /\ r.data = g.data
  BY <1>3, <1>4, WithCcc
<1> HIDE DEF r
<1>7. r \in FixedOf(st)
  BY <1>4, <1>6 DEF FixedOf
<1> QED
  BY <1>4, <1>5, <1>6, <1>7

DataByteRuns(A, b, q) ==
    \E h \in [0 .. Len(q) -> A] :
        /\ h[0] = b /\ h[Len(q)] = FoldLeft(DataByte, b, q)
        /\ \A k \in 1 .. Len(q) : h[k] = DataByte(h[k - 1], q[k])

LEMMA DataByteFold ==
    ASSUME NEW A, NEW X, \A a \in A, x \in X : DataByte(a, x) \in A, NEW b \in A, NEW q \in Seq(X)
    PROVE  DataByteRuns(A, b, q)
<1> DEFINE n == Len(q)
           F == [ax \in A \X X |-> DataByte(ax[1], ax[2])]
<1>1. n \in Nat /\ DOMAIN q = 1 .. n /\ q \in [1 .. n -> X] /\ n = Len(q)
  OBVIOUS
<1>2. F \in [A \X X -> A] /\ \A a \in A, x \in X : F[<<a, x>>] = DataByte(a, x)
  OBVIOUS
<1> HIDE DEF n, F
<1>3. PICK g \in [SUBSET (1 .. n) -> A] : IsFold(g, n, F, b, q)
  <2>1. b \in A
    OBVIOUS
  <2> QED
    BY <1>1, <1>2, <2>1, FoldExists, Zenon
<1> DEFINE Iter(e) == e = [s \in SUBSET (1 .. n) |-> IF s = {} THEN b ELSE DataByte(e[s \ {Max(s)}], q[Max(s)])]
           i == CHOOSE e : Iter(e)
<1>4. Iter(g)
  <2>1. \A s \in SUBSET (1 .. n) : s # {} => Max(s) \in 1 .. n /\ s \ {Max(s)} \in SUBSET (1 .. n)
    BY MaxIs, <1>1
  <2>2. \A s \in SUBSET (1 .. n) :
          s # {} => F[<<g[s \ {Max(s)}], q[Max(s)]>>] = DataByte(g[s \ {Max(s)}], q[Max(s)])
    BY <2>1, <1>1, <1>2
  <2> QED
    BY <1>3, <2>2 DEF IsFold
<1>5. Iter(i)
  BY <1>4
<1>6. FoldLeft(DataByte, b, q) = i[1 .. n]
  BY <1>1 DEF FoldLeft, MapThenFoldSet
<1> HIDE DEF i
<1>7. i[{}] = b /\ \A k \in 1 .. n : i[1 .. k] = DataByte(i[1 .. k - 1], q[k])
  <2>1. \A s \in SUBSET (1 .. n) : i[s] = IF s = {} THEN b ELSE DataByte(i[s \ {Max(s)}], q[Max(s)])
    BY <1>5
  <2>2. {} \in SUBSET (1 .. n)
    OBVIOUS
  <2>3. i[{}] = b
    BY <2>1, <2>2
  <2>4. ASSUME NEW k \in 1 .. n PROVE i[1 .. k] = DataByte(i[1 .. k - 1], q[k])
    <3>1. 1 .. k # {} /\ 1 .. k \in SUBSET (1 .. n) /\ Max(1 .. k) = k /\ (1 .. k) \ {k} = 1 .. k - 1
      BY <1>1, Segments
    <3> QED
      BY <2>1, <3>1
  <2> QED
    BY <2>3, <2>4
<1>8. IsIter(i, A, F, b, q)
  BY <1>1, <1>2, <1>7 DEF IsIter
<1>9. PICK h \in [0 .. Len(q) -> A] : IsRun(h, F, b, q) /\ h[Len(q)] = i[1 .. Len(q)]
  <2>1. b \in A /\ q \in Seq(X)
    OBVIOUS
  <2>2. HasRun(A, F, b, q, i[1 .. Len(q)])
    BY <1>2, <1>8, <2>1, FoldRun
  <2> QED
    BY <2>2 DEF HasRun
<1>10. \A k \in 1 .. n : F[<<h[k - 1], q[k]>>] = DataByte(h[k - 1], q[k])
  <2>1. \A k \in 1 .. n : k - 1 \in 0 .. Len(q) /\ q[k] \in X
    BY <1>1
  <2> QED
    BY <1>2, <2>1
<1> QED
  BY <1>1, <1>6, <1>9, <1>10 DEF IsRun, DataByteRuns


CccByteRuns(A, b, q) ==
    \E h \in [0 .. Len(q) -> A] :
        /\ h[0] = b /\ h[Len(q)] = FoldLeft(CccByte, b, q)
        /\ \A k \in 1 .. Len(q) : h[k] = CccByte(h[k - 1], q[k])

LEMMA CccByteFold ==
    ASSUME NEW A, NEW X, \A a \in A, x \in X : CccByte(a, x) \in A, NEW b \in A, NEW q \in Seq(X)
    PROVE  CccByteRuns(A, b, q)
<1> DEFINE n == Len(q)
           F == [ax \in A \X X |-> CccByte(ax[1], ax[2])]
<1>1. n \in Nat /\ DOMAIN q = 1 .. n /\ q \in [1 .. n -> X] /\ n = Len(q)
  OBVIOUS
<1>2. F \in [A \X X -> A] /\ \A a \in A, x \in X : F[<<a, x>>] = CccByte(a, x)
  OBVIOUS
<1> HIDE DEF n, F
<1>3. PICK g \in [SUBSET (1 .. n) -> A] : IsFold(g, n, F, b, q)
  <2>1. b \in A
    OBVIOUS
  <2> QED
    BY <1>1, <1>2, <2>1, FoldExists, Zenon
<1> DEFINE Iter(e) == e = [s \in SUBSET (1 .. n) |-> IF s = {} THEN b ELSE CccByte(e[s \ {Max(s)}], q[Max(s)])]
           i == CHOOSE e : Iter(e)
<1>4. Iter(g)
  <2>1. \A s \in SUBSET (1 .. n) : s # {} => Max(s) \in 1 .. n /\ s \ {Max(s)} \in SUBSET (1 .. n)
    BY MaxIs, <1>1
  <2>2. \A s \in SUBSET (1 .. n) :
          s # {} => F[<<g[s \ {Max(s)}], q[Max(s)]>>] = CccByte(g[s \ {Max(s)}], q[Max(s)])
    BY <2>1, <1>1, <1>2
  <2> QED
    BY <1>3, <2>2 DEF IsFold
<1>5. Iter(i)
  BY <1>4
<1>6. FoldLeft(CccByte, b, q) = i[1 .. n]
  BY <1>1 DEF FoldLeft, MapThenFoldSet
<1> HIDE DEF i
<1>7. i[{}] = b /\ \A k \in 1 .. n : i[1 .. k] = CccByte(i[1 .. k - 1], q[k])
  <2>1. \A s \in SUBSET (1 .. n) : i[s] = IF s = {} THEN b ELSE CccByte(i[s \ {Max(s)}], q[Max(s)])
    BY <1>5
  <2>2. {} \in SUBSET (1 .. n)
    OBVIOUS
  <2>3. i[{}] = b
    BY <2>1, <2>2
  <2>4. ASSUME NEW k \in 1 .. n PROVE i[1 .. k] = CccByte(i[1 .. k - 1], q[k])
    <3>1. 1 .. k # {} /\ 1 .. k \in SUBSET (1 .. n) /\ Max(1 .. k) = k /\ (1 .. k) \ {k} = 1 .. k - 1
      BY <1>1, Segments
    <3> QED
      BY <2>1, <3>1
  <2> QED
    BY <2>3, <2>4
<1>8. IsIter(i, A, F, b, q)
  BY <1>1, <1>2, <1>7 DEF IsIter
<1>9. PICK h \in [0 .. Len(q) -> A] : IsRun(h, F, b, q) /\ h[Len(q)] = i[1 .. Len(q)]
  <2>1. b \in A /\ q \in Seq(X)
    OBVIOUS
  <2>2. HasRun(A, F, b, q, i[1 .. Len(q)])
    BY <1>2, <1>8, <2>1, FoldRun
  <2> QED
    BY <2>2 DEF HasRun
<1>10. \A k \in 1 .. n : F[<<h[k - 1], q[k]>>] = CccByte(h[k - 1], q[k])
  <2>1. \A k \in 1 .. n : k - 1 \in 0 .. Len(q) /\ q[k] \in X
    BY <1>1
  <2> QED
    BY <1>2, <2>1
<1> QED
  BY <1>1, <1>6, <1>9, <1>10 DEF IsRun, CccByteRuns


BlockByteRuns(A, b, q) ==
    \E h \in [0 .. Len(q) -> A] :
        /\ h[0] = b /\ h[Len(q)] = FoldLeft(BlockByte, b, q)
        /\ \A k \in 1 .. Len(q) : h[k] = BlockByte(h[k - 1], q[k])

LEMMA BlockByteFold ==
    ASSUME NEW A, NEW X, \A a \in A, x \in X : BlockByte(a, x) \in A, NEW b \in A, NEW q \in Seq(X)
    PROVE  BlockByteRuns(A, b, q)
<1> DEFINE n == Len(q)
           F == [ax \in A \X X |-> BlockByte(ax[1], ax[2])]
<1>1. n \in Nat /\ DOMAIN q = 1 .. n /\ q \in [1 .. n -> X] /\ n = Len(q)
  OBVIOUS
<1>2. F \in [A \X X -> A] /\ \A a \in A, x \in X : F[<<a, x>>] = BlockByte(a, x)
  OBVIOUS
<1> HIDE DEF n, F
<1>3. PICK g \in [SUBSET (1 .. n) -> A] : IsFold(g, n, F, b, q)
  <2>1. b \in A
    OBVIOUS
  <2> QED
    BY <1>1, <1>2, <2>1, FoldExists, Zenon
<1> DEFINE Iter(e) == e = [s \in SUBSET (1 .. n) |-> IF s = {} THEN b ELSE BlockByte(e[s \ {Max(s)}], q[Max(s)])]
           i == CHOOSE e : Iter(e)
<1>4. Iter(g)
  <2>1. \A s \in SUBSET (1 .. n) : s # {} => Max(s) \in 1 .. n /\ s \ {Max(s)} \in SUBSET (1 .. n)
    BY MaxIs, <1>1
  <2>2. \A s \in SUBSET (1 .. n) :
          s # {} => F[<<g[s \ {Max(s)}], q[Max(s)]>>] = BlockByte(g[s \ {Max(s)}], q[Max(s)])
    BY <2>1, <1>1, <1>2
  <2> QED
    BY <1>3, <2>2 DEF IsFold
<1>5. Iter(i)
  BY <1>4
<1>6. FoldLeft(BlockByte, b, q) = i[1 .. n]
  BY <1>1 DEF FoldLeft, MapThenFoldSet
<1> HIDE DEF i
<1>7. i[{}] = b /\ \A k \in 1 .. n : i[1 .. k] = BlockByte(i[1 .. k - 1], q[k])
  <2>1. \A s \in SUBSET (1 .. n) : i[s] = IF s = {} THEN b ELSE BlockByte(i[s \ {Max(s)}], q[Max(s)])
    BY <1>5
  <2>2. {} \in SUBSET (1 .. n)
    OBVIOUS
  <2>3. i[{}] = b
    BY <2>1, <2>2
  <2>4. ASSUME NEW k \in 1 .. n PROVE i[1 .. k] = BlockByte(i[1 .. k - 1], q[k])
    <3>1. 1 .. k # {} /\ 1 .. k \in SUBSET (1 .. n) /\ Max(1 .. k) = k /\ (1 .. k) \ {k} = 1 .. k - 1
      BY <1>1, Segments
    <3> QED
      BY <2>1, <3>1
  <2> QED
    BY <2>3, <2>4
<1>8. IsIter(i, A, F, b, q)
  BY <1>1, <1>2, <1>7 DEF IsIter
<1>9. PICK h \in [0 .. Len(q) -> A] : IsRun(h, F, b, q) /\ h[Len(q)] = i[1 .. Len(q)]
  <2>1. b \in A /\ q \in Seq(X)
    OBVIOUS
  <2>2. HasRun(A, F, b, q, i[1 .. Len(q)])
    BY <1>2, <1>8, <2>1, FoldRun
  <2> QED
    BY <2>2 DEF HasRun
<1>10. \A k \in 1 .. n : F[<<h[k - 1], q[k]>>] = BlockByte(h[k - 1], q[k])
  <2>1. \A k \in 1 .. n : k - 1 \in 0 .. Len(q) /\ q[k] \in X
    BY <1>1
  <2> QED
    BY <1>2, <2>1
<1> QED
  BY <1>1, <1>6, <1>9, <1>10 DEF IsRun, BlockByteRuns


LEMMA AlignedType ==
    ASSUME NEW A, NEW q \in Seq(A)
    PROVE  Aligned(q) \in Seq(A) /\ Len(Aligned(q)) <= Len(q)
<1>1. CASE Aligned(q) = q
  BY <1>1
<1>2. CASE Aligned(q) # q
  <2>1. Len(q) = 2 /\ Aligned(q) = Tail(q)
    BY <1>2 DEF Aligned
  <2>2. q # <<>>
    BY <2>1
  <2>3. Tail(q) \in Seq(A) /\ Len(Tail(q)) = Len(q) - 1
    BY <2>2
  <2> QED
    BY <2>1, <2>3
<1> QED
  BY <1>1, <1>2

LEMMA BlockByteType ==
    ASSUME NEW st \in Nat, NEW f \in Live(st), NEW x \in Air(st)
    PROVE  BlockByte(f, x) \in Live(st)
<1> DEFINE a == Append(f.blocks, x)
           blocks == Aligned(a)
           q == SubSeq(blocks, 3, BlockLength)
           g == FoldLeft(DataByte, f, q)
<1>1. f \in FixedOf(st) /\ f.fixed_ready
  BY DEF Live
<1>2. /\ f \in FixedRecord(st) /\ f.blocks \in Seq(Air(st)) /\ Len(f.blocks) \in Nat /\ Len(f.blocks) < BlockLength
      /\ f.sync_count = 2 /\ f.data \in Buffers(Air(st), MaxAas)
  BY <1>1, FixedFields
<1>3. BlockLength \in Nat /\ BlockLength >= 3
  BY FixedConstants
<1>4. a \in Seq(Air(st)) /\ Len(a) = Len(f.blocks) + 1
  BY <1>2
<1> HIDE DEF a
<1>5. blocks \in Seq(Air(st)) /\ Len(blocks) \in Nat /\ Len(blocks) <= BlockLength
  <2>1. blocks \in Seq(Air(st)) /\ Len(blocks) <= Len(a)
    BY <1>4, AlignedType
  <2> HIDE DEF blocks
  <2>2. Len(blocks) \in Nat
    BY <2>1
  <2> QED
    BY <1>2, <1>3, <1>4, <2>1, <2>2
<1>6. BlockByte(f, x) = IF Len(blocks) < BlockLength THEN [f EXCEPT !.blocks = blocks]
                        ELSE [g EXCEPT !.blocks = <<>>]
  BY DEF BlockByte, a
<1> HIDE DEF blocks
<1>7. ASSUME NEW h \in Live(st), NEW b \in Seq(Air(st)), Len(b) < BlockLength
      PROVE  [h EXCEPT !.blocks = b] \in Live(st)
  <2> DEFINE r == [h EXCEPT !.blocks = b]
  <2>1. h \in FixedOf(st) /\ h.fixed_ready
    BY DEF Live
  <2>2. h \in FixedRecord(st) /\ h.sync_count = 2 /\ h.data \in Buffers(Air(st), MaxAas)
    BY <2>1, FixedFields
  <2>3. b \in Seq(Bytes)
    <3>1. Air(st) \subseteq Bytes
      BY Signs
    <3> QED
      BY <3>1
  <2>4. /\ r \in FixedRecord(st) /\ (r.fixed_ready <=> h.fixed_ready) /\ r.sync_count = h.sync_count
        /\ r.blocks = b /\ r.data = h.data
    BY <2>2, <2>3, WithBlocks
  <2> HIDE DEF r
  <2>5. r \in Live(st)
    BY <2>1, <2>2, <2>4, <1>7 DEF Live, FixedOf
  <2> QED
    BY <2>5 DEF r
<1>8. CASE Len(blocks) < BlockLength
  BY <1>5, <1>6, <1>7, <1>8
<1>9. CASE ~(Len(blocks) < BlockLength)
  <2>1. Len(blocks) = BlockLength
    BY <1>3, <1>5, <1>9
  <2>2. q \in Seq(Air(st))
    <3>1. \A i \in 3 .. BlockLength : blocks[i] \in Air(st)
      BY <1>3, <1>5, <2>1
    <3> QED
      BY <1>3, <1>5, <2>1, <3>1, SubSeqProperties
  <2> HIDE DEF q
  <2>3. \A h \in Live(st), y \in Air(st) : DataByte(h, y) \in Live(st)
    BY DataByteType
  <2>4. DataByteRuns(Live(st), f, q)
    BY <2>2, <2>3, DataByteFold
  <2>5. Len(q) \in 0 .. Len(q)
    BY <2>2
  <2>6. g \in Live(st)
    BY <2>4, <2>5 DEF DataByteRuns
  <2> HIDE DEF g
  <2>7. <<>> \in Seq(Air(st)) /\ Len(<<>>) < BlockLength
    BY <1>3
  <2>8. [g EXCEPT !.blocks = <<>>] \in Live(st)
    BY <1>7, <2>6, <2>7
  <2> QED
    BY <1>6, <1>9, <2>8
<1> QED
  BY <1>8, <1>9

LEMMA SyncedType ==
    ASSUME NEW st \in Nat, NEW f \in FixedOf(st), NEW width \in Nat
    PROVE  Synced(f, width) \in FixedOf(st)
<1> DEFINE count == IF width > 0 /\ f.sync_width = width THEN f.sync_count + 1 ELSE 0
           r == [f EXCEPT !.sync_count = count, !.sync_width = width]
<1>1. CASE f.sync_count = 2
  BY <1>1 DEF Synced
<1>2. CASE f.sync_count # 2
  <2>1. /\ f \in FixedRecord(st) /\ f.sync_count \in 0 .. 2 /\ f.fixed_ready \in BOOLEAN
        /\ Len(f.blocks) < BlockLength /\ ~f.fixed_ready
    BY <1>2, FixedFields
  <2>2. count \in 0 .. 2
    BY <1>2, <2>1
  <2>3. Synced(f, width) = r
    BY <1>2 DEF Synced
  <2> HIDE DEF count
  <2>4. /\ r \in FixedRecord(st) /\ (r.fixed_ready <=> f.fixed_ready) /\ r.blocks = f.blocks
    BY <2>1, <2>2, Zenon DEF FixedRecord
  <2> HIDE DEF r
  <2>5. r \in FixedOf(st)
    BY <2>1, <2>4 DEF FixedOf
  <2> QED
    BY <2>3, <2>5
<1> QED
  BY <1>1, <1>2

\* A frame leaves ccc_data_t as it should be.
LEMMA FixedReadType ==
    ASSUME station \in Nat, at \in 0 .. Period - 1, ccc_at \in Nat,
           NEW f \in FixedOf(station), NEW width \in Nat
    PROVE  FixedRead(f, width) \in FixedOf(station)
<1> DEFINE s == Synced(f, width)
           Read(symbols) == IF s.sync_width = Width THEN symbols ELSE [i \in DOMAIN symbols |-> Garbage]
           p == Read(CccSent)
           q == Read(Sent)
           c == FoldLeft(CccByte, s, p)
           b == FoldLeft(BlockByte, c, q)
<1>1. s \in FixedOf(station)
  BY SyncedType
<1> HIDE DEF s
<1>2. p \in Seq(Bytes) /\ q \in Seq(Air(station))
  <2>1. Sent \in Seq(Air(station)) /\ CccSent \in Seq(Bytes)
    BY SentType
  <2>2. ASSUME NEW A, NEW z \in Seq(A), Garbage \in A PROVE Read(z) \in Seq(A)
    BY <2>2
  <2>3. Garbage \in Air(station) /\ Garbage \in Bytes
    BY Signs
  <2> HIDE DEF Read
  <2> QED
    BY <2>1, <2>2, <2>3
<1>3. FixedRead(f, width) = IF s.sync_count < 2 THEN s ELSE IF ~c.fixed_ready THEN c ELSE b
  BY DEF FixedRead, s
<1> HIDE DEF p, q
<1>4. ASSUME s.sync_count = 2 PROVE c \in FixedOf(station)
  <2> DEFINE A == {g \in FixedOf(station) : g.sync_count = 2}
  <2>1. \A g \in A, x \in Bytes : CccByte(g, x) \in A
    BY CccByteType
  <2>2. s \in A
    BY <1>1, <1>4
  <2> HIDE DEF A
  <2>3. CccByteRuns(A, s, p)
    BY <1>2, <2>1, <2>2, CccByteFold
  <2>4. Len(p) \in 0 .. Len(p)
    BY <1>2
  <2>5. c \in A
    BY <2>3, <2>4 DEF CccByteRuns
  <2> QED
    BY <2>5 DEF A
<1> HIDE DEF c
<1>5. ASSUME c \in FixedOf(station), c.fixed_ready PROVE b \in FixedOf(station)
  <2>1. c \in Live(station)
    BY <1>5 DEF Live
  <2>2. \A g \in Live(station), x \in Air(station) : BlockByte(g, x) \in Live(station)
    BY BlockByteType
  <2>3. BlockByteRuns(Live(station), c, q)
    BY <1>2, <2>1, <2>2, BlockByteFold
  <2>4. Len(q) \in 0 .. Len(q)
    BY <1>2
  <2>5. b \in Live(station)
    BY <2>3, <2>4 DEF BlockByteRuns
  <2> QED
    BY <2>5 DEF Live
<1> HIDE DEF b
<1>6. s.sync_count \in 0 .. 2
  BY <1>1, FixedFields
<1> QED
  BY <1>1, <1>3, <1>4, <1>5, <1>6

-----------------------------------------------------------------------------
(* The services *)

\* The types of everything behind the frames.
AirInv == station \in Nat /\ at \in 0 .. Period - 1 /\ ccc_at \in 0 .. CccLength
FixedInv == fixed \in FixedOf(station) /\ fixed.packets = <<>>
HereInv == here \in HereType /\ here.reported = <<>>
Counters == damaged \in 0 .. MaxDamaged /\ faults \in 0 .. MaxFaults /\ resets \in 0 .. MaxResets
FramesInv == AirInv /\ FixedInv /\ HereInv /\ Counters

\* What has been collected is a part of one image, and what the latest step
\* reported is whole; but for what rounds of the numbers are missing in.
ImagesInv ==
    /\ Placed(here, station)
    /\ \A i \in DOMAIN images : GoodReport(station, images[i])

LEMMA NoFixedType ==
    ASSUME NEW st \in Nat
    PROVE  NoFixed \in FixedOf(st) /\ NoFixed.packets = <<>>
<1>1. 0 \in Nat /\ 0 \in 0 .. 2 /\ <<>> \in Seq(Bytes) /\ <<>> \in Seq(PacketsOf(st)) /\ Len(<<>>) = 0
  OBVIOUS
<1>2. Waiting \in Buffers(Bytes, 2 * CccLength) /\ Waiting \in Buffers(Bytes, MaxAas)
  <2>1. 2 * CccLength \in Nat /\ MaxAas \in Nat
    BY FixedConstants
  <2> QED
    BY <2>1, WaitingType
<1>3. NoFixed \in FixedRecord(st)
  BY <1>1, <1>2 DEF NoFixed, FixedRecord
<1>4. NoFixed.blocks = <<>> /\ ~NoFixed.fixed_ready /\ NoFixed.packets = <<>>
  BY DEF NoFixed
<1>5. Len(NoFixed.blocks) < BlockLength
  BY <1>1, <1>4, FixedConstants
<1> QED
  BY <1>3, <1>4, <1>5 DEF FixedOf

\* frame_reset: nothing of the subchannels counts any more.
LEMMA FrameResetType ==
    ASSUME NEW st \in Nat, NEW f \in FixedOf(st), NEW s \in Nat
    PROVE  FrameReset(f) \in FixedOf(s) /\ FrameReset(f).packets = <<>>
<1> DEFINE n == NoFixed
           r == [n EXCEPT !.blocks = f.blocks, !.data = f.data]
<1>1. n \in FixedOf(s) /\ n.packets = <<>>
  BY NoFixedType
<1>2. n \in FixedRecord(s) /\ ~n.fixed_ready
  <2>1. ~n.fixed_ready
    BY DEF NoFixed
  <2> QED
    BY <1>1, <2>1 DEF FixedOf
<1>3. f.blocks \in Seq(Bytes) /\ f.data \in Buffers(Bytes, MaxAas) /\ Len(f.blocks) < BlockLength
  BY FixedFields
<1>4. FrameReset(f) = r
  BY DEF FrameReset
<1> HIDE DEF n
<1>5. r \in FixedRecord(s) /\ (r.fixed_ready <=> n.fixed_ready) /\ r.blocks = f.blocks /\ r.packets = n.packets
  BY <1>2, <1>3, Zenon DEF FixedRecord
<1> HIDE DEF r
<1>6. r \in FixedOf(s)
  BY <1>2, <1>3, <1>5 DEF FixedOf
<1> QED
  BY <1>1, <1>4, <1>5, <1>6

LEMMA SentAir ==
    ASSUME AirInv, NEW n \in Nat, FrameSent(n)
    PROVE  AirInv' /\ station' = station
<1>1. Period \in Nat \ {0} /\ CccLength + 1 \in Nat \ {0} /\ CccLength \in Nat
      /\ PduData \in Nat /\ Width \in Nat
  BY FixedConstants
<1>2. at' = (at + n * PduData) % Period /\ ccc_at' = (ccc_at + n * Width) % (CccLength + 1)
      /\ station' = station
  BY DEF FrameSent
<1>3. at + n * PduData \in Nat /\ ccc_at + n * Width \in Nat
  <2>1. n * PduData \in Nat /\ n * Width \in Nat
    BY <1>1
  <2> QED
    BY <2>1, <1>1 DEF AirInv
<1>4. at' \in 0 .. Period - 1
  BY <1>1, <1>2, <1>3
<1>5. ccc_at' \in 0 .. CccLength
  <2> DEFINE L == CccLength + 1
             c == ccc_at + n * Width
  <2>1. L \in Nat \ {0} /\ c \in Nat /\ ccc_at' = c % L
    BY <1>1, <1>2, <1>3
  <2> HIDE DEF L, c
  <2>2. ccc_at' \in 0 .. L - 1
    BY <2>1
  <2> QED
    BY <2>2, <1>1 DEF L
<1> QED
  BY <1>2, <1>4, <1>5 DEF AirInv

LEMMA ReportedSet ==
    ASSUME NEW h \in HereType
    PROVE  LET r == [h EXCEPT !.reported = <<>>]
           IN  /\ r \in HereType /\ (r.payload <=> h.payload) /\ r.buffer = h.buffer
               /\ r.expected_seq = h.expected_seq /\ r.reported = <<>>
               /\ r.next = h.next /\ r.missed = h.missed
<1>1. PICK e \in Seq(Reported) : e = <<>>
  <2>1. <<>> \in Seq(Reported)
    OBVIOUS
  <2> QED
    BY <2>1, Zenon
<1> DEFINE r == [h EXCEPT !.reported = e]
<1>2. /\ r \in HereRecord /\ (r.payload <=> h.payload) /\ r.buffer = h.buffer
      /\ r.expected_seq = h.expected_seq /\ r.sync_state = h.sync_state /\ r.reported = e
      /\ r.next = h.next /\ r.missed = h.missed
  BY Zenon DEF HereRecord, HereType
<1> HIDE DEF r
<1>3. r \in HereType
  BY <1>2 DEF HereType
<1> QED
  BY <1>1, <1>2, <1>3 DEF r

\* A frame, with whatever width.
LEMMA PduStep ==
    ASSUME AirInv, FixedInv, HereInv, NEW width \in Nat, Pdu(width)
    PROVE  /\ AirInv' /\ FixedInv' /\ HereInv'
           /\ ImagesInv => ImagesInv'
<1> DEFINE f == FixedRead(fixed, width)
           h == FoldLeft(HerePush, here, f.packets)
           g == [f EXCEPT !.packets = <<>>]
           k == [h EXCEPT !.reported = <<>>]
<1>1. fixed' = g /\ here' = k /\ images' = h.reported /\ FrameSent(1)
  BY DEF Pdu, HerePushes
<1>2. AirInv' /\ station' = station
  BY <1>1, SentAir
<1>3. station \in Nat /\ at \in 0 .. Period - 1 /\ ccc_at \in Nat /\ fixed \in FixedOf(station)
  BY FixedConstants DEF AirInv, FixedInv
<1>4. f \in FixedOf(station)
  BY <1>3, FixedReadType
<1> HIDE DEF f
<1>5. f.packets \in Seq(PacketsOf(station)) /\ f \in FixedRecord(station)
  BY <1>3, <1>4, FixedFields
<1>6. here \in HereType /\ here.reported = <<>>
  BY DEF HereInv
<1>7. h \in HereType
  BY <1>3, <1>5, <1>6, PushesType
<1>8. g \in FixedOf(station) /\ g.packets = <<>>
  <2>1. PICK e \in Seq(PacketsOf(station)) : e = <<>>
    <3>1. <<>> \in Seq(PacketsOf(station))
      OBVIOUS
    <3> QED
      BY <3>1, Zenon
  <2> DEFINE r == [f EXCEPT !.packets = e]
  <2>2. /\ r \in FixedRecord(station) /\ (r.fixed_ready <=> f.fixed_ready)
        /\ r.sync_count = f.sync_count /\ r.blocks = f.blocks /\ r.data = f.data /\ r.packets = e
    BY <1>5, Zenon DEF FixedRecord
  <2> HIDE DEF r
  <2>3. r \in FixedOf(station)
    BY <1>4, <2>2 DEF FixedOf
  <2>4. g = r
    BY <2>1 DEF r
  <2> QED
    BY <2>1, <2>2, <2>3, <2>4
<1>9. /\ k \in HereType /\ (k.payload <=> h.payload) /\ k.buffer = h.buffer
      /\ k.expected_seq = h.expected_seq /\ k.reported = <<>>
      /\ k.next = h.next /\ k.missed = h.missed
  BY <1>7, ReportedSet
<1>10. ASSUME ImagesInv PROVE ImagesInv'
  <2>1. Placed(here, station)
    BY <1>10 DEF ImagesInv
  <2>2. Reports(here, station)
    BY <1>6 DEF Reports
  <2>3. Placed(h, station) /\ Reports(h, station)
    BY <1>3, <1>5, <1>6, <1>10, <2>1, <2>2, PushesKeep
  <2> HIDE DEF h, k
  <2>4. Placed(k, station)
    BY <2>3, <1>9 DEF Placed, At
  <2>5. DOMAIN h.reported = 1 .. Len(h.reported)
    BY <1>7, HereFields
  <2>6. \A i \in DOMAIN images' : GoodReport(station, images'[i])
    BY <1>1, <2>3, <2>5 DEF Reports
  <2> QED
    BY <1>1, <1>2, <2>4, <2>6 DEF ImagesInv
<1> HIDE DEF g, k, h
<1> QED
  BY <1>1, <1>2, <1>8, <1>9, <1>10 DEF FixedInv, HereInv

LEMMA HereResetIs ==
    ASSUME HereInv
    PROVE  HereReset \in HereType /\ HereReset.reported = <<>> /\ HereReset.expected_seq = -1
<1>1. PICK e \in -1 .. PacketSeqs - 1 : e = -1
  BY HereConstants
<1> DEFINE r == [here EXCEPT !.expected_seq = e, !.last_timestamp = NoTimestamps]
<1>2. here \in HereType /\ here.reported = <<>> /\ NoTimestamps \in Times
  BY NoHereType DEF HereInv
<1>3. /\ r \in HereRecord /\ (r.payload <=> here.payload) /\ r.buffer = here.buffer
      /\ r.expected_seq = e /\ r.sync_state = here.sync_state /\ r.reported = here.reported
  BY <1>2, Zenon DEF HereRecord, HereType
<1>4. HereReset = r
  BY <1>1 DEF HereReset
<1> HIDE DEF r
<1>5. r \in HereType
  BY <1>2, <1>3 DEF HereType
<1> QED
  BY <1>1, <1>2, <1>3, <1>4, <1>5

LEMMA FramesInit == Init => FramesInv /\ ImagesInv
<1> SUFFICES ASSUME Init PROVE FramesInv /\ ImagesInv
  OBVIOUS
<1>1. here = NoHere /\ images = <<>> /\ damaged = 0 /\ faults = 0 /\ resets = 0 /\ station = 1 /\ ccc_at = 0
      /\ fixed = NoFixed /\ at \in 0 .. PduData - 1
  <2>1. PduData \in Nat \ {0}
    BY FixedConstants
  <2> QED
    BY <2>1 DEF Init, HereStart, FixedStart
<1>2. AirInv
  BY <1>1, FixedConstants DEF AirInv
<1>3. FixedInv
  BY <1>1, NoFixedType DEF FixedInv
<1>4. HereInv
  BY <1>1, NoHereType DEF HereInv, NoHere
<1>5. Counters
  BY <1>1, ServicesAssumption DEF Counters
<1>6. Placed(here, station)
  BY <1>1 DEF Placed, NoHere
<1>7. DOMAIN images = {}
  BY <1>1
<1> QED
  BY <1>2, <1>3, <1>4, <1>5, <1>6, <1>7 DEF FramesInv, ImagesInv

\* What leaves the frames alone.
LEMMA FramesKept ==
    ASSUME FramesInv, UNCHANGED <<here, fixedVars>>
    PROVE  /\ AirInv' /\ FixedInv' /\ HereInv'
           /\ Placed(here, station) => Placed(here, station)'
BY DEF FramesInv, AirInv, FixedInv, HereInv, fixedVars, Placed, At

LEMMA NoImages == images' = <<>> => DOMAIN images' = {}
OBVIOUS

LEMMA FramesStep ==
    ASSUME FramesInv, [Next]_vars
    PROVE  FramesInv' /\ (ImagesInv => ImagesInv')
<1>1. /\ AirInv /\ FixedInv /\ HereInv /\ Counters
      /\ damaged \in 0 .. MaxDamaged /\ faults \in 0 .. MaxFaults /\ resets \in 0 .. MaxResets
  BY DEF FramesInv, Counters
<1>2. MaxDamaged \in Nat /\ MaxFaults \in Nat /\ MaxResets \in Nat /\ MaxLost \in Nat
  BY ServicesAssumption
<1>3. UNCHANGED counted => Counters'
  BY <1>1 DEF Counters, counted
<1>4. (Fault => Counters') /\ (Reset => Counters')
  BY <1>1, <1>2 DEF Counters, Fault, Reset
<1>5. Width \in Nat
  BY FixedConstants
<1>6. CASE UNCHANGED vars
  <2>1. UNCHANGED <<here, images, fixedVars, counted>>
    BY <1>6 DEF vars, hereVars
  <2>2. AirInv' /\ FixedInv' /\ HereInv' /\ (Placed(here, station) => Placed(here, station)')
    BY <2>1, FramesKept
  <2>3. station' = station /\ images' = images
    BY <2>1 DEF fixedVars
  <2>4. ImagesInv => ImagesInv'
    BY <2>2, <2>3 DEF ImagesInv
  <2> QED
    BY <1>3, <2>1, <2>2, <2>4 DEF FramesInv
<1>7. CASE Information \/ News
  <2>1. images' = <<>> /\ UNCHANGED <<here, fixedVars, counted>>
    BY <1>7 DEF Information, News
  <2>2. AirInv' /\ FixedInv' /\ HereInv' /\ (Placed(here, station) => Placed(here, station)')
    BY <2>1, FramesKept
  <2>3. ImagesInv => ImagesInv'
    BY <2>1, <2>2, NoImages DEF ImagesInv
  <2> QED
    BY <1>3, <2>1, <2>2, <2>3 DEF FramesInv
<1>8. CASE Frame
  <2>1. Pdu(Width) /\ UNCHANGED counted
    BY <1>8 DEF Frame
  <2>2. AirInv' /\ FixedInv' /\ HereInv' /\ (ImagesInv => ImagesInv')
    BY <1>1, <1>5, <2>1, PduStep
  <2> QED
    BY <1>3, <2>1, <2>2 DEF FramesInv
<1>9. CASE DamagedFrame
  <2>1. Counters'
    BY <1>1, <1>2, <1>9 DEF DamagedFrame, Counters
  <2>2. PICK width \in {0, Width + 1} : Pdu(width)
    BY <1>9 DEF DamagedFrame
  <2>3. width \in Nat
    BY <1>5
  <2>4. AirInv' /\ FixedInv' /\ HereInv' /\ (ImagesInv => ImagesInv')
    BY <1>1, <2>2, <2>3, PduStep
  <2> QED
    BY <2>1, <2>4 DEF FramesInv
<1>10. CASE LostFrames
  <2>1. Fault /\ images' = <<>> /\ UNCHANGED <<here, fixed>>
    BY <1>10 DEF LostFrames
  <2>2. PICK n \in 1 .. MaxLost : FrameSent(n)
    BY <1>10 DEF LostFrames
  <2>3. n \in Nat
    BY <1>2
  <2>4. AirInv' /\ station' = station
    BY <1>1, <2>2, <2>3, SentAir
  <2>5. FixedInv' /\ HereInv'
    BY <1>1, <2>1, <2>4 DEF FixedInv, HereInv
  <2>6. ImagesInv => ImagesInv'
    BY <2>1, <2>4, NoImages DEF ImagesInv
  <2> QED
    BY <1>4, <2>1, <2>4, <2>5, <2>6 DEF FramesInv
<1>11. CASE Resync
  <2>1. Reset /\ images' = <<>> /\ UNCHANGED here /\ fixed' = FrameReset(fixed)
    BY <1>11 DEF Resync
  <2>2. PICK n \in 0 .. MaxLost : IF "images" \in lineup THEN FrameSent(n) ELSE UNCHANGED airVars
    BY <1>11 DEF Resync
  <2>3. n \in Nat
    BY <1>2
  <2>4. AirInv' /\ station' = station
    <3>1. CASE FrameSent(n)
      BY <1>1, <2>3, <3>1, SentAir
    <3>2. CASE UNCHANGED airVars
      BY <1>1, <3>2 DEF airVars, AirInv
    <3> QED
      BY <2>2, <3>1, <3>2
  <2>5. FixedInv' /\ HereInv'
    <3>1. station \in Nat /\ fixed \in FixedOf(station)
      BY <1>1 DEF AirInv, FixedInv
    <3>2. FrameReset(fixed) \in FixedOf(station) /\ FrameReset(fixed).packets = <<>>
      BY <3>1, FrameResetType
    <3> QED
      BY <1>1, <2>1, <2>4, <3>2 DEF FixedInv, HereInv
  <2>6. ImagesInv => ImagesInv'
    BY <2>1, <2>4, NoImages DEF ImagesInv
  <2> QED
    BY <1>4, <2>1, <2>4, <2>5, <2>6 DEF FramesInv
<1>12. CASE Retune
  <2>1. /\ Reset /\ images' = <<>> /\ here' = HereReset /\ fixed' = FrameReset(fixed)
        /\ station' = station + 1 /\ UNCHANGED <<at, ccc_at>>
    BY <1>12 DEF Retune
  <2>2. station \in Nat /\ station' \in Nat /\ fixed \in FixedOf(station)
    BY <1>1, <2>1 DEF AirInv, FixedInv
  <2>3. AirInv'
    BY <1>1, <2>1, <2>2 DEF AirInv
  <2>4. FixedInv'
    <3>1. FrameReset(fixed) \in FixedOf(station + 1) /\ FrameReset(fixed).packets = <<>>
      <4>1. station + 1 \in Nat
        BY <2>2
      <4> QED
        BY <2>2, <4>1, FrameResetType
    <3> QED
      BY <2>1, <3>1 DEF FixedInv
  <2>5. HereReset \in HereType /\ HereReset.reported = <<>> /\ HereReset.expected_seq = -1
    BY <1>1, HereResetIs
  <2>6. HereInv' /\ ImagesInv'
    BY <2>1, <2>5, NoImages DEF HereInv, ImagesInv, Placed
  <2> QED
    BY <1>4, <2>1, <2>3, <2>4, <2>6 DEF FramesInv
<1> QED
  BY <1>6, <1>7, <1>8, <1>9, <1>10, <1>11, <1>12 DEF Next

LEMMA FramesInvariant == Spec => []FramesInv
<1>1. Init => FramesInv
  BY FramesInit
<1>2. FramesInv /\ [Next]_vars => FramesInv'
  BY FramesStep
<1> QED
  BY <1>1, <1>2, PTL DEF Spec

\* Every variable of the services has the type the code gives it: the numbers
\* of the texts, the buffers of HDLC and of the blocks and of an image never
\* hold more than they have room for.
THEOREM ServicesTypes == Spec => []TypeOK
<1>1. PidsInv => PidsTypeOK
  <2> SUFFICES ASSUME PidsInv PROVE PidsTypeOK
    OBVIOUS
  <2>1. /\ lineup \in Lineups /\ pids \in PidsType /\ pids.alert_timeout < AlertLimit /\ told \in ToldType
        /\ silent \in 0 .. AlertLimit /\ base \in [Texts -> Bases]
    BY DEF PidsInv
  <2>2. NoPids \in PidsType /\ NothingTold \in ToldType
    BY BlankType
  <2>3. DOMAIN pids = DOMAIN NoPids
    BY <2>1, <2>2 DEF PidsType
  <2>4. DOMAIN told = DOMAIN NothingTold
    BY <2>1, <2>2 DEF ToldType
  <2>5. pids.alert_timeout \in 0 .. AlertLimit - 1
    BY <2>1, PidsConstants DEF PidsType
  <2>6. Len(pids.data_services) <= DataServices
    BY <2>1 DEF PidsType, DataType
  <2>7. ASSUME NEW k \in Texts
        PROVE  pids.texts[k].have \subseteq Frames /\ pids.texts[k].seq \in -1 .. Seqs - 1
    <3>1. pids.texts[k] \in TextType
      BY <2>1 DEF PidsType
    <3> QED
      BY <3>1 DEF TextType, Numbers
  <2>8. base \in [Texts -> {Mixed, None} \cup 1 .. Versions]
    BY <2>1 DEF Bases
  <2> QED
    BY <2>1, <2>3, <2>4, <2>5, <2>6, <2>7, <2>8 DEF PidsTypeOK
<1>2. FramesInv => HereTypeOK /\ FixedTypeOK /\ damaged \in 0 .. MaxDamaged /\ faults \in 0 .. MaxFaults /\ resets \in 0 .. MaxResets
  <2> SUFFICES ASSUME FramesInv
               PROVE HereTypeOK /\ FixedTypeOK /\ damaged \in 0 .. MaxDamaged /\ faults \in 0 .. MaxFaults /\ resets \in 0 .. MaxResets
    OBVIOUS
  <2>1. here \in HereType /\ station \in Nat /\ fixed \in FixedOf(station) /\ at \in 0 .. Period - 1
        /\ ccc_at \in 0 .. CccLength
    BY DEF FramesInv, HereInv, FixedInv, AirInv
  <2>2. HereTypeOK
    BY <2>1, HereFields DEF HereTypeOK, Times
  <2>3. FixedTypeOK
    <3>1. /\ fixed.sync_count \in 0 .. 2 /\ fixed.ccc_buf \in Buffers(Bytes, 2 * CccLength)
          /\ fixed.data \in Buffers(Bytes, MaxAas) /\ Len(fixed.blocks) < BlockLength
          /\ fixed.fixed_ready => fixed.sync_count = 2
      BY <2>1, FixedFields
    <3> QED
      BY <2>1, <3>1 DEF FixedTypeOK, Buffers
  <2> QED
    BY <2>2, <2>3 DEF FramesInv, Counters
<1>3. PidsInv /\ FramesInv => TypeOK
  BY <1>1, <1>2 DEF TypeOK
<1> QED
  BY <1>3, PidsInvariant, FramesInvariant, PTL

\* Every image that is reported is put together from the packets of one image
\* of the station that the receiver is tuned to, whatever was lost, damaged or
\* tuned away from in it; or as many packets are missing in it as there are
\* numbers of packets, or twice as many and so on, which the receiver cannot
\* tell.  That holds for every station, however long its stream is.
THEOREM ServicesImages == Spec => []ImagesWhole
<1>1. Init => FramesInv /\ ImagesInv
  BY FramesInit
<1>2. FramesInv /\ ImagesInv /\ [Next]_vars => FramesInv' /\ ImagesInv'
  BY FramesStep
<1>3. ImagesInv => ImagesWhole
  <2> SUFFICES ASSUME ImagesInv, NEW i \in DOMAIN images
               PROVE /\ images[i].missed % PacketSeqs = 0
                     /\ images[i].missed = 0 =>
                          WholeImage(images[i].parts) /\ images[i].parts[1].station = station
    BY DEF ImagesWhole
  <2>1. GoodReport(station, images[i])
    BY DEF ImagesInv
  <2>2. images[i].missed % PacketSeqs = 0
    BY <2>1 DEF GoodReport
  <2>3. ASSUME images[i].missed = 0
        PROVE  WholeImage(images[i].parts) /\ images[i].parts[1].station = station
    <3> DEFINE w == images[i].parts
    <3>1. GoodImage(station, w)
      BY <2>1, <2>3 DEF GoodReport
    <3> HIDE DEF w
    <3>2. PICK image \in 0 .. ImageCount - 1 : Len(w) = ImageBody /\ Pieces(w, station, image)
      BY <3>1 DEF GoodImage
    <3>3. ImageBody \in Nat \ {0}
      BY HereConstants
    <3>4. \A j \in 1 .. ImageBody : w[j] = [kind |-> "body", station |-> station, image |-> image, part |-> j - 1]
      BY <3>2 DEF Pieces
    <3>5. 1 \in 1 .. ImageBody
      BY <3>3
    <3>6. w[1] = [kind |-> "body", station |-> station, image |-> image, part |-> 0]
      BY <3>4, <3>5
    <3>7. \A j \in 1 .. ImageBody : w[j] = [w[1] EXCEPT !.part = j - 1]
      BY <3>4, <3>6
    <3> QED
      BY <3>6, <3>7 DEF WholeImage, w
  <2> QED
    BY <2>2, <2>3
<1> QED
  BY <1>1, <1>2, <1>3, PTL DEF Spec
=============================================================================
