---------------------------- MODULE JukeboxProofs ----------------------------
(***************************************************************************)
(* Jukebox keeps its types and the two-airing rule, for every number of    *)
(* songs, takes, failures and builders killed.                             *)
(***************************************************************************)
EXTENDS Jukebox, WellFoundedInduction, TLAPS

Minting == {"mint", "trim", "trimmed", "companion"}
Comparing == {"correlate", "align"}
Of(p) == {p[1], p[2]}

\* Only a name that two workers have is written to when its file is whole.
WorkersInv ==
    \A s \in Songs : \A i \in Takes \ shared[s] :
        /\ Workers(s, i) <= 1
        /\ raw[s][i] = "whole" => Workers(s, i) = 0

\* What is known of a pair is known of complete takes, that the builder of a
\* later round has in its groups.
KnownInv ==
    \A s \in Songs, q \in Pairs : conf[s][q] # Unheard =>
        /\ Of(q) \subseteq Whole(s)
        /\ pc # "idle" => Of(q) \subseteq groups[s]

\* What is read is whole, unless two workers have its name.
StillInv ==
    /\ pc = "align" /\ still => NextPair[1] \in Whole(song)
    /\ ~ still =>
         \/ /\ pc = "align" /\ Of(NextPair) \cap shared[song] # {}
            /\ conf[song][NextPair] = Unheard
         \/ pc = "trim" /\ best.pair[1] \in shared[song]

\* The best so far is good enough, and the pairs compared are no better.
BestInv ==
    /\ \A p \in left : Of(p) \subseteq groups[song]
    /\ pc \notin Comparing => left = {}
    /\ pc \in Comparing =>
        /\ minted[song] = None
        /\ best # None /\ Of(best.pair) \cap shared[song] = {} =>
             Of(best.pair) \subseteq Whole(song) /\ conf[song][best.pair] = best.conf
        /\ \/ best # None /\ best.conf >= Excellent
           \/ \A q \in Pairs \ left : conf[song][q] # Unheard =>
                 \/ conf[song][q] < Threshold
                 \/ best # None /\ conf[song][q] <= best.conf

\* The file that is minted next is the one that ffmpeg has just completed.
Cut(f) ==
    /\ f \in Files /\ f.pair = best.pair /\ f.conf = best.conf
    /\ f.whole \/ Of(best.pair) \cap shared[song] # {}
MintInv ==
    /\ pc \in Minting => best # None /\ Verified(song, best)
    /\ pc \in {"mint", "trim", "trimmed"} => minted[song] = None
    /\ pc = "trimmed" /\ ok => Cut(tmp[song])
    /\ pc = "companion" => Cut(minted[song])
    /\ \A s \in Songs : minted[s] = None => txt[s] = None

IInv == TypeOK /\ WorkersInv /\ KnownInv /\ StillInv /\ BestInv /\ MintInv /\ SongsVerified

-----------------------------------------------------------------------------
(* Types *)

LEMMA Smallest ==
    ASSUME NEW S \in SUBSET Nat, S # {}
    PROVE  \E n \in S : \A k \in S : n <= k
<1>1. PICK n \in S : \A k \in S : ~ (<<k, n>> \in OpToRel(<, Nat))
  BY WFMin, NatLessThanWellFounded
<1>2. ASSUME NEW k \in S PROVE n <= k
  <2>1. n \in Nat /\ k \in Nat
    OBVIOUS
  <2>2. ~ (k < n)
    BY <1>1, <2>1 DEF OpToRel
  <2> QED
    BY <2>1, <2>2
<1> QED
  BY <1>2

\* There is a next pair as long as any is left.
LEMMA NextPairIsLeft ==
    ASSUME left \in SUBSET Pairs, left # {}
    PROVE  NextPair \in left
<1> DEFINE Firsts == {p[1] : p \in left}
<1>1. \A p \in left : p[1] \in Nat /\ p[2] \in Nat /\ p = <<p[1], p[2]>>
  BY JukeboxAssumption DEF Pairs, Takes
<1>2. PICK n \in Firsts : \A k \in Firsts : n <= k
  <2> Firsts \in SUBSET Nat /\ Firsts # {}
    BY <1>1
  <2> HIDE DEF Firsts
  <2> QED
    BY Smallest
<1> DEFINE Seconds == {p[2] : p \in {q \in left : q[1] = n}}
<1>3. Seconds \in SUBSET Nat /\ Seconds # {}
  BY <1>1, <1>2
<1>4. PICK k \in Seconds : \A l \in Seconds : k <= l
  <2> HIDE DEF Seconds
  <2> QED
    BY <1>3, Smallest
<1>5. PICK p \in left : p[1] = n /\ p[2] = k
  BY <1>4
<1>6. \A q \in left : Before(p, q)
  BY <1>1, <1>2, <1>4, <1>5 DEF Before
<1> QED
  BY <1>5, <1>6 DEF NextPair

LEMMA TypeInit == Init => TypeOK
<1> SUFFICES ASSUME Init PROVE TypeOK
  OBVIOUS
<1>1. Unheard \in 0 .. Unheard
  BY JukeboxAssumption DEF Unheard
<1>2. mishaps \in 0 .. MaxMishaps /\ 0 \in 0 .. MaxWorkers
  BY JukeboxAssumption DEF Init
<1>3. /\ raw \in [Songs -> [Takes -> {"none", "small", "growing", "whole"}]]
      /\ named \in [Songs -> [Takes -> 0 .. MaxWorkers]] /\ writing = named
      /\ conf \in [Songs -> [Pairs -> 0 .. Unheard]] /\ shared \in [Songs -> SUBSET Takes]
      /\ groups \in [Songs -> SUBSET Takes]
  BY <1>1, <1>2 DEF Init
<1>4. \A s \in Songs, i \in Takes : Workers(s, i) <= MaxWorkers
  BY JukeboxAssumption DEF Init, Workers
<1>5. /\ tmp \in [Songs -> Files \cup {None}] /\ minted = tmp
      /\ txt \in [Songs -> Pairs \cup {None, Torn}]
  BY DEF Init
<1> QED
  BY <1>2, <1>3, <1>4, <1>5 DEF Init, TypeOK

LEMMA MishapType ==
    ASSUME TypeOK, Mishap PROVE mishaps' \in 0 .. MaxMishaps
BY JukeboxAssumption DEF TypeOK, Mishap

LEMMA FileType ==
    ASSUME TypeOK, best # None, NEW b \in BOOLEAN
    PROVE  File(b) \in Files
BY DEF TypeOK, File, Files, Aligned

\* A function of two arguments, changed at one place.
LEMMA Place ==
    ASSUME NEW S, NEW T, NEW V, NEW f \in [S -> [T -> V]], NEW x \in S, NEW y \in T, NEW v \in V
    PROVE  /\ [f EXCEPT ![x][y] = v] \in [S -> [T -> V]]
           /\ \A s \in S, t \in T :
                [f EXCEPT ![x][y] = v][s][t] = IF s = x /\ t = y THEN v ELSE f[s][t]
<1>1. [f EXCEPT ![x][y] = v] = [f EXCEPT ![x] = [f[x] EXCEPT ![y] = v]]
  OBVIOUS
<1>2. f[x] \in [T -> V] /\ [f[x] EXCEPT ![y] = v] \in [T -> V]
  OBVIOUS
<1> DEFINE g == [f[x] EXCEPT ![y] = v]
<1>3. \A t \in T : g[t] = IF t = y THEN v ELSE f[x][t]
  BY <1>2
<1>4. g \in [T -> V]
  BY <1>2
<1> HIDE DEF g
<1>5. [f EXCEPT ![x] = g] \in [S -> [T -> V]] /\ \A s \in S : [f EXCEPT ![x] = g][s] = IF s = x THEN g ELSE f[s]
  BY <1>4
<1> QED
  BY <1>1, <1>3, <1>5 DEF g

FileStates == {"none", "small", "growing", "whole"}

\* What writing a take changes.
LEMMA WrittenIs ==
    ASSUME TypeOK, NEW s \in Songs, NEW i \in Takes, NEW file \in FileStates,
           Written(s, i, file)
    PROVE  /\ raw' \in [Songs -> [Takes -> FileStates]]
           /\ conf' \in [Songs -> [Pairs -> 0 .. Unheard]] /\ still' \in BOOLEAN
           /\ \A t \in Songs, k \in Takes :
                raw'[t][k] = IF t = s /\ k = i THEN file ELSE raw[t][k]
           /\ \A t \in Songs, q \in Pairs :
                conf'[t][q] = IF t = s /\ i \in Of(q) /\ raw[s][i] = "whole"
                              THEN Unheard ELSE conf[t][q]
           /\ still' <=> still /\ ~ (raw[s][i] = "whole" /\ s = song /\ Reading(i, file))
<1>1. /\ raw' \in [Songs -> [Takes -> FileStates]]
      /\ \A t \in Songs, k \in Takes :
            raw'[t][k] = IF t = s /\ k = i THEN file ELSE raw[t][k]
  <2>1. raw \in [Songs -> [Takes -> FileStates]] /\ raw' = [raw EXCEPT ![s][i] = file]
    BY DEF TypeOK, Written, FileStates
  <2> QED
    BY <2>1, Place
<1> DEFINE h == [p \in Pairs |-> IF i \in {p[1], p[2]} THEN Unheard ELSE conf[s][p]]
<1>2. h \in [Pairs -> 0 .. Unheard]
  BY JukeboxAssumption DEF TypeOK, Unheard
<1>3. CASE raw[s][i] = "whole"
  <2>1. /\ conf' = [conf EXCEPT ![s] = h]
        /\ still' = (still /\ ~ (s = song /\ Reading(i, file)))
    BY <1>3 DEF Written
  <2>2. \A q \in Pairs : h[q] = IF i \in Of(q) THEN Unheard ELSE conf[s][q]
    BY DEF Of
  <2> HIDE DEF h
  <2>3. /\ conf' \in [Songs -> [Pairs -> 0 .. Unheard]]
        /\ \A t \in Songs : conf'[t] = IF t = s THEN h ELSE conf[t]
    BY <1>2, <2>1 DEF TypeOK
  <2>4. still' \in BOOLEAN /\ (still' <=> still /\ ~ (raw[s][i] = "whole" /\ s = song /\ Reading(i, file)))
    BY <1>3, <2>1 DEF TypeOK
  <2> QED
    BY <1>1, <1>3, <2>2, <2>3, <2>4
<1>4. CASE raw[s][i] # "whole"
  BY <1>1, <1>4 DEF Written, TypeOK
<1> QED
  BY <1>3, <1>4

Counts == [Songs -> [Takes -> 0 .. MaxWorkers]]

\* The workers that have a name, after each step of theirs.
LEMMA NamedIs ==
    ASSUME TypeOK, NEW s \in Songs, TakeNamed(s)
    PROVE  \E i \in Takes :
             /\ i \notin shared'[s] => raw[s][i] = "none"
             /\ named' \in Counts /\ shared' \in [Songs -> SUBSET Takes]
             /\ \A t \in Songs, k \in Takes :
                  /\ (t = s /\ k = i) \/ named'[t][k] = named[t][k]
                  /\ Workers(t, k)' <= MaxWorkers
             /\ \A t \in Songs : shared[t] \subseteq shared'[t]
             /\ i \notin shared'[s] => Workers(s, i)' = 1
<1>1. PICK i \in Takes :
         /\ named' = [named EXCEPT ![s][i] = named[s][i] + 1]
         /\ Workers(s, i) < MaxWorkers
         /\ shared' = [shared EXCEPT ![s] = IF Workers(s, i) = 0 /\ raw[s][i] = "none"
                                            THEN shared[s] ELSE shared[s] \cup {i}]
  BY DEF TakeNamed
<1>2. /\ named \in Counts /\ writing \in Counts /\ writing' = writing
      /\ \A t \in Songs, k \in Takes : Workers(t, k) <= MaxWorkers
      /\ shared \in [Songs -> SUBSET Takes]
  BY DEF TypeOK, Counts, TakeNamed
<1>3. named[s][i] \in Nat /\ writing[s][i] \in Nat /\ named[s][i] + 1 \in 0 .. MaxWorkers
  BY <1>1, <1>2, JukeboxAssumption DEF Workers, Counts
<1>4. /\ named' \in Counts
      /\ \A t \in Songs, k \in Takes :
            named'[t][k] = IF t = s /\ k = i THEN named[s][i] + 1 ELSE named[t][k]
  <2>1. i \in Takes /\ named' = [named EXCEPT ![s][i] = named[s][i] + 1]
    BY <1>1
  <2>2. named \in Counts
    BY <1>2
  <2> QED
    BY <1>3, <2>1, <2>2, Place DEF Counts
<1>5. \A t \in Songs, k \in Takes : Workers(t, k)' <= MaxWorkers
  BY <1>1, <1>2, <1>3, <1>4, JukeboxAssumption DEF Workers
<1>6. shared' \in [Songs -> SUBSET Takes] /\ \A t \in Songs : shared[t] \subseteq shared'[t]
  BY <1>1, <1>2
<1>7. i \notin shared'[s] => Workers(s, i)' = 1
  <2>1. i \notin shared'[s] => Workers(s, i) = 0
    BY <1>1, <1>2
  <2> QED
    BY <1>2, <1>3, <1>4, <2>1 DEF Workers
<1> QED
  BY <1>1, <1>2, <1>4, <1>5, <1>6, <1>7

LEMMA BeginsIs ==
    ASSUME TypeOK, NEW s \in Songs, NEW i \in Takes, TakeBegins(s, i)
    PROVE  /\ named' \in Counts /\ writing' \in Counts
           /\ \A t \in Songs, k \in Takes : Workers(t, k)' <= Workers(t, k)
           /\ Workers(s, i) > 0
<1>1. named \in Counts /\ writing \in Counts /\ named[s][i] \in Nat /\ writing[s][i] \in Nat
  BY JukeboxAssumption DEF TypeOK, Counts
<1>2. named[s][i] > 0 /\ named' = [named EXCEPT ![s][i] = named[s][i] - 1]
  BY DEF TakeBegins
<1>3. named[s][i] - 1 \in 0 .. MaxWorkers
  BY <1>1, <1>2, JukeboxAssumption DEF Counts
<1>4. writing[s][i] + 1 \in 0 .. MaxWorkers
  BY <1>1, <1>2, JukeboxAssumption DEF Counts, Workers, TypeOK
<1>5. /\ named' \in Counts
      /\ \A t \in Songs, k \in Takes :
            named'[t][k] = IF t = s /\ k = i THEN named[s][i] - 1 ELSE named[t][k]
  BY <1>1, <1>2, <1>3, Place DEF Counts
<1>6. /\ writing' \in Counts
      /\ \A t \in Songs, k \in Takes :
            writing'[t][k] <= IF t = s /\ k = i THEN writing[s][i] + 1 ELSE writing[t][k]
  <2>0. \A t \in Songs, k \in Takes : writing[t][k] \in Nat
    BY <1>1, JukeboxAssumption DEF Counts
  <2>1. CASE writing' = writing
    BY <1>1, <2>0, <2>1
  <2>2. CASE writing' = [writing EXCEPT ![s][i] = writing[s][i] + 1]
    <3>1. /\ writing' \in Counts
          /\ \A t \in Songs, k \in Takes :
                writing'[t][k] = IF t = s /\ k = i THEN writing[s][i] + 1 ELSE writing[t][k]
      BY <1>1, <1>4, <2>2, Place DEF Counts
    <3> QED
      BY <1>1, <2>0, <3>1
  <2> QED
    BY <2>1, <2>2 DEF TakeBegins
<1>7. ASSUME NEW t \in Songs, NEW k \in Takes PROVE Workers(t, k)' <= Workers(t, k)
  <2>1. /\ named[t][k] \in Nat /\ writing[t][k] \in Nat
        /\ named'[t][k] \in Nat /\ writing'[t][k] \in Nat
    BY <1>1, <1>5, <1>6, JukeboxAssumption DEF Counts
  <2> QED
    BY <1>5, <1>6, <2>1 DEF Workers
<1> QED
  BY <1>1, <1>2, <1>5, <1>6, <1>7 DEF Workers

LEMMA EndsIs ==
    ASSUME TypeOK, NEW s \in Songs, NEW i \in Takes, TakeEnds(s, i)
    PROVE  /\ named' \in Counts /\ writing' \in Counts
           /\ \A t \in Songs, k \in Takes : Workers(t, k)' <= Workers(t, k)
           /\ Workers(s, i)' = Workers(s, i) - 1 /\ Workers(s, i) \in Nat /\ Workers(s, i) > 0
<1>1. /\ named \in Counts /\ writing \in Counts /\ named' = named
      /\ \A t \in Songs, k \in Takes : named[t][k] \in Nat /\ writing[t][k] \in Nat
  BY JukeboxAssumption DEF TypeOK, Counts, TakeEnds
<1>2. writing[s][i] > 0 /\ writing' = [writing EXCEPT ![s][i] = writing[s][i] - 1]
  BY DEF TakeEnds
<1>3. writing[s][i] - 1 \in 0 .. MaxWorkers
  BY <1>1, <1>2, JukeboxAssumption DEF Counts
<1>4. /\ writing' \in Counts
      /\ \A t \in Songs, k \in Takes :
            writing'[t][k] = IF t = s /\ k = i THEN writing[s][i] - 1 ELSE writing[t][k]
  BY <1>1, <1>2, <1>3, Place DEF Counts
<1> QED
  BY <1>1, <1>2, <1>4 DEF Workers

LEMMA Fewer ==
    ASSUME TypeOK, named' \in Counts, writing' \in Counts,
           \A t \in Songs, k \in Takes : Workers(t, k)' <= Workers(t, k)
    PROVE  \A t \in Songs, k \in Takes : Workers(t, k)' <= MaxWorkers
<1> SUFFICES ASSUME NEW t \in Songs, NEW k \in Takes PROVE Workers(t, k)' <= MaxWorkers
  OBVIOUS
<1>1. Workers(t, k) \in Nat /\ Workers(t, k) <= MaxWorkers /\ Workers(t, k)' \in Nat
  BY JukeboxAssumption DEF TypeOK, Workers, Counts
<1>2. Workers(t, k)' <= Workers(t, k)
  OBVIOUS
<1> QED
  BY <1>1, <1>2, JukeboxAssumption

LEMMA TypeStep == TypeOK /\ [Next]_vars => TypeOK'
<1> SUFFICES ASSUME TypeOK, [Next]_vars PROVE TypeOK'
  OBVIOUS
<1> USE DEF TypeOK, disk, builder, takes, workers
<1>0. ASSUME Mishap \/ UNCHANGED mishaps PROVE mishaps' \in 0 .. MaxMishaps
  BY <1>0, MishapType
<1>1. ASSUME NEW s \in Songs, TakeNamed(s) PROVE TypeOK'
  <2>1. /\ named' \in Counts /\ shared' \in [Songs -> SUBSET Takes]
        /\ \A t \in Songs, k \in Takes : Workers(t, k)' <= MaxWorkers
    BY <1>1, NamedIs
  <2>2. mishaps' \in 0 .. MaxMishaps
    <3>1. Mishap \/ UNCHANGED mishaps
      BY <1>1 DEF TakeNamed
    <3> QED
      BY <3>1, <1>0
  <2> QED
    BY <1>1, <2>1, <2>2 DEF TakeNamed, Counts
<1>2. ASSUME NEW s \in Songs, NEW i \in Takes, TakeBegins(s, i) PROVE TypeOK'
  <2>1. PICK file \in {"small", "none"} : Written(s, i, file)
    BY <1>2 DEF TakeBegins
  <2>2. /\ raw' \in [Songs -> [Takes -> FileStates]]
        /\ conf' \in [Songs -> [Pairs -> 0 .. Unheard]] /\ still' \in BOOLEAN
    BY <2>1, WrittenIs DEF FileStates
  <2>3. /\ named' \in Counts /\ writing' \in Counts
        /\ \A t \in Songs, k \in Takes : Workers(t, k)' <= Workers(t, k)
    BY <1>2, BeginsIs
  <2>4. \A t \in Songs, k \in Takes : Workers(t, k)' <= MaxWorkers
    BY <2>3, Fewer
  <2>8. mishaps' \in 0 .. MaxMishaps
    BY <1>0, <1>2 DEF TakeBegins
  <2> QED
    BY <1>2, <2>2, <2>3, <2>4, <2>8 DEF TakeBegins, FileStates, Counts
<1>3. ASSUME NEW s \in Songs, NEW i \in Takes, TakeWritten(s, i) PROVE TypeOK'
  <2>1. /\ raw' \in [Songs -> [Takes -> FileStates]]
        /\ conf' \in [Songs -> [Pairs -> 0 .. Unheard]] /\ still' \in BOOLEAN
    BY <1>3, WrittenIs DEF TakeWritten, FileStates
  <2>2. \A t \in Songs, k \in Takes : Workers(t, k)' <= MaxWorkers
    BY <1>3 DEF TakeWritten, Workers
  <2> QED
    BY <1>3, <2>1, <2>2 DEF TakeWritten, FileStates
<1>4. ASSUME NEW s \in Songs, NEW i \in Takes, TakeEnds(s, i) PROVE TypeOK'
  <2>1. /\ raw' \in [Songs -> [Takes -> FileStates]]
        /\ conf' \in [Songs -> [Pairs -> 0 .. Unheard]] /\ still' \in BOOLEAN
    <3>1. CASE UNCHANGED <<raw, conf, still>>
      BY <3>1 DEF FileStates
    <3>2. CASE Written(s, i, "whole") \/ Written(s, i, "none")
      BY <3>2, WrittenIs DEF FileStates
    <3> QED
      BY <1>4, <3>1, <3>2 DEF TakeEnds
  <2>2. /\ named' \in Counts /\ writing' \in Counts
        /\ \A t \in Songs, k \in Takes : Workers(t, k)' <= Workers(t, k)
    BY <1>4, EndsIs
  <2>3. \A t \in Songs, k \in Takes : Workers(t, k)' <= MaxWorkers
    BY <2>2, Fewer
  <2>6. mishaps' \in 0 .. MaxMishaps
    BY <1>0, <1>4 DEF TakeEnds
  <2> QED
    BY <1>4, <2>1, <2>2, <2>3, <2>6 DEF TakeEnds, FileStates, Counts
<1>5. UNCHANGED workers => \A s \in Songs, i \in Takes : Workers(s, i)' <= MaxWorkers
  BY DEF Workers
<1>6. ASSUME NEW m \in {"watch", "apply", "inspect"}, Start(m) PROVE TypeOK'
  <2>1. mishaps' \in 0 .. MaxMishaps
    BY <1>0, <1>6 DEF Start
  <2> QED
    BY <1>5, <1>6, <2>1 DEF Start
<1>7. CASE Scan
  BY <1>5, <1>7 DEF Scan
<1>8. CASE Finished
  BY <1>5, <1>8 DEF Finished
<1>9. ASSUME NEW s \in Songs, Analyze(s) PROVE TypeOK'
  BY <1>5, <1>9 DEF Analyze
<1>10. CASE Listen
  BY <1>5, <1>10 DEF Listen
<1>11. CASE Correlate
  <2>1. NextPair \in Pairs
    BY <1>11, NextPairIsLeft DEF Correlate
  <2>2. PICK c \in 0 .. MaxConfidence :
           /\ Alignment(NextPair, c)
           /\ best' = IF Better(c) THEN [pair |-> NextPair, conf |-> c] ELSE best
           /\ left' = IF Better(c) /\ c >= Excellent THEN {} ELSE left \ {NextPair}
    BY <1>11 DEF Correlate
  <2>3. conf' \in [Songs -> [Pairs -> 0 .. Unheard]]
    <3>1. conf' = conf \/ conf' = [conf EXCEPT ![song] = [conf[song] EXCEPT ![NextPair] = c]]
      BY <2>2 DEF Alignment
    <3>2. c \in 0 .. Unheard
      BY JukeboxAssumption DEF Unheard
    <3>3. [conf[song] EXCEPT ![NextPair] = c] \in [Pairs -> 0 .. Unheard]
      BY <2>1, <3>2
    <3> QED
      BY <3>1, <3>3
  <2>4. best' \in Aligned \cup {None} /\ left' \in SUBSET Pairs
    BY <2>1, <2>2, JukeboxAssumption DEF Aligned, Good, Better
  <2>5. pc' = "correlate" /\ still' = TRUE
    BY <1>11 DEF Correlate
  <2> QED
    BY <1>5, <1>11, <2>3, <2>4, <2>5 DEF Correlate
<1>12. CASE Decide
  BY <1>5, <1>12 DEF Decide
<1>13. CASE TrimBegins
  <2>1. File(FALSE) \in Files
    BY <1>13, FileType DEF TrimBegins
  <2>2. tmp' \in [Songs -> Files \cup {None}]
    BY <1>13, <2>1 DEF TrimBegins
  <2>3. pc' \in {"trim", "trimmed"} /\ best # None
    BY <1>13 DEF TrimBegins
  <2>4. mishaps' \in 0 .. MaxMishaps
    BY <1>0, <1>13, Zenon DEF TrimBegins
  <2>5. ok' \in BOOLEAN
    BY <1>13, Zenon DEF TrimBegins
  <2> QED
    BY <1>5, <1>13, <2>2, <2>3, <2>4, <2>5 DEF TrimBegins
<1>14. CASE TrimEnds
  <2>1. \A whole \in BOOLEAN : File(whole) \in Files
    BY <1>14, FileType DEF TrimEnds
  <2>2. tmp' \in [Songs -> Files \cup {None}]
    <3>1. tmp' = tmp \/ \E whole \in BOOLEAN : tmp' = [tmp EXCEPT ![song] = File(whole)]
      BY <1>14 DEF TrimEnds
    <3> QED
      BY <2>1, <3>1
  <2>3. pc' = "trimmed" /\ best # None /\ still' = TRUE
    BY <1>14 DEF TrimEnds
  <2>4. mishaps' \in 0 .. MaxMishaps
    BY <1>0, <1>14, Zenon DEF TrimEnds
  <2>5. ok' \in BOOLEAN
    BY <1>14, Zenon DEF TrimEnds
  <2> QED
    BY <1>5, <1>14, <2>2, <2>3, <2>4, <2>5 DEF TrimEnds
<1>15. CASE Publish
  BY <1>5, <1>15 DEF Publish
<1>16. CASE Companion
  <2>1. best.pair \in Pairs
    BY <1>16 DEF Companion, Aligned
  <2> QED
    BY <1>5, <1>16, <2>1 DEF Companion
<1>17. CASE Killed
  <2>1. pc = "trim" => File(TRUE) \in Files
    BY FileType
  <2>2. tmp' \in [Songs -> Files \cup {None}]
    BY <1>17, <2>1 DEF Killed
  <2>3. txt' \in [Songs -> Pairs \cup {None, Torn}]
    BY <1>17 DEF Killed
  <2>4. /\ mode' = "none" /\ pc' = "idle" /\ left' = {} /\ todo' = {} /\ best' = None
        /\ ok' = FALSE /\ still' = TRUE /\ groups' \in [Songs -> SUBSET Takes]
    BY <1>17 DEF Killed
  <2>5. mishaps' \in 0 .. MaxMishaps
    BY <1>0, <1>17 DEF Killed
  <2> QED
    BY <1>5, <1>17, <2>2, <2>3, <2>4, <2>5 DEF Killed
<1>18. CASE UNCHANGED vars
  BY <1>5, <1>18 DEF vars
<1> QED
  BY <1>1, <1>2, <1>3, <1>4, <1>6, <1>7, <1>8, <1>9, <1>10, <1>11, <1>12,
     <1>13, <1>14, <1>15, <1>16, <1>17, <1>18 DEF Next, ProcessLibrary

\* The variables keep their types, and the builder always has a pair to cut by
\* when it mints (analyze_song, process_library).
THEOREM JukeboxTypes == Spec => []TypeOK
<1> QED
  BY TypeInit, TypeStep, PTL DEF Spec

-----------------------------------------------------------------------------
(* What the recorder may change *)

RecorderStep ==
    \E s \in Songs :
        \/ TakeNamed(s)
        \/ \E i \in Takes : TakeBegins(s, i) \/ TakeWritten(s, i) \/ TakeEnds(s, i)
BuilderStep == ProcessLibrary \/ Killed \/ \E m \in {"watch", "apply", "inspect"} : Start(m)

\* The builder leaves the takes alone.
LEMMA BuilderIs ==
    ASSUME BuilderStep \/ UNCHANGED vars
    PROVE  UNCHANGED <<raw, named, writing, shared>> /\ (conf' = conf \/ Correlate)
BY DEF BuilderStep, ProcessLibrary, vars, takes, workers, Start, Scan, Finished, Analyze, Listen,
       Correlate, Decide, TrimBegins, TrimEnds, Publish, Companion, Killed

LEMMA StepIs == [Next]_vars => RecorderStep \/ BuilderStep \/ UNCHANGED vars
BY DEF Next, RecorderStep, BuilderStep

LEMMA WorkersStep == TypeOK /\ WorkersInv /\ [Next]_vars => WorkersInv'
<1> SUFFICES ASSUME TypeOK, WorkersInv, [Next]_vars PROVE WorkersInv'
  OBVIOUS
<1>0. \A t \in Songs, k \in Takes : k \notin shared[t] =>
         Workers(t, k) \in Nat /\ Workers(t, k) <= 1 /\ (raw[t][k] = "whole" => Workers(t, k) = 0)
  BY JukeboxAssumption DEF WorkersInv, TypeOK, Workers
<1>1. CASE UNCHANGED <<raw, named, writing, shared>>
  BY <1>1 DEF WorkersInv, Workers
<1>2. ASSUME NEW s \in Songs, TakeNamed(s) PROVE WorkersInv'
  <2>1. PICK i \in Takes :
           /\ i \notin shared'[s] => raw[s][i] = "none"
           /\ \A t \in Songs, k \in Takes : (t = s /\ k = i) \/ named'[t][k] = named[t][k]
           /\ \A t \in Songs : shared[t] \subseteq shared'[t]
           /\ i \notin shared'[s] => Workers(s, i)' = 1
    BY <1>2, NamedIs
  <2>2. raw' = raw /\ writing' = writing
    BY <1>2 DEF TakeNamed
  <2>3. ASSUME NEW t \in Songs, NEW k \in Takes \ shared'[t]
        PROVE  Workers(t, k)' <= 1 /\ (raw'[t][k] = "whole" => Workers(t, k)' = 0)
    <3>1. CASE t = s /\ k = i
      BY <2>1, <2>2, <3>1
    <3>2. CASE ~ (t = s /\ k = i)
      BY <1>0, <2>1, <2>2, <3>2 DEF Workers
    <3> QED
      BY <3>1, <3>2
  <2> QED
    BY <2>3 DEF WorkersInv
<1>3. ASSUME NEW s \in Songs, NEW i \in Takes, TakeBegins(s, i) PROVE WorkersInv'
  <2>1. PICK file \in {"small", "none"} : Written(s, i, file)
    BY <1>3 DEF TakeBegins
  <2>2. \A t \in Songs, k \in Takes : raw'[t][k] = IF t = s /\ k = i THEN file ELSE raw[t][k]
    BY <2>1, WrittenIs DEF FileStates
  <2>3. named' \in Counts /\ writing' \in Counts /\ shared' = shared
        /\ \A t \in Songs, k \in Takes : Workers(t, k)' <= Workers(t, k)
    BY <1>3, BeginsIs DEF TakeBegins
  <2>4. \A t \in Songs, k \in Takes : Workers(t, k)' \in Nat
    BY <2>3, JukeboxAssumption DEF Counts, Workers
  <2>5. ASSUME NEW t \in Songs, NEW k \in Takes \ shared'[t]
        PROVE  Workers(t, k)' <= 1 /\ (raw'[t][k] = "whole" => Workers(t, k)' = 0)
    <3>1. /\ Workers(t, k)' \in Nat /\ Workers(t, k)' <= Workers(t, k) /\ Workers(t, k) \in Nat
          /\ Workers(t, k) <= 1 /\ (raw[t][k] = "whole" => Workers(t, k) = 0)
      BY <1>0, <2>3, <2>4
    <3>2. raw'[t][k] = "whole" => raw[t][k] = "whole"
      BY <2>2
    <3> QED
      BY <3>1, <3>2
  <2> QED
    BY <2>5 DEF WorkersInv
<1>4. ASSUME NEW s \in Songs, NEW i \in Takes, TakeWritten(s, i) PROVE WorkersInv'
  <2>1. \A t \in Songs, k \in Takes : raw'[t][k] = IF t = s /\ k = i THEN "growing" ELSE raw[t][k]
    BY <1>4, WrittenIs DEF TakeWritten, FileStates
  <2>2. UNCHANGED workers
    BY <1>4 DEF TakeWritten
  <2> QED
    BY <2>1, <2>2 DEF WorkersInv, Workers, workers
<1>5. ASSUME NEW s \in Songs, NEW i \in Takes, TakeEnds(s, i) PROVE WorkersInv'
  <2>1. \A t \in Songs, k \in Takes : (t = s /\ k = i) \/ raw'[t][k] = raw[t][k]
    <3>1. CASE UNCHANGED raw
      BY <3>1
    <3>2. CASE Written(s, i, "whole") \/ Written(s, i, "none")
      BY <3>2, WrittenIs DEF FileStates
    <3> QED
      BY <1>5, <3>1, <3>2 DEF TakeEnds
  <2>2. named' \in Counts /\ writing' \in Counts /\ shared' = shared
        /\ Workers(s, i)' = Workers(s, i) - 1
        /\ \A t \in Songs, k \in Takes : Workers(t, k)' <= Workers(t, k)
    BY <1>5, EndsIs DEF TakeEnds
  <2>3. \A t \in Songs, k \in Takes : Workers(t, k)' \in Nat
    BY <2>2, JukeboxAssumption DEF Counts, Workers
  <2>4. ASSUME NEW t \in Songs, NEW k \in Takes \ shared'[t]
        PROVE  Workers(t, k)' <= 1 /\ (raw'[t][k] = "whole" => Workers(t, k)' = 0)
    <3>1. /\ Workers(t, k)' \in Nat /\ Workers(t, k)' <= Workers(t, k) /\ Workers(t, k) \in Nat
          /\ Workers(t, k) <= 1 /\ (raw[t][k] = "whole" => Workers(t, k) = 0)
      BY <1>0, <2>2, <2>3
    <3>2. CASE t = s /\ k = i
      BY <2>2, <3>1, <3>2
    <3>3. CASE raw'[t][k] = raw[t][k]
      BY <3>1, <3>3
    <3> QED
      BY <2>1, <3>2, <3>3
  <2> QED
    BY <2>4 DEF WorkersInv
<1>6. BuilderStep \/ UNCHANGED vars => UNCHANGED <<raw, named, writing, shared>>
  BY BuilderIs
<1> QED
  BY <1>1, <1>2, <1>3, <1>4, <1>5, <1>6, StepIs DEF RecorderStep

\* What the recorder does to the takes: what is known of a pair is kept or
\* forgotten, and only a name that two workers have loses a take.
LEMMA RecorderIs ==
    ASSUME TypeOK, WorkersInv, KnownInv, RecorderStep
    PROVE  /\ UNCHANGED <<disk, mode, pc, groups, todo, song, left, best, ok>>
           /\ \A t \in Songs : shared[t] \subseteq shared'[t]
           /\ \A t \in Songs, q \in Pairs :
                /\ conf'[t][q] = conf[t][q] \/ conf'[t][q] = Unheard
                /\ conf'[t][q] # Unheard => Of(q) \subseteq Whole(t)'
                /\ Of(q) \cap shared'[t] = {} =>
                     conf'[t][q] = conf[t][q] /\ (Of(q) \subseteq Whole(t) => Of(q) \subseteq Whole(t)')
           /\ still' => still /\ (pc = "align" /\ NextPair[1] \in Whole(song) => NextPair[1] \in Whole(song)')
           /\ still /\ ~still' =>
                \/ /\ pc = "align" /\ Of(NextPair) \cap shared[song] # {}
                   /\ conf'[song][NextPair] = Unheard
                \/ pc = "trim" /\ best.pair[1] \in shared[song]
<1>1. CASE \E s \in Songs : TakeNamed(s)
  <2>1. PICK s \in Songs : TakeNamed(s)
    BY <1>1
  <2>2. UNCHANGED <<raw, conf, disk, mode, builder>>
    BY <2>1 DEF TakeNamed
  <2>3. \A t \in Songs : shared[t] \subseteq shared'[t]
    BY <2>1, NamedIs
  <2> QED
    BY <2>2, <2>3 DEF builder, KnownInv, Whole
<1>2. ASSUME NEW s \in Songs, NEW i \in Takes, Workers(s, i) > 0, shared' = shared,
             UNCHANGED <<disk, mode, pc, groups, todo, song, left, best, ok>>,
             NEW file \in FileStates, Written(s, i, file)
      PROVE  /\ \A t \in Songs, q \in Pairs :
                  /\ conf'[t][q] = conf[t][q] \/ conf'[t][q] = Unheard
                  /\ conf'[t][q] # Unheard => Of(q) \subseteq Whole(t)'
                  /\ Of(q) \cap shared'[t] = {} =>
                       conf'[t][q] = conf[t][q] /\ (Of(q) \subseteq Whole(t) => Of(q) \subseteq Whole(t)')
             /\ still' => still /\ (pc = "align" /\ NextPair[1] \in Whole(song) => NextPair[1] \in Whole(song)')
             /\ still /\ ~still' =>
                  \/ /\ pc = "align" /\ Of(NextPair) \cap shared[song] # {}
                     /\ conf'[song][NextPair] = Unheard
                  \/ pc = "trim" /\ best.pair[1] \in shared[song]
  <2>1. /\ \A t \in Songs, k \in Takes : raw'[t][k] = IF t = s /\ k = i THEN file ELSE raw[t][k]
        /\ \A t \in Songs, q \in Pairs :
              conf'[t][q] = IF t = s /\ i \in Of(q) /\ raw[s][i] = "whole" THEN Unheard ELSE conf[t][q]
        /\ still' <=> still /\ ~ (raw[s][i] = "whole" /\ s = song /\ Reading(i, file))
    BY <1>2, WrittenIs
  <2>2. raw[s][i] = "whole" => i \in shared[s]
    BY <1>2 DEF WorkersInv
  <2>3. \A t \in Songs, k \in Takes : (t = s /\ k = i) \/ raw'[t][k] = raw[t][k]
    BY <2>1
  <2>4. ASSUME NEW t \in Songs, NEW q \in Pairs
        PROVE  /\ conf'[t][q] = conf[t][q] \/ conf'[t][q] = Unheard
               /\ conf'[t][q] # Unheard => Of(q) \subseteq Whole(t)'
               /\ Of(q) \cap shared'[t] = {} =>
                    conf'[t][q] = conf[t][q] /\ (Of(q) \subseteq Whole(t) => Of(q) \subseteq Whole(t)')
    <3>1. conf'[t][q] = IF t = s /\ i \in Of(q) /\ raw[s][i] = "whole" THEN Unheard ELSE conf[t][q]
      BY <2>1
    <3>2. conf[t][q] # Unheard => Of(q) \subseteq Whole(t)
      BY DEF KnownInv
    <3>3. ASSUME Of(q) \subseteq Whole(t), ~ (t = s /\ i \in Of(q) /\ raw[s][i] = "whole")
          PROVE  Of(q) \subseteq Whole(t)'
      BY <2>3, <3>3 DEF Whole
    <3>4. Of(q) \cap shared'[t] = {} => ~ (t = s /\ i \in Of(q) /\ raw[s][i] = "whole")
      BY <1>2, <2>2
    <3> QED
      BY <3>1, <3>2, <3>3, <3>4
  <2>5. ASSUME still', pc = "align", NextPair[1] \in Whole(song) PROVE NextPair[1] \in Whole(song)'
    <3>1. ~ (s = song /\ i = NextPair[1] /\ raw[s][i] = "whole")
      BY <2>1, <2>5 DEF Reading
    <3>2. NextPair[1] \in Takes /\ raw[song][NextPair[1]] = "whole" /\ song' = song /\ song \in Songs
      BY <1>2, <2>5 DEF Whole, TypeOK
    <3>3. raw'[song][NextPair[1]] = "whole"
      BY <2>3, <3>1, <3>2
    <3> QED
      BY <3>2, <3>3 DEF Whole
  <2>6. ASSUME still, ~still'
        PROVE  \/ /\ pc = "align" /\ Of(NextPair) \cap shared[song] # {}
                  /\ conf'[song][NextPair] = Unheard
               \/ pc = "trim" /\ best.pair[1] \in shared[song]
    <3>1. raw[s][i] = "whole" /\ s = song /\ Reading(i, file)
      BY <2>1, <2>6
    <3>2. CASE pc = "align" /\ i \in Of(NextPair)
      <4>1. NextPair \in Pairs
        BY <3>2, NextPairIsLeft DEF TypeOK
      <4> QED
        BY <2>1, <2>2, <3>1, <3>2, <4>1
    <3>3. CASE pc = "trim" /\ i = best.pair[1]
      BY <2>2, <3>1, <3>3
    <3> QED
      BY <3>1, <3>2, <3>3 DEF Reading, Of
  <2>7. still' => still
    BY <2>1
  <2> QED
    BY <2>4, <2>5, <2>6, <2>7
<1>3. ASSUME NEW s \in Songs, NEW i \in Takes, TakeBegins(s, i)
      PROVE  /\ Workers(s, i) > 0 /\ shared' = shared
             /\ UNCHANGED <<disk, mode, pc, groups, todo, song, left, best, ok>>
             /\ \E file \in FileStates : Written(s, i, file)
  BY <1>3, BeginsIs DEF TakeBegins, FileStates
<1>4. ASSUME NEW s \in Songs, NEW i \in Takes, TakeWritten(s, i)
      PROVE  /\ Workers(s, i) > 0 /\ shared' = shared
             /\ UNCHANGED <<disk, mode, pc, groups, todo, song, left, best, ok>>
             /\ \E file \in FileStates : Written(s, i, file)
  <2>1. Workers(s, i) > 0
    BY <1>4, JukeboxAssumption DEF TakeWritten, Workers, TypeOK
  <2> QED
    BY <1>4, <2>1 DEF TakeWritten, FileStates, workers
<1>5. ASSUME NEW s \in Songs, NEW i \in Takes, TakeEnds(s, i)
      PROVE  /\ Workers(s, i) > 0 /\ shared' = shared
             /\ UNCHANGED <<disk, mode, pc, groups, todo, song, left, best, ok>>
             /\ \/ \E file \in FileStates : Written(s, i, file)
                \/ UNCHANGED <<raw, conf, still>>
  BY <1>5, EndsIs DEF TakeEnds, FileStates
<1>6. UNCHANGED <<raw, conf, still, song, left>> =>
        /\ \A t \in Songs, q \in Pairs :
              /\ conf'[t][q] # Unheard => Of(q) \subseteq Whole(t)'
              /\ Of(q) \subseteq Whole(t) => Of(q) \subseteq Whole(t)'
        /\ NextPair[1] \in Whole(song) => NextPair[1] \in Whole(song)'
  BY DEF KnownInv, Whole
<1> QED
  BY <1>1, <1>2, <1>3, <1>4, <1>5, <1>6, Zenon DEF RecorderStep
-----------------------------------------------------------------------------
(* What is known *)

\* The comparison answers, for complete takes as before if they were compared.
LEMMA Heard ==
    ASSUME IInv, Correlate
    PROVE  \E c \in 0 .. MaxConfidence :
             /\ NextPair \in left /\ NextPair \in Pairs
             /\ best' = IF Better(c) THEN [pair |-> NextPair, conf |-> c] ELSE best
             /\ left' = IF Better(c) /\ c >= Excellent THEN {} ELSE left \ {NextPair}
             /\ \A s \in Songs, q \in Pairs :
                  ~ (s = song /\ q = NextPair) => conf'[s][q] = conf[s][q]
             /\ conf[song][NextPair] # Unheard => conf'[song][NextPair] = conf[song][NextPair]
             /\ \/ /\ still /\ Of(NextPair) \subseteq Whole(song) /\ conf'[song][NextPair] = c
                \/ /\ Of(NextPair) \cap shared[song] # {} /\ conf'[song][NextPair] = Unheard
                \/ c = 0 /\ conf'[song][NextPair] = Unheard
<1>1. NextPair \in left /\ NextPair \in Pairs
  BY NextPairIsLeft DEF Correlate, IInv, TypeOK
<1>2. PICK c \in 0 .. MaxConfidence :
         /\ Alignment(NextPair, c)
         /\ best' = IF Better(c) THEN [pair |-> NextPair, conf |-> c] ELSE best
         /\ left' = IF Better(c) /\ c >= Excellent THEN {} ELSE left \ {NextPair}
  BY DEF Correlate
<1>3. song \in Songs /\ conf \in [Songs -> [Pairs -> 0 .. Unheard]] /\ pc = "align"
  BY DEF IInv, TypeOK, Correlate
<1>4. CASE ~ still
  <2>1. conf' = conf /\ Of(NextPair) \cap shared[song] # {} /\ conf[song][NextPair] = Unheard
    BY <1>2, <1>3, <1>4 DEF Alignment, IInv, StillInv
  <2> QED
    BY <1>1, <1>2, <2>1
<1>5. CASE still /\ NextPair[2] \in Whole(song)
  <2>1. /\ conf[song][NextPair] \in {c, Unheard}
        /\ conf' = [conf EXCEPT ![song][NextPair] = c]
    BY <1>2, <1>5 DEF Alignment
  <2>2. conf'[song][NextPair] = c
    BY <1>1, <1>3, <2>1
  <2>3. \A s \in Songs, q \in Pairs :
           ~ (s = song /\ q = NextPair) => conf'[s][q] = conf[s][q]
    BY <1>1, <1>3, <2>1
  <2>4. Of(NextPair) \subseteq Whole(song)
    BY <1>3, <1>5 DEF Of, IInv, StillInv
  <2> QED
    BY <1>1, <1>2, <1>5, <2>1, <2>2, <2>3, <2>4
<1>6. CASE still /\ NextPair[2] \notin Whole(song)
  <2>1. c = 0 /\ conf' = conf
    BY <1>2, <1>6 DEF Alignment
  <2>2. conf[song][NextPair] = Unheard
    BY <1>1, <1>3, <1>6 DEF IInv, KnownInv, Of
  <2> QED
    BY <1>1, <1>2, <2>1, <2>2
<1> QED
  BY <1>4, <1>5, <1>6

LEMMA KnownStep == IInv /\ [Next]_vars => KnownInv'
<1> SUFFICES ASSUME IInv, [Next]_vars,
                    NEW s \in Songs, NEW q \in Pairs, conf'[s][q] # Unheard
             PROVE  /\ Of(q) \subseteq Whole(s)'
                    /\ pc' # "idle" => Of(q) \subseteq groups'[s]
  BY DEF KnownInv, Whole
<1>0. raw' = raw => Whole(s) = Whole(s)'
  BY DEF Whole
<1>1. CASE RecorderStep
  <2>1. /\ pc' = pc /\ groups' = groups /\ Of(q) \subseteq Whole(s)'
        /\ conf'[s][q] = conf[s][q]
    BY <1>1, RecorderIs DEF IInv
  <2> QED
    BY <2>1 DEF IInv, KnownInv
<1>2. CASE Correlate
  <2>1. raw' = raw /\ groups' = groups /\ pc # "idle"
    BY <1>2 DEF Correlate
  <2>2. CASE s = song /\ q = NextPair
    <3>1. Of(NextPair) \subseteq Whole(song) /\ NextPair \in left
      BY <1>2, <2>2, Heard
    <3> QED
      BY <1>0, <2>1, <2>2, <3>1 DEF IInv, BestInv
  <2>3. CASE ~ (s = song /\ q = NextPair)
    <3>1. conf'[s][q] = conf[s][q]
      BY <1>2, <2>3, Heard
    <3> QED
      BY <1>0, <2>1, <3>1 DEF IInv, KnownInv
  <2> QED
    BY <2>2, <2>3
<1>3. CASE Scan
  <2>1. conf' = conf /\ raw' = raw /\ Whole(s) \subseteq groups'[s]
    BY <1>3 DEF Scan, Whole, takes
  <2> QED
    BY <1>0, <2>1 DEF IInv, KnownInv
<1>4. CASE conf' = conf /\ raw' = raw /\ pc' = "idle"
  BY <1>0, <1>4 DEF IInv, KnownInv
<1>5. CASE conf' = conf /\ raw' = raw /\ groups' = groups /\ (pc = "idle" => pc' = "idle")
  BY <1>0, <1>5 DEF IInv, KnownInv
<1>6. BuilderStep =>
        \/ Correlate \/ Scan
        \/ conf' = conf /\ raw' = raw /\ pc' = "idle"
        \/ conf' = conf /\ raw' = raw /\ groups' = groups /\ (pc = "idle" => pc' = "idle")
  <2>1. Finished \/ Killed => conf' = conf /\ raw' = raw /\ pc' = "idle"
    BY DEF Finished, Killed, takes
  <2>2. (\E t \in Songs : Analyze(t)) => UNCHANGED takes /\ groups' = groups /\ pc # "idle"
    BY DEF Analyze
  <2>3. Listen \/ Decide => UNCHANGED takes /\ groups' = groups /\ pc # "idle"
    BY DEF Listen, Decide
  <2>4. TrimBegins \/ TrimEnds => UNCHANGED takes /\ groups' = groups /\ pc # "idle"
    BY DEF TrimBegins, TrimEnds
  <2>5. Publish \/ Companion => UNCHANGED takes /\ groups' = groups /\ pc # "idle"
    BY DEF Publish, Companion
  <2>6. (\E m \in {"watch", "apply", "inspect"} : Start(m)) =>
           UNCHANGED takes /\ groups' = groups /\ (pc = "idle" => pc' = "idle")
    BY DEF Start, builder
  <2> QED
    BY <2>1, <2>2, <2>3, <2>4, <2>5, <2>6 DEF BuilderStep, ProcessLibrary, takes
<1> QED
  BY <1>1, <1>2, <1>3, <1>4, <1>5, <1>6, StepIs DEF vars, takes, builder

\* Of one step of the builder, nothing else is disturbed.
LEMMA StillStep == IInv /\ [Next]_vars => StillInv'
<1> SUFFICES ASSUME IInv, [Next]_vars PROVE StillInv'
  OBVIOUS
<1>1. CASE RecorderStep
  <2>1. UNCHANGED <<pc, song, left, best>> /\ \A t \in Songs : shared[t] \subseteq shared'[t]
    BY <1>1, RecorderIs DEF IInv
  <2>2. NextPair' = NextPair
    BY <2>1 DEF NextPair, Before
  <2>3. still' => still /\ (pc = "align" /\ NextPair[1] \in Whole(song) => NextPair[1] \in Whole(song)')
    BY <1>1, RecorderIs DEF IInv
  <2>4. still /\ ~still' =>
           \/ /\ pc = "align" /\ Of(NextPair) \cap shared[song] # {}
              /\ conf'[song][NextPair] = Unheard
           \/ pc = "trim" /\ best.pair[1] \in shared[song]
    BY <1>1, RecorderIs DEF IInv
  <2>5. ~still =>
           \/ /\ pc = "align" /\ Of(NextPair) \cap shared[song] # {}
              /\ conf'[song][NextPair] = Unheard
           \/ pc = "trim" /\ best.pair[1] \in shared[song]
    <3>1. pc = "align" => NextPair \in Pairs
      BY NextPairIsLeft DEF IInv, TypeOK
    <3>2. song \in Songs /\ \A q \in Pairs : conf'[song][q] = conf[song][q] \/ conf'[song][q] = Unheard
      BY <1>1, RecorderIs DEF IInv, TypeOK
    <3> QED
      BY <3>1, <3>2 DEF IInv, StillInv
  <2>6. song \in Songs
    BY DEF IInv, TypeOK
  <2>7. pc' = "align" /\ still' => NextPair'[1] \in Whole(song)'
    BY <2>1, <2>2, <2>3 DEF IInv, StillInv
  <2> QED
    BY <2>1, <2>2, <2>4, <2>5, <2>6, <2>7 DEF StillInv, Of
<1>2. CASE UNCHANGED <<raw, shared, conf, still, pc, song, left, best>>
  <2>1. NextPair' = NextPair /\ Whole(song)' = Whole(song)
    BY <1>2 DEF NextPair, Before, Whole
  <2> QED
    BY <1>2, <2>1 DEF IInv, StillInv, Of
<1>3. CASE Listen
  <2>1. still
    BY <1>3 DEF Listen, IInv, StillInv
  <2>2. CASE pc' = "align"
    <3>1. /\ NextPair[1] \in Whole(song) /\ left' = left /\ song' = song /\ raw' = raw
          /\ still' = still
      BY <1>3, <2>2 DEF Listen, takes
    <3>2. NextPair' = NextPair /\ Whole(song)' = Whole(song)
      BY <3>1 DEF NextPair, Before, Whole
    <3> QED
      BY <2>1, <2>2, <3>1, <3>2 DEF StillInv
  <2>3. CASE pc' # "align"
    BY <1>3, <2>1, <2>3 DEF Listen, StillInv
  <2> QED
    BY <2>2, <2>3
<1>4. CASE still' /\ pc' # "align"
  BY <1>4 DEF StillInv
<1>5. BuilderStep \/ UNCHANGED vars =>
        \/ Listen
        \/ still' /\ pc' # "align"
        \/ UNCHANGED <<raw, shared, conf, still, pc, song, left, best>>
  <2>1. pc \notin {"align", "trim"} => still
    BY DEF IInv, StillInv
  <2>2. Scan \/ Finished \/ Correlate \/ Decide => still' /\ pc' # "align"
    BY <2>1 DEF Scan, Finished, Correlate, Decide
  <2>3. (\E s \in Songs : Analyze(s)) => still' /\ pc' # "align"
    <3>1. ASSUME NEW s \in Songs, Analyze(s) PROVE still' = still /\ pc = "songs" /\ pc' \in {"songs", "correlate"}
      BY <3>1 DEF Analyze
    <3> QED
      BY <2>1, <3>1
  <2>4. TrimBegins => still' /\ pc' # "align"
    <3>1. TrimBegins => still' = still /\ pc = "mint" /\ pc' \in {"trim", "trimmed"}
      BY DEF TrimBegins
    <3> QED
      BY <2>1, <3>1
  <2>5. TrimEnds \/ Publish \/ Companion \/ Killed => still' /\ pc' # "align"
    <3>1. TrimEnds \/ Killed => still' /\ pc' # "align"
      BY DEF TrimEnds, Killed
    <3>2. Publish \/ Companion => still' = still /\ pc \in {"trimmed", "companion"} /\ pc' \in {"songs", "companion"}
      BY DEF Publish, Companion
    <3> QED
      BY <2>1, <3>1, <3>2
  <2>6. (\E m \in {"watch", "apply", "inspect"} : Start(m)) \/ UNCHANGED vars =>
           UNCHANGED <<raw, shared, conf, still, pc, song, left, best>>
    <3>1. ASSUME NEW m \in {"watch", "apply", "inspect"}, Start(m)
          PROVE  UNCHANGED <<takes, builder>>
      BY <3>1 DEF Start
    <3> QED
      BY <3>1 DEF vars, takes, workers, builder
  <2> QED
    BY <2>2, <2>3, <2>4, <2>5, <2>6 DEF BuilderStep, ProcessLibrary
<1> QED
  BY <1>1, <1>2, <1>3, <1>4, <1>5, StepIs
-----------------------------------------------------------------------------
(* The best pair *)

\* What BestInv says while pairs are compared.
Agrees(f) ==
    Of(f.pair) \cap shared[song] = {} =>
        Of(f.pair) \subseteq Whole(song) /\ conf[song][f.pair] = f.conf
NoBetter(rest) ==
    \/ best # None /\ best.conf >= Excellent
    \/ \A q \in Pairs \ rest : conf[song][q] # Unheard =>
          \/ conf[song][q] < Threshold
          \/ best # None /\ conf[song][q] <= best.conf

LEMMA BestIs ==
    BestInv <=>
      /\ \A p \in left : Of(p) \subseteq groups[song]
      /\ pc \notin Comparing => left = {}
      /\ pc \in Comparing => minted[song] = None /\ (best # None => Agrees(best)) /\ NoBetter(left)
BY DEF BestInv, Agrees, NoBetter

LEMMA BestStep == IInv /\ [Next]_vars => BestInv'
<1> SUFFICES ASSUME IInv, [Next]_vars PROVE BestInv'
  OBVIOUS
<1> USE DEF Comparing
<1>0. /\ song \in Songs /\ best \in Aligned \cup {None}
      /\ best # None => best.pair \in Pairs /\ best.conf \in Good
      /\ pc # "correlate" /\ pc # "align" => left = {}
  BY DEF IInv, TypeOK, BestInv, Aligned
<1>1. CASE RecorderStep
  <2>1. UNCHANGED <<pc, song, left, best, groups, minted>>
    BY <1>1, RecorderIs DEF IInv, disk
  <2>2. \A q \in Pairs :
          /\ conf'[song][q] = conf[song][q] \/ conf'[song][q] = Unheard
          /\ Of(q) \cap shared'[song] = {} =>
               conf'[song][q] = conf[song][q] /\ (Of(q) \subseteq Whole(song) => Of(q) \subseteq Whole(song)')
    <3>1. TypeOK /\ WorkersInv /\ KnownInv
      BY DEF IInv
    <3> QED
      BY <1>0, <1>1, <2>1, <3>1, RecorderIs
  <2>3. shared[song] \subseteq shared'[song]
    <3>1. TypeOK /\ WorkersInv /\ KnownInv
      BY DEF IInv
    <3> QED
      BY <1>0, <1>1, <3>1, RecorderIs
  <2>4. BestInv
    BY DEF IInv
  <2>5. best # None /\ Agrees(best) => Agrees(best)'
    BY <1>0, <2>1, <2>2, <2>3 DEF Agrees, Of, Whole
  <2>6. NoBetter(left) => NoBetter(left)'
    BY <2>1, <2>2 DEF NoBetter
  <2> QED
    BY <2>1, <2>4, <2>5, <2>6, BestIs DEF BestInv, Agrees, NoBetter
<1>2. CASE UNCHANGED <<raw, shared, conf, minted, pc, groups, song, left, best>>
  BY <1>2 DEF IInv, BestInv, Whole
<1>3. CASE pc' \notin Comparing /\ left' = {}
  BY <1>3 DEF BestInv
<1>4. ASSUME NEW s \in Songs, Analyze(s) PROVE BestInv'
  <2>1. CASE pc' = "songs"
    <3>1. left' = {}
      BY <1>4, <2>1 DEF Analyze
    <3> QED
      BY <1>3, <2>1, <3>1
  <2>2. CASE pc' = "correlate"
    <3>1. /\ minted[s] = None /\ minted' = minted /\ best' = None
          /\ conf' = conf /\ groups' = groups /\ song' = s
          /\ left' = {p \in Pairs : p[1] \in groups[s] /\ p[2] \in groups[s]}
      BY <1>4, <2>2, Zenon DEF Analyze, disk, takes
    <3>2. ASSUME NEW q \in Pairs \ left' PROVE conf[s][q] = Unheard
      BY <1>4, <3>1, <3>2 DEF IInv, KnownInv, Analyze, Of
    <3> QED
      BY <2>2, <3>1, <3>2 DEF BestInv, Of
  <2> QED
    BY <1>4, <2>1, <2>2 DEF Analyze
<1>5. CASE Listen
  <2>1. /\ UNCHANGED <<raw, shared, conf, minted, groups, song, best>> /\ pc \in Comparing /\ pc' \in Comparing
        /\ left' = left \/ (NextPair[1] \notin Whole(song) /\ left' = left \ {NextPair})
    BY <1>5 DEF Listen, takes, workers, disk
  <2>2. NextPair \in left /\ NextPair \in Pairs
    BY <1>5, NextPairIsLeft DEF Listen, IInv, TypeOK
  <2>3. NextPair[1] \notin Whole(song) => conf[song][NextPair] = Unheard
    BY <1>0, <2>2 DEF IInv, KnownInv, Of
  <2>4. BestInv
    BY DEF IInv
  <2>5. NoBetter(left) => NoBetter(left)'
    BY <2>1, <2>3 DEF NoBetter
  <2>6. Whole(song)' = Whole(song)
    BY <2>1 DEF Whole
  <2> QED
    BY <2>1, <2>2, <2>4, <2>5, <2>6 DEF BestInv, NoBetter
<1>6. CASE Correlate
  <2>1. PICK c \in 0 .. MaxConfidence :
             /\ NextPair \in left /\ NextPair \in Pairs
             /\ best' = IF Better(c) THEN [pair |-> NextPair, conf |-> c] ELSE best
             /\ left' = IF Better(c) /\ c >= Excellent THEN {} ELSE left \ {NextPair}
             /\ \A s \in Songs, q \in Pairs :
                  ~ (s = song /\ q = NextPair) => conf'[s][q] = conf[s][q]
             /\ conf[song][NextPair] # Unheard => conf'[song][NextPair] = conf[song][NextPair]
             /\ \/ /\ still /\ Of(NextPair) \subseteq Whole(song) /\ conf'[song][NextPair] = c
                \/ /\ Of(NextPair) \cap shared[song] # {} /\ conf'[song][NextPair] = Unheard
                \/ c = 0 /\ conf'[song][NextPair] = Unheard
    BY <1>6, Heard
  <2>2. /\ UNCHANGED <<raw, shared, minted, groups, song>>
        /\ pc = "align" /\ pc' = "correlate"
    BY <1>6 DEF Correlate, workers, disk
  <2>3. \A q \in Pairs : q # NextPair => conf'[song][q] = conf[song][q]
    BY <1>0, <2>1
  <2>4. minted[song] = None /\ (best # None => Agrees(best)) /\ NoBetter(left)
    BY <2>2, BestIs DEF IInv
  <2>5. Whole(song)' = Whole(song)
    BY <2>1, <2>2 DEF Whole
  <2>6. \A p \in left' : Of(p) \subseteq groups'[song']
    BY <2>1, <2>2 DEF IInv, BestInv
  <2>7. \A q \in Pairs : conf[song][q] \in 0 .. Unheard /\ Unheard \in Nat
    BY <1>0, JukeboxAssumption DEF IInv, TypeOK, Unheard
  <2>8. CASE Better(c)
    <3>1. /\ c >= Threshold /\ c > 0 /\ (best # None => c > best.conf)
          /\ best' = [pair |-> NextPair, conf |-> c] /\ c \in Nat
      BY <2>1, <2>8, JukeboxAssumption DEF Better
    <3>2. best'.pair = NextPair /\ best'.conf = c
      BY <3>1
    <3>3. best' # None
      BY <3>1 DEF None
    <3>4. Agrees(best)'
      <4>1. Of(NextPair) \cap shared[song] = {} =>
               Of(NextPair) \subseteq Whole(song) /\ conf'[song][NextPair] = c
        BY <2>1, <3>1
      <4> QED
        BY <2>2, <2>5, <3>2, <4>1 DEF Agrees, Of
    <3>5. NoBetter(left)'
      <4>1. CASE c >= Excellent
        BY <3>2, <3>3, <4>1 DEF NoBetter
      <4>2. CASE ~ (c >= Excellent)
        <5>1. left' = left \ {NextPair}
          BY <2>1, <4>2
        <5>2. best # None => best.conf \in Nat /\ best.conf < c /\ ~ (best.conf >= Excellent)
          BY <1>0, <3>1, <4>2, JukeboxAssumption DEF Good
        <5>3. ASSUME NEW q \in Pairs \ left', conf'[song][q] # Unheard PROVE conf'[song][q] <= c
          <6>1. CASE q = NextPair
            BY <2>1, <3>1, <5>3, <6>1
          <6>2. CASE q # NextPair
            <7>1. q \notin left /\ conf'[song][q] = conf[song][q] /\ conf[song][q] \in Nat
              BY <2>3, <2>7, <5>1, <5>3, <6>2, JukeboxAssumption
            <7>2. conf[song][q] < Threshold \/ (best # None /\ conf[song][q] <= best.conf)
              BY <2>4, <5>2, <5>3, <7>1 DEF NoBetter
            <7> QED
              BY <3>1, <5>2, <7>1, <7>2, JukeboxAssumption
          <6> QED
            BY <6>1, <6>2
        <5> QED
          BY <2>2, <3>2, <3>3, <5>3 DEF NoBetter
      <4> QED
        BY <4>1, <4>2
    <3> QED
      BY <2>2, <2>4, <2>6, <3>3, <3>4, <3>5, BestIs DEF BestInv, Agrees, NoBetter
  <2>9. CASE ~ Better(c)
    <3>1. best' = best /\ left' = left \ {NextPair}
      BY <2>1, <2>9
    <3>2. best # None => Agrees(best)'
      <4>1. best # None => best.pair # NextPair \/ conf[song][NextPair] # Unheard \/ Of(NextPair) \cap shared[song] # {}
        BY <1>0, <2>4, <2>7, JukeboxAssumption DEF Agrees, Good, Unheard
      <4> QED
        BY <1>0, <2>1, <2>2, <2>3, <2>4, <2>5, <3>1, <4>1 DEF Agrees, Of
    <3>3. NoBetter(left)'
      <4>1. CASE best # None /\ best.conf >= Excellent
        BY <3>1, <4>1 DEF NoBetter
      <4>2. CASE ~ (best # None /\ best.conf >= Excellent)
        <5>1. ASSUME NEW q \in Pairs \ left', conf'[song][q] # Unheard
              PROVE  conf'[song][q] < Threshold \/ (best # None /\ conf'[song][q] <= best.conf)
          <6>1. CASE q = NextPair
            <7>1. conf'[song][q] = c /\ c \in Nat
              BY <2>1, <5>1, <6>1
            <7>2. best # None => best.conf \in Nat
              BY <1>0, JukeboxAssumption DEF Good
            <7> QED
              BY <2>9, <7>1, <7>2, JukeboxAssumption DEF Better
          <6>2. CASE q # NextPair
            <7>1. q \notin left /\ conf'[song][q] = conf[song][q]
              BY <2>3, <3>1, <5>1, <6>2
            <7> QED
              BY <2>4, <4>2, <5>1, <7>1 DEF NoBetter
          <6> QED
            BY <6>1, <6>2
        <5> QED
          BY <2>2, <3>1, <5>1 DEF NoBetter
      <4> QED
        BY <4>1, <4>2
    <3> QED
      BY <2>2, <2>4, <2>6, <3>1, <3>2, <3>3, BestIs DEF BestInv, Agrees, NoBetter
  <2> QED
    BY <2>8, <2>9
<1>7. CASE Scan \/ Finished \/ Decide \/ Killed
  BY <1>0, <1>3, <1>7 DEF Scan, Finished, Decide, Killed
<1>8. CASE TrimBegins
  BY <1>0, <1>3, <1>8 DEF TrimBegins
<1>9. CASE TrimEnds \/ Publish \/ Companion
  BY <1>0, <1>3, <1>9 DEF TrimEnds, Publish, Companion
<1>10. ASSUME NEW m \in {"watch", "apply", "inspect"}, Start(m) PROVE BestInv'
  BY <1>2, <1>10 DEF Start, disk, builder, takes, workers
<1>11. CASE UNCHANGED vars
  BY <1>2, <1>11 DEF vars, disk, builder, takes, workers
<1> QED
  BY <1>1, <1>4, <1>5, <1>6, <1>7, <1>8, <1>9, <1>10, <1>11, StepIs DEF BuilderStep, ProcessLibrary
-----------------------------------------------------------------------------
(* Minting *)

\* What is heard of a song is at most forgotten.
Kept(s) ==
    /\ shared[s] \subseteq shared'[s]
    /\ \A q \in Pairs :
          /\ conf'[s][q] = conf[s][q] \/ conf'[s][q] = Unheard
          /\ Of(q) \cap shared'[s] = {} =>
               conf'[s][q] = conf[s][q] /\ (Of(q) \subseteq Whole(s) => Of(q) \subseteq Whole(s)')

LEMMA KeptIs ==
    ASSUME IInv, [Next]_vars, NEW s \in Songs, ~ (Correlate /\ s = song)
    PROVE  Kept(s)
<1>1. CASE RecorderStep
  <2>1. TypeOK /\ WorkersInv /\ KnownInv
    BY DEF IInv
  <2> QED
    BY <1>1, <2>1, RecorderIs DEF Kept
<1>2. CASE BuilderStep \/ UNCHANGED vars
  <2>1. raw' = raw /\ shared' = shared /\ (conf' = conf \/ Correlate)
    BY <1>2, BuilderIs
  <2>2. \A q \in Pairs : conf'[s][q] = conf[s][q]
    <3>1. CASE Correlate
      BY <3>1, Heard
    <3> QED
      BY <2>1, <3>1
  <2> QED
    BY <2>1, <2>2 DEF Kept, Whole
<1> QED
  BY <1>1, <1>2, StepIs

\* A verified pair stays one, as long as no other pair of the song is heard.
LEMMA VerifiedKept ==
    ASSUME NEW s \in Songs, Kept(s), NEW m, m.pair \in Pairs, Verified(s, m)
    PROVE  Verified(s, m)'
BY DEF Verified, Kept, Of

LEMMA VerifiedFiles ==
    ASSUME IInv, [Next]_vars, NEW s \in Songs, ~ (Correlate /\ s = song)
    PROVE  \A m \in Aligned \cup Files : Verified(s, m) => Verified(s, m)'
<1>1. Kept(s)
  BY KeptIs
<1>2. \A m \in Aligned \cup Files : m.pair \in Pairs
  BY DEF Aligned, Files
<1> QED
  BY <1>1, <1>2, VerifiedKept

LEMMA FileIs ==
    ASSUME IInv, best # None, NEW w \in BOOLEAN, w \/ Of(best.pair) \cap shared[song] # {}
    PROVE  Cut(File(w)) /\ File(w).whole = w /\ File(w) # None
<1>1. File(w) \in Files
  BY FileType DEF IInv
<1>2. File(w).pair = best.pair /\ File(w).conf = best.conf /\ File(w).whole = w
  BY DEF File
<1>3. File(w) # None
  BY DEF File, None
<1> QED
  BY <1>1, <1>2, <1>3 DEF Cut

LEMMA MintStep == IInv /\ [Next]_vars => MintInv'
<1> SUFFICES ASSUME IInv, [Next]_vars PROVE MintInv'
  OBVIOUS
<1> USE DEF Minting
<1>0. /\ song \in Songs /\ best \in Aligned \cup {None} /\ MintInv
      /\ pc \in Minting => best \in Aligned /\ Verified(song, best)
      /\ tmp \in [Songs -> Files \cup {None}] /\ minted \in [Songs -> Files \cup {None}]
      /\ txt \in [Songs -> Pairs \cup {None, Torn}]
  BY DEF IInv, TypeOK, MintInv
<1>1. CASE pc' \notin Minting /\ UNCHANGED <<minted, txt>>
  BY <1>1 DEF IInv, MintInv
<1>2. CASE RecorderStep
  <2>1. UNCHANGED <<disk, pc, song, best, ok>> /\ shared[song] \subseteq shared'[song]
    <3>1. TypeOK /\ WorkersInv /\ KnownInv
      BY DEF IInv
    <3> QED
      BY <1>0, <1>2, <3>1, RecorderIs
  <2>2. ~ Correlate \/ pc \notin Minting
    BY DEF Correlate
  <2>3. pc \in Minting => \A m \in Aligned \cup Files : Verified(song, m) => Verified(song, m)'
    <3>1. ASSUME pc \in Minting
          PROVE  \A m \in Aligned \cup Files : Verified(song, m) => Verified(song, m)'
      <4>1. ~ (Correlate /\ song = song) /\ song \in Songs
        BY <1>0, <2>2, <3>1
      <4>2. \A s \in Songs : ~ (Correlate /\ s = song) =>
               \A m \in Aligned \cup Files : Verified(s, m) => Verified(s, m)'
        BY VerifiedFiles
      <4>3. song' = song
        BY <2>1
      <4> QED
        BY <4>1, <4>2, <4>3 DEF Verified, Whole
    <3> QED
      BY <3>1
  <2>4. pc \in Minting => Verified(song, best)'
    BY <1>0, <2>1, <2>3 DEF Verified, Whole
  <2>5. ASSUME NEW f, Cut(f) PROVE Cut(f)'
    BY <2>1, <2>5 DEF Cut, Of
  <2>6. \A f \in Files : Cut(f) => Cut(f)'
    BY <2>5
  <2>7. pc' = "trimmed" /\ ok' => Cut(tmp[song])'
    BY <1>0, <2>1, <2>6 DEF MintInv, disk, Cut, Of
  <2>8. pc' = "companion" => Cut(minted[song])'
    BY <1>0, <2>1, <2>6 DEF MintInv, disk, Cut, Of
  <2> QED
    BY <1>0, <2>1, <2>4, <2>7, <2>8 DEF MintInv, disk
<1>3. UNCHANGED <<takes, song, best>> /\ pc \in Minting => Verified(song, best)'
  BY <1>0 DEF takes, workers, Verified, Whole
<1>4. CASE UNCHANGED <<takes, disk, builder>>
  BY <1>0, <1>3, <1>4 DEF MintInv, disk, builder, takes, workers, Cut, Of
<1>5. CASE Decide
  <2>1. CASE pc' = "songs"
    BY <1>1, <1>5, <2>1 DEF Decide, disk
  <2>2. CASE best # None /\ pc' = "mint"
    <3>1. /\ minted[song] = None /\ Agrees(best) /\ NoBetter({}) /\ best.conf \in Good
      BY <1>0, <1>5, <2>2, BestIs DEF Decide, IInv, Comparing, Aligned
    <3>2. \A q \in Pairs : conf[song][q] \in 0 .. Unheard
      BY <1>0 DEF IInv, TypeOK
    <3>3. Verified(song, best)
      BY <3>1, <3>2, JukeboxAssumption DEF Agrees, NoBetter, Of, Verified, Good, Unheard
    <3>4. Verified(song, best)'
      BY <1>5, <3>3 DEF Decide, takes, workers, Verified, Whole
    <3> QED
      BY <1>0, <1>5, <2>2, <3>1, <3>4 DEF Decide, disk, MintInv
  <2> QED
    BY <1>5, <2>1, <2>2 DEF Decide
<1>6. CASE TrimBegins
  <2>1. best # None /\ Verified(song, best)'
    BY <1>0, <1>3, <1>6 DEF TrimBegins, MintInv
  <2>2. pc' \in {"trim", "trimmed"} /\ (pc' = "trimmed" => ok' = FALSE) /\ UNCHANGED <<song, best, minted, txt>>
    BY <1>6, Zenon DEF TrimBegins
  <2> QED
    BY <1>0, <1>6, <2>1, <2>2 DEF TrimBegins, MintInv
<1>7. CASE TrimEnds
  <2>1. best # None /\ Verified(song, best)'
    BY <1>0, <1>3, <1>7 DEF TrimEnds, MintInv
  <2>2. pc' = "trimmed" /\ pc = "trim" /\ UNCHANGED <<song, best, minted, txt, shared>>
    BY <1>7 DEF TrimEnds, takes, workers
  <2>3. ok' => Cut(tmp[song])'
    <3>1. SUFFICES ASSUME ok' PROVE Cut(tmp[song])'
      OBVIOUS
    <3>2. PICK w \in {TRUE, still} : tmp' = [tmp EXCEPT ![song] = File(w)]
      BY <1>7, <3>1 DEF TrimEnds
    <3>3. w \in BOOLEAN /\ (w \/ Of(best.pair) \cap shared[song] # {})
      BY <2>2, <3>2 DEF IInv, TypeOK, StillInv, Of
    <3>4. Cut(File(w))
      BY <2>1, <3>3, FileIs
    <3>5. tmp'[song'] = File(w)
      BY <1>0, <2>2, <3>2
    <3> QED
      BY <2>2, <3>4, <3>5 DEF Cut, Of
  <2> QED
    BY <1>0, <2>1, <2>2, <2>3 DEF MintInv
<1>8. CASE Publish
  <2>1. UNCHANGED <<song, best, txt, takes>> /\ pc = "trimmed"
    BY <1>8 DEF Publish
  <2>2. best # None /\ Verified(song, best)'
    BY <1>0, <1>3, <2>1 DEF MintInv
  <2>3. CASE ~ok
    BY <1>1, <1>8, <2>1, <2>3 DEF Publish
  <2>4. CASE ok
    <3>1. minted' = [minted EXCEPT ![song] = tmp[song]] /\ pc' = "companion"
      BY <1>8, <2>4 DEF Publish
    <3>2. Cut(tmp[song])
      BY <1>0, <2>1, <2>4 DEF MintInv
    <3>3. minted'[song'] = tmp[song] /\ \A s \in Songs : s # song => minted'[s] = minted[s]
      BY <1>0, <2>1, <3>1
    <3>4. Cut(minted[song])'
      BY <2>1, <3>2, <3>3 DEF Cut, Of, takes, workers
    <3>5. minted[song] = None
      BY <1>0, <2>1 DEF MintInv
    <3> QED
      BY <1>0, <2>1, <2>2, <3>1, <3>3, <3>4, <3>5 DEF MintInv
  <2> QED
    BY <2>3, <2>4
<1>9. CASE Companion
  <2>1. minted[song] # None /\ UNCHANGED minted
    BY <1>0, <1>9 DEF Companion, MintInv, Cut, Files, None
  <2>2. \A s \in Songs : s # song => txt'[s] = txt[s]
    BY <1>0, <1>9 DEF Companion
  <2> QED
    BY <1>0, <1>9, <2>1, <2>2 DEF Companion, MintInv
<1>10. CASE Killed
  <2>1. pc' \notin Minting /\ UNCHANGED minted
    BY <1>10 DEF Killed
  <2>2. \A s \in Songs : minted[s] = None => txt'[s] = txt[s]
    <3>1. pc = "companion" => minted[song] # None
      BY <1>0 DEF MintInv, Cut, Files, None
    <3>2. txt' = txt \/ (pc = "companion" /\ txt' = [txt EXCEPT ![song] = Torn])
      BY <1>10, Zenon DEF Killed
    <3> QED
      BY <1>0, <3>1, <3>2
  <2> QED
    BY <1>0, <2>1, <2>2 DEF MintInv
<1>11. CASE Scan \/ Finished \/ Listen \/ Correlate
  BY <1>1, <1>11 DEF Scan, Finished, Listen, Correlate, disk
<1>12. ASSUME NEW s \in Songs, Analyze(s) PROVE MintInv'
  BY <1>1, <1>12 DEF Analyze, disk
<1>13. ASSUME NEW m \in {"watch", "apply", "inspect"}, Start(m) PROVE MintInv'
  BY <1>4, <1>13 DEF Start
<1>14. CASE UNCHANGED vars
  BY <1>4, <1>14 DEF vars
<1> QED
  BY <1>2, <1>5, <1>6, <1>7, <1>8, <1>9, <1>10, <1>11, <1>12, <1>13, <1>14, StepIs
     DEF BuilderStep, ProcessLibrary

-----------------------------------------------------------------------------
(* The two-airing rule *)

\* What is said of one song.
Sound(s) ==
    minted[s] # None =>
        /\ Verified(s, minted[s])
        /\ minted[s].whole \/ Of(minted[s].pair) \cap shared[s] # {}
        /\ txt[s] \in {None, Torn, minted[s].pair} /\ tmp[s] = None

LEMMA SoundIs == SongsVerified <=> \A s \in Songs : Sound(s)
BY DEF SongsVerified, Sound, Of

LEMMA VerifiedStep == IInv /\ [Next]_vars => SongsVerified'
<1> SUFFICES ASSUME IInv, [Next]_vars, NEW s \in Songs, minted'[s] # None
             PROVE  Sound(s)'
  BY SoundIs DEF Sound, SongsVerified, Of
<1>0. /\ song \in Songs /\ Sound(s) /\ MintInv
      /\ tmp \in [Songs -> Files \cup {None}] /\ minted \in [Songs -> Files \cup {None}]
      /\ txt \in [Songs -> Pairs \cup {None, Torn}]
  BY SoundIs DEF IInv, TypeOK
<1>1. ASSUME minted'[s] = minted[s], txt'[s] \in {txt[s], Torn, minted[s].pair},
             tmp'[s] = tmp[s] \/ tmp'[s] = None
      PROVE  Sound(s)'
  <2>1. minted[s] \in Files /\ Verified(s, minted[s])
    BY <1>0, <1>1 DEF Sound
  <2>2. Correlate /\ s = song => minted[s] = None
    BY DEF Correlate, IInv, BestInv, Comparing
  <2>3. ~ (Correlate /\ s = song)
    BY <1>1, <2>2
  <2>4. Verified(s, minted[s])'
    <3>1. \A m \in Files : Verified(s, m) => Verified(s, m)'
      BY <2>3, VerifiedFiles
    <3> QED
      BY <1>1, <2>1, <3>1 DEF Verified, Whole
  <2>5. shared[s] \subseteq shared'[s]
    BY <2>3, KeptIs DEF Kept
  <2> QED
    BY <1>0, <1>1, <2>4, <2>5 DEF Sound, Of
<1>2. CASE UNCHANGED disk
  BY <1>0, <1>1, <1>2 DEF disk, Sound
<1>3. CASE TrimBegins \/ TrimEnds
  <2>1. UNCHANGED <<minted, txt>>
    BY <1>3, Zenon DEF TrimBegins, TrimEnds
  <2>2. minted[song] = None
    BY <1>0, <1>3 DEF TrimBegins, TrimEnds, MintInv
  <2>3. \A t \in Songs : t # song => tmp'[t] = tmp[t]
    BY <1>0, <1>3 DEF TrimBegins, TrimEnds
  <2> QED
    BY <1>0, <1>1, <2>1, <2>2, <2>3 DEF Sound
<1>4. CASE Publish
  <2>1. UNCHANGED <<song, best, txt, takes>> /\ pc = "trimmed" /\ tmp' = [tmp EXCEPT ![song] = None]
    BY <1>4 DEF Publish
  <2>2. CASE minted' = minted
    BY <1>0, <1>1, <2>1, <2>2 DEF Sound
  <2>3. CASE ok
    <3>1. minted' = [minted EXCEPT ![song] = tmp[song]] /\ minted[song] = None /\ txt[song] = None
      BY <1>0, <1>4, <2>1, <2>3 DEF Publish, MintInv
    <3>2. CASE s = song
      <4>1. Cut(tmp[song]) /\ Verified(song, best)
        BY <1>0, <2>1, <2>3 DEF MintInv, Minting
      <4>2. minted'[s] = tmp[song] /\ tmp'[s] = None /\ txt'[s] = None
        BY <1>0, <2>1, <3>1, <3>2
      <4>3. Verified(s, minted[s])'
        BY <2>1, <3>2, <4>1, <4>2 DEF Cut, Verified, Whole, takes, workers
      <4> QED
        BY <2>1, <3>2, <4>1, <4>2, <4>3 DEF Sound, Cut, Of, takes, workers
    <3>3. CASE s # song
      <4>1. minted'[s] = minted[s] /\ tmp'[s] = tmp[s] /\ txt'[s] = txt[s]
        BY <1>0, <2>1, <3>1, <3>3
      <4> QED
        BY <1>1, <4>1
    <3> QED
      BY <3>2, <3>3
  <2> QED
    BY <1>4, <2>2, <2>3 DEF Publish
<1>5. CASE Companion
  <2>1. UNCHANGED <<minted, tmp>> /\ txt' = [txt EXCEPT ![song] = best.pair]
    BY <1>5 DEF Companion
  <2>2. minted[song].pair = best.pair
    BY <1>0, <1>5 DEF Companion, MintInv, Cut
  <2>3. txt'[s] \in {txt[s], minted[s].pair}
    BY <1>0, <2>1, <2>2
  <2> QED
    BY <1>1, <2>1, <2>3
<1>6. CASE Killed
  <2>1. UNCHANGED minted
    BY <1>6 DEF Killed
  <2>2. tmp'[s] = tmp[s]
    <3>1. tmp' = tmp \/ (pc = "trim" /\ tmp' = [tmp EXCEPT ![song] = File(TRUE)])
      BY <1>6, Zenon DEF Killed
    <3>2. pc = "trim" => s # song
      BY <1>0, <2>1 DEF MintInv
    <3> QED
      BY <1>0, <3>1, <3>2
  <2>3. txt'[s] \in {txt[s], Torn}
    <3>1. txt' = txt \/ txt' = [txt EXCEPT ![song] = Torn]
      BY <1>6, Zenon DEF Killed
    <3> QED
      BY <1>0, <3>1
  <2> QED
    BY <1>1, <2>1, <2>2, <2>3
<1>7. CASE RecorderStep
  <2>1. TypeOK /\ WorkersInv /\ KnownInv
    BY DEF IInv
  <2> QED
    BY <1>2, <1>7, <2>1, RecorderIs
<1>8. CASE Scan \/ Finished \/ Listen \/ Correlate \/ Decide
  BY <1>2, <1>8 DEF Scan, Finished, Listen, Correlate, Decide
<1>9. ASSUME NEW t \in Songs, Analyze(t) PROVE Sound(s)'
  BY <1>2, <1>9 DEF Analyze
<1>10. ASSUME NEW n \in {"watch", "apply", "inspect"}, Start(n) PROVE Sound(s)'
  BY <1>2, <1>10 DEF Start
<1>11. CASE UNCHANGED vars
  BY <1>2, <1>11 DEF vars
<1> QED
  BY <1>3, <1>4, <1>5, <1>6, <1>7, <1>8, <1>9, <1>10, <1>11, StepIs DEF BuilderStep, ProcessLibrary

LEMMA InvInit == Init => IInv
<1> SUFFICES ASSUME Init PROVE IInv
  OBVIOUS
<1>1. WorkersInv /\ KnownInv /\ StillInv
  BY DEF Init, WorkersInv, Workers, KnownInv, StillInv
<1>2. BestInv /\ MintInv /\ SongsVerified
  BY DEF Init, BestInv, MintInv, SongsVerified, Minting, Comparing, None
<1> QED
  BY <1>1, <1>2, TypeInit DEF IInv

\* Whatever fails, whoever is killed and whatever the recorder writes over: a
\* song in the jukebox is cut by two takes that agreed well enough, the best
\* that were compared, and its companion names them; it is complete, and so are
\* the takes, unchanged, unless two workers had one name (analyze_song,
\* execute_lossless_trim, write_jukebox_companion_txt).
THEOREM TwoAiringRule == Spec => []SongsVerified
<1>1. IInv /\ [Next]_vars => IInv'
  BY TypeStep, WorkersStep, KnownStep, StillStep, BestStep, MintStep, VerifiedStep DEF IInv
<1>2. IInv => SongsVerified
  BY DEF IInv
<1> QED
  BY InvInit, <1>1, <1>2, PTL DEF Spec
=============================================================================
