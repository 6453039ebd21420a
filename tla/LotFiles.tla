------------------------------ MODULE LotFiles ------------------------------
(***************************************************************************)
(* The reassembly of broadcast files in src/src/output.c: packets with one *)
(* fragment each, for the files (LOTs) of the ports that the station's     *)
(* table (SIG) declares, into the few files every port has room for, the   *)
(* least recently used of which makes room for a new one.                  *)
(*                                                                         *)
(* The station sends the fragments of a file in any order, over and over,  *)
(* and from time to time gives a file id to another content, a new         *)
(* version, whose first packet carries the file's header.  The receiver    *)
(* tunes in at any time and misses packets.                                *)
(***************************************************************************)
EXTENDS Integers, FiniteSets, Sequences

CONSTANTS
    Ports,          \* data ports of type LOT
    Lots,           \* file ids
    Slots,          \* MAX_LOT_FILES
    MaxFragments,   \* MAX_LOT_FRAGMENTS
    Parts,          \* Parts[v]: fragments of the v-th version of a file
    Tables,         \* the SIG tables: each is the set of ports it declares
    MaxReplaced,    \* bound: files that get another version
    MaxPackets      \* bound: packets between two changes of the SIG

ASSUME LotAssumption ==
    /\ Slots \in Nat \ {0} /\ MaxFragments \in Nat \ {0}
    /\ Parts \in Seq(0 .. MaxFragments) \ {<<>>}
    /\ Tables \subseteq SUBSET Ports
    /\ MaxReplaced \in Nat /\ MaxPackets \in Nat

VARIABLES
    \* the station
    version,        \* version[p][l]: the version of file l that is on air
    begun,          \* begun[p][l]: its header has been sent
    \* the receiver
    sig,            \* the SIG table parsed last, or NoTable
    files,          \* files[p][i]: the file in slot i of port p
    lot_lru_counter,
    report,         \* the files that the latest step reported: one at most
    \* history
    past            \* past[p][i]: what became of the file in slot i so far

station == <<version, begun>>
vars == <<station, sig, files, lot_lru_counter, report, past>>

NoTable == {}       \* or none of these ports in it
NoVersion == 0      \* no fragment, or no header yet
Slot == 1 .. Slots
Seqs == 0 .. MaxFragments - 1
Versions == DOMAIN Parts

Lowest(S) == CHOOSE i \in S : \A j \in S : i <= j

NoFile == [timestamp |-> 0, lot |-> "none", header |-> NoVersion,
           fragments |-> [q \in Seqs |-> NoVersion]]
NewFile(l, t) == [NoFile EXCEPT !.timestamp = t, !.lot = l]

\* The number of the last packet for the file, the versions whose headers it
\* got, the version reported last, and whether a packet was too long.
NoPast == [received |-> 0, seen |-> {}, told |-> NoVersion, cut |-> FALSE]

EmptyFiles == [p \in Ports |-> [i \in Slot |-> NoFile]]

Init ==
    /\ version = [p \in Ports |-> [l \in Lots |-> 1]]
    /\ begun = [p \in Ports |-> [l \in Lots |-> TRUE]]
    /\ sig = NoTable
    /\ files = EmptyFiles /\ lot_lru_counter = 1 /\ report = {}
    /\ past = [p \in Ports |-> [i \in Slot |-> NoPast]]

-----------------------------------------------------------------------------
(* Finding the slot of a file *)

Used(p) == {i \in Slot : files[p][i].timestamp # 0}

\* Faulty: takes the name, not the timestamp, for the mark of a free slot.
HoldingNamed(p, l) ==
    {i \in Used(p) : files[p][i].lot = l /\ files[p][i].header # NoVersion}

Holding(p, l) == {i \in Used(p) : files[p][i].lot = l}

\* The first of the slots with the smallest timestamp.
Oldest(p) ==
    CHOOSE i \in Slot : \A j \in Slot :
        \/ files[p][i].timestamp < files[p][j].timestamp
        \/ files[p][i].timestamp = files[p][j].timestamp /\ i <= j

\* find_lot, or else find_free_lot.
SlotFor(p, l) ==
    IF Holding(p, l) # {} THEN Lowest(Holding(p, l))
    ELSE IF Used(p) # Slot THEN Lowest(Slot \ Used(p))
    ELSE Oldest(p)

\* Faulty: the timestamp is that of the first packet.
TouchedOnce(p, l) ==
    IF Holding(p, l) = {} THEN NewFile(l, lot_lru_counter) ELSE files[p][SlotFor(p, l)]

\* The file of a packet, as it was or new, with the timestamp of now.
Touched(p, l) ==
    LET i == SlotFor(p, l)
    IN  IF Holding(p, l) = {} THEN NewFile(l, lot_lru_counter)
        ELSE [files[p][i] EXCEPT !.timestamp = lot_lru_counter]

\* Faulty: keeps the fragments of the other version.
WithHeaderOnly(f, v) == [f EXCEPT !.header = v]

\* A header that differs from the one there is empties the file, which gets
\* the timestamp that the next packet will get too.
WithHeader(f, v) ==
    IF f.header \in {NoVersion, v} THEN [f EXCEPT !.header = v]
    ELSE [NewFile(f.lot, lot_lru_counter + 1) EXCEPT !.header = v]

\* A fragment that is there already stays.
WithFragment(f, q, v) ==
    IF f.fragments[q] # NoVersion THEN f ELSE [f EXCEPT !.fragments[q] = v]

Complete(f) ==
    /\ f.header # NoVersion /\ Parts[f.header] > 0
    /\ \A q \in 0 .. Parts[f.header] - 1 : f.fragments[q] # NoVersion

-----------------------------------------------------------------------------
(* process_port *)

Declared(p) == p \in sig

\* The file of the packet becomes f.  The application is told when the packet
\* brought anything new and nothing is missing.
Keep(p, l, f, isNew, hdr, cut) ==
    LET i == SlotFor(p, l)
        h == IF Holding(p, l) = {} THEN NoPast ELSE past[p][i]
        tell == isNew /\ Complete(f) /\ ~cut
    IN  /\ lot_lru_counter <= MaxPackets
        /\ lot_lru_counter' = lot_lru_counter + 1
        /\ files' = [files EXCEPT ![p][i] = f]
        /\ report' = IF tell THEN {[port |-> p, file |-> f]} ELSE {}
        /\ past' = [past EXCEPT ![p][i] =
                      [received |-> lot_lru_counter,
                       seen |-> IF hdr THEN h.seen \cup {f.header} ELSE h.seen,
                       told |-> IF tell THEN f.header ELSE h.told,
                       cut |-> h.cut \/ cut]]

\* Faulty: a header is no news.
NewsIsFragment(before, f, g) == g.fragments # f.fragments

\* Faulty: every header is news.
NewsIsAll(before, f, g) == TRUE

\* new_data: the header or the fragment was not there before.
News(before, f, g) == g.header # before.header \/ g.fragments # f.fragments

\* A packet of the version on air arrives: with or without a header, whole or
\* with a fragment that is too long, which is not kept and ends the handling.
Packet(p, l, q, hdr, cut) ==
    LET v == version[p][l]
        found == Touched(p, l)
        f == IF hdr THEN WithHeader(found, v) ELSE found
        g == IF cut THEN f ELSE WithFragment(f, q, v)
    IN  /\ begun[p][l] \/ hdr
        /\ q < Parts[v]
        /\ begun' = [begun EXCEPT ![p][l] = TRUE]
        /\ cut => f.fragments[q] = NoVersion
        /\ IF Declared(p)
           THEN Keep(p, l, g, News(found, f, g), hdr, cut)
           ELSE UNCHANGED <<files, lot_lru_counter, past>> /\ report' = {}
        /\ UNCHANGED <<version, sig>>

\* A packet whose header is shorter than headers are: no more than a touch.
ShortHeader(p, l) ==
    /\ Declared(p)
    /\ Keep(p, l, Touched(p, l), FALSE, FALSE, FALSE)
    /\ UNCHANGED <<station, sig>>

-----------------------------------------------------------------------------
(* parse_sig and aas_reset *)

\* Faulty: the counter starts again but the files stay.
ParseSigKeepsFiles(t) ==
    /\ sig # t
    /\ sig' = t
    /\ lot_lru_counter' = IF sig = NoTable THEN lot_lru_counter ELSE 1
    /\ report' = {}
    /\ UNCHANGED <<station, files, past>>

\* A table other than the last one empties every port.
ParseSig(t) ==
    /\ sig # t
    /\ sig' = t
    /\ IF sig = NoTable
       THEN UNCHANGED <<files, lot_lru_counter, past>>
       ELSE /\ files' = EmptyFiles /\ lot_lru_counter' = 1
            /\ past' = [p \in Ports |-> [i \in Slot |-> NoPast]]
    /\ report' = {}
    /\ UNCHANGED station

-----------------------------------------------------------------------------
(* The station and the air *)

Replace(p, l) ==
    /\ version[p][l] + 1 \in Versions
    /\ Cardinality({x \in (Ports \X Lots) \ {<<p, l>>} : version[x[1]][x[2]] > 1})
         < MaxReplaced
    /\ version' = [version EXCEPT ![p][l] = @ + 1]
    /\ begun' = [begun EXCEPT ![p][l] = FALSE]
    /\ report' = {}
    /\ UNCHANGED <<sig, files, lot_lru_counter, past>>

\* The loss of any other packet changes nothing.
HeaderLost(p, l) ==
    /\ ~begun[p][l]
    /\ begun' = [begun EXCEPT ![p][l] = TRUE]
    /\ report' = {}
    /\ UNCHANGED <<version, sig, files, lot_lru_counter, past>>

Next ==
    \/ \E p \in Ports, l \in Lots, q \in Seqs, hdr, cut \in BOOLEAN :
          Packet(p, l, q, hdr, cut)
    \/ \E p \in Ports, l \in Lots :
          ShortHeader(p, l) \/ Replace(p, l) \/ HeaderLost(p, l)
    \/ \E t \in Tables : ParseSig(t)

Spec == Init /\ [][Next]_vars

-----------------------------------------------------------------------------
(* Properties *)

File == [timestamp : Nat, lot : Lots \cup {"none"},
         header : Versions \cup {NoVersion},
         fragments : [Seqs -> Versions \cup {NoVersion}]]

\* Every variable has the type the code gives it, and no file is from the
\* future: at most one is ahead of the counter's last value.
TypeOK ==
    /\ version \in [Ports -> [Lots -> Versions]]
    /\ begun \in [Ports -> [Lots -> BOOLEAN]]
    /\ sig \in Tables \cup {NoTable}
    /\ files \in [Ports -> [Slot -> File]]
    /\ lot_lru_counter \in Nat \ {0}
    /\ \A p \in Ports, i \in Slot : files[p][i].timestamp <= lot_lru_counter
    /\ report \in SUBSET [port : Ports, file : File]

\* No file id has two slots: find_lot always finds the file there is, so the
\* fragments of one file never end up in two places.
OneFilePerLot ==
    \A p \in Ports : \A i, j \in Used(p) :
        files[p][i].lot = files[p][j].lot => i = j

\* The fragments of a file are of the version its header says, unless the
\* receiver never got the header they belong to (it tuned in too late, missed
\* it, or had given up the file for another one in between).
FilesUnmixed ==
    \A p \in Ports, i \in Slot, q \in Seqs :
        LET f == files[p][i]
        IN  f.fragments[q] \in past[p][i].seen => f.fragments[q] = f.header

\* A file that has nothing missing has been reported, whichever of its
\* fragments and its header came last, unless that one was too long.
CompleteReported ==
    \A p \in Ports, i \in Slot :
        Complete(files[p][i]) =>
            past[p][i].told = files[p][i].header \/ past[p][i].cut

\* The repetition of a packet is not reported again.
ReportsAreNews ==
    [][\A r \in report' : \E i \in Slot :
         LET f == files[r.port][i]  g == files'[r.port][i]
         IN  /\ g = r.file
             /\ f.lot # g.lot \/ f.header # g.header \/ f.fragments # g.fragments]_vars

\* The file that makes room for another is the least recently received one of
\* its port, or was received with the very next packet after that one: only
\* then may the two, after a changed header, have the same timestamp.
OldestMakesRoom ==
    \A p \in Ports : \A i, j \in Used(p) :
        /\ files'[p][i].timestamp # 0 /\ files'[p][i].lot # files[p][i].lot
        /\ past[p][j].received < past[p][i].received
        => past[p][i].received = past[p][j].received + 1

EvictsOldest == [][OldestMakesRoom]_vars
=============================================================================
