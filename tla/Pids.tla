-------------------------------- MODULE Pids --------------------------------
(***************************************************************************)
(* Station information: src/src/pids.c.  The station repeats messages      *)
(* about itself in small frames.  Short ones are compared with what is     *)
(* known; texts come in several messages, and are collected in place.  An  *)
(* application is told of each item by an event of its own, and of all of  *)
(* them by the older NRSC5_EVENT_SIS.                                      *)
(*                                                                         *)
(* Any frame may be lost, so the station may send any message next.  The   *)
(* checksums are ideal.  A content is a number, the Version of an item.    *)
(***************************************************************************)
EXTENDS Integers, Sequences, SequencesExt

CONSTANTS
    Lineups,        \* bound: which messages a station sends
    Versions,       \* bound: versions of each item
    Seqs,           \* sequence numbers of a text: 8 and 4
    LastFrame,      \* bound: the texts have this frame and those before it
    Programs,       \* MAX_AUDIO_SERVICES
    DataServices,   \* MAX_DATA_SERVICES
    AlertLimit      \* ALERT_TIMEOUT_LIMIT

\* Texts with a sequence number, and those that are checked when complete.
Sequenced == {"long_name", "message", "alert"}
Checked == {"message", "alert"}
Texts == Sequenced \cup {"universal_short_name", "slogan"}
Shorts == {"station_id", "short_name", "location", "audio", "data", "parameter"}

ASSUME PidsAssumption ==
    /\ Versions \in Nat \ {0} /\ Seqs \in Nat /\ Seqs >= Versions
    /\ LastFrame \in Nat \ {0} /\ Programs \in Nat \ {0} /\ DataServices \in Nat \ {0}
    /\ AlertLimit \in Nat \ {0}

VARIABLES
    lineup,         \* the messages that are sent
    version,        \* of each of them
    \* the receiver
    pids,           \* pids_t, see PidsInit
    \* the application
    told,           \* by the event of each item
    sis,            \* by the latest NRSC5_EVENT_SIS
    \* history
    silent,         \* SIS frames since the latest message of an alert
    base,           \* the version that all frames of a text are of, since it began
    latest          \* the latest frame of a text

pidsVars == <<lineup, version, pids, told, sis, silent, base, latest>>

Frames == 0 .. LastFrame
None == 0
Mixed == -1
Whole(v) == [f \in Frames |-> v]
Blank == Whole(None)

NoText == [seq |-> -1, have |-> {}, text |-> Blank, displayed |-> FALSE]

\* pids_t, zeroed and then initialised by pids_init; also reset_alert.
NoPids ==
    [station_id |-> None, short_name |-> None,
     location |-> Blank,                                \* latitude, longitude
     audio_services |-> [prog \in 0 .. Programs - 1 |-> None],
     data_services |-> <<>>,
     parameters |-> Blank,                              \* those of the exciter
     universal_short_name_final |-> Blank,
     texts |-> [k \in Texts |-> NoText],
     alert_timeout |-> 0]

\* pids_init leaves the buffers of two texts as they are.
PidsInit(st) ==
    [NoPids EXCEPT
        !.texts["long_name"] = [st.texts["long_name"] EXCEPT !.displayed = FALSE, !.seq = -1],
        !.texts["message"] = [st.texts["message"] EXCEPT !.displayed = FALSE, !.seq = -1]]

\* What the application has been told: the events of nrsc5_report_station_id,
\* _station_name, _station_slogan, _station_message, _station_location, _asd,
\* _dsd, _exciter_info and _emergency_alert.
NothingTold ==
    [station_id |-> None, name |-> Blank, slogan |-> Blank, message |-> Blank, alert |-> Blank,
     location |-> Blank, audio_services |-> NoPids.audio_services, data_services |-> {},
     exciter |-> Blank,
     slogan_of |-> "none"]          \* history: the text that was told as the slogan

-----------------------------------------------------------------------------
(* The messages.  Each operator takes and returns what the receiver knows, *)
(* what the application was told, and whether the frame brought news. *)

Updated(r) == [r EXCEPT !.updated = TRUE]

StationId(r, p) ==
    IF p.value = r.pids.station_id THEN r
    ELSE Updated([r EXCEPT !.pids.station_id = p.value, !.told.station_id = p.value])

StationNameShort(r, p) ==
    IF p.value = r.pids.short_name THEN r
    ELSE Updated([r EXCEPT !.pids.short_name = p.value, !.told.name = Whole(p.value)])

\* Frame 0 is the latitude, frame 1 the longitude: news once both are known.
StationLocation(r, p) ==
    LET half == IF p.frame = 0 THEN 0 ELSE 1
        location == [r.pids.location EXCEPT ![half] = p.value]
        known == [r EXCEPT !.pids.location = location]
    IN  IF location = r.pids.location THEN r
        ELSE IF location[1 - half] = None THEN known
        ELSE Updated([known EXCEPT !.told.location = location])

ServiceInformation(r, p) ==
    CASE p.kind = "audio" /\ p.frame < Programs /\ r.pids.audio_services[p.frame] # p.value ->
            Updated([r EXCEPT !.pids.audio_services[p.frame] = p.value,
                              !.told.audio_services[p.frame] = p.value])
      [] p.kind = "data" /\ p.value \notin Range(r.pids.data_services)
                         /\ Len(r.pids.data_services) < DataServices ->
            Updated([r EXCEPT !.pids.data_services = Append(@, p.value),
                              !.told.data_services = @ \cup {p.value}])
      [] OTHER -> r

\* A group of parameters is told when all of it is known, and is not part of
\* the SIS event.
Parameter(r, p) ==
    LET parameters == [r.pids.parameters EXCEPT ![p.frame] = p.value]
        known == [r EXCEPT !.pids.parameters = parameters]
    IN  IF parameters # r.pids.parameters /\ \A f \in Frames : parameters[f] # None
        THEN [known EXCEPT !.told.exciter = parameters] ELSE known

Numbered(v) == v % Seqs

\* The first frame of a text with a new number begins it.
Begins(t, p) == p.kind \in Sequenced /\ p.frame = 0 /\ Numbered(p.value) # t.seq

\* Faulty: does not forget which frames it has.
StoredOver(t, p) ==
    [(IF Begins(t, p) THEN [NoText EXCEPT !.seq = Numbered(p.value), !.have = t.have] ELSE t)
        EXCEPT !.have = @ \cup {p.frame}, !.text[p.frame] = p.value]

\* A frame is put in its place, also in a text that is displayed.
Stored(t, p) ==
    [(IF Begins(t, p) THEN [NoText EXCEPT !.seq = Numbered(p.value)] ELSE t)
        EXCEPT !.have = @ \cup {p.frame}, !.text[p.frame] = p.value]

Collected(r, p) == [r EXCEPT !.pids.texts[p.kind] = Stored(@, p)]

\* A text that is not displayed has all its frames.
Complete(t) == ~t.displayed /\ t.have = Frames

\* The checksum over a text, and the control data of an alert, are right.
Verified(t) == \E v \in 1 .. Versions : t.text = Whole(v)

Displayed(r, k) == Updated([r EXCEPT !.pids.texts[k].displayed = TRUE])

SloganTold(r, k, text) == [r EXCEPT !.told.slogan = text, !.told.slogan_of = k]

StationLongName(r, p) ==
    LET e == Collected(r, p)
        t == e.pids.texts["long_name"]
        d == Displayed(e, "long_name")
    IN  CASE ~Complete(t) \/ t.seq < 0 -> e
          [] Complete(t) /\ t.seq >= 0 /\ d.pids.texts["slogan"].displayed -> d
          [] OTHER -> SloganTold(d, "long_name", t.text)

StationMessage(r, p) ==
    LET e == Collected(r, p)
        t == e.pids.texts["message"]
    IN  IF Complete(t) /\ t.seq >= 0 /\ Verified(t)
        THEN [Displayed(e, "message") EXCEPT !.told.message = t.text] ELSE e

\* The name, and a slogan, which is told if the long name was not before it.
UniversalShortStationName(r, p) ==
    LET e == Collected(r, p)
        t == e.pids.texts[p.kind]
        d == Displayed(e, p.kind)
    IN  CASE ~Complete(t) -> e
          [] Complete(t) /\ p.kind = "universal_short_name" ->
                [d EXCEPT !.pids.universal_short_name_final = t.text, !.told.name = t.text]
          [] Complete(t) /\ p.kind = "slogan" /\ d.pids.texts["long_name"].displayed -> d
          [] OTHER -> SloganTold(d, "slogan", t.text)

EmergencyAlert(r, p) ==
    LET e == Collected([r EXCEPT !.pids.alert_timeout = 0], p)
        t == e.pids.texts["alert"]
    IN  IF Complete(t) /\ Verified(t)
        THEN [Displayed(e, "alert") EXCEPT !.told.alert = t.text] ELSE e

Decode(r, p) ==
    CASE p.kind = "station_id" -> StationId(r, p)
      [] p.kind = "short_name" -> StationNameShort(r, p)
      [] p.kind = "location" -> StationLocation(r, p)
      [] p.kind \in {"audio", "data"} -> ServiceInformation(r, p)
      [] p.kind = "parameter" -> Parameter(r, p)
      [] p.kind = "long_name" -> StationLongName(r, p)
      [] p.kind = "message" -> StationMessage(r, p)
      [] p.kind \in {"universal_short_name", "slogan"} -> UniversalShortStationName(r, p)
      [] p.kind = "alert" -> EmergencyAlert(r, p)

\* report: what the SIS event says.
Report(st) ==
    LET Shown(k) == IF st.texts[k].displayed THEN st.texts[k].text ELSE Blank
    IN  [station_id |-> st.station_id,
         name |-> IF st.texts["universal_short_name"].displayed
                  THEN st.universal_short_name_final ELSE Whole(st.short_name),
         slogan |-> IF st.texts["slogan"].displayed THEN Shown("slogan") ELSE Shown("long_name"),
         message |-> Shown("message"), alert |-> Shown("alert"),
         location |-> IF st.location[0] # None /\ st.location[1] # None THEN st.location ELSE Blank,
         audio_services |-> st.audio_services,
         data_services |-> Range(st.data_services)]

\* sis_decode counts a frame before it looks into it.
Counted(st) ==
    IF st.texts["alert"].displayed THEN [st EXCEPT !.alert_timeout = @ + 1] ELSE st

\* Faulty: a frame too late.
WithdrawnLate(r) ==
    IF r.pids.texts["alert"].displayed /\ r.pids.alert_timeout > AlertLimit
    THEN Updated([r EXCEPT !.pids.texts["alert"] = NoText, !.pids.alert_timeout = 0,
                           !.told.alert = Blank])
    ELSE r

\* reset_alert, when nothing has been heard of the alert for so many frames.
Withdrawn(r) ==
    IF r.pids.texts["alert"].displayed /\ r.pids.alert_timeout >= AlertLimit
    THEN Updated([r EXCEPT !.pids.texts["alert"] = NoText, !.pids.alert_timeout = 0,
                           !.told.alert = Blank])
    ELSE r

\* sis_decode, with the messages that the frame holds
SisDecode(payloads) ==
    LET start == [pids |-> Counted(pids), told |-> told, updated |-> FALSE]
        r == Withdrawn(FoldLeft(Decode, start, payloads))
    IN  /\ pids' = r.pids /\ told' = r.told
        /\ sis' = IF r.updated THEN Report(r.pids) ELSE sis

-----------------------------------------------------------------------------
(* The station *)

\* payload_sizes: only one long message fits into a frame, or two short ones.
Size(k) ==
    CASE k \in Texts -> 58
      [] k = "station_id" -> 32
      [] k \in {"short_name", "parameter"} -> 22
      [] k \in {"location", "audio", "data"} -> 27

\* A message, with the fields that decode_int and decode_char read.
Payloads ==
    {p \in [kind : DOMAIN version, frame : Frames \cup {Programs}, value : 1 .. Versions] :
        /\ p.value = version[p.kind]
        /\ p.frame = Programs => p.kind = "audio"
        /\ p.kind \in {"station_id", "short_name", "data"} => p.frame = 0}

Fit(payloads) ==
    1 + FoldLeft(LAMBDA bits, p : bits + 4 + Size(p.kind), 0, payloads) <= 63

\* pids_frame_push with the messages of a frame that arrives.
PidsFrame(payloads) ==
    /\ SisDecode(payloads)
    /\ LET alert == \E i \in DOMAIN payloads : payloads[i].kind = "alert"
           p == payloads[1]
           old == pids.texts[p.kind]      \* of a text
       IN  /\ silent' = IF alert THEN 0 ELSE IF silent < AlertLimit THEN silent + 1 ELSE silent
           /\ IF p.kind \notin Texts THEN UNCHANGED <<base, latest>>
              ELSE /\ base' = [base EXCEPT ![p.kind] =
                                IF Begins(old, p) \/ @ \in {None, p.value} THEN p.value ELSE Mixed]
                   /\ latest' = <<p.kind, p.frame>>
    /\ UNCHANGED <<lineup, version>>

\* The frames that check_crc12 lets through.
PidsFrames ==
    \/ \E p \in Payloads : PidsFrame(<<p>>)
    \/ \E p, q \in Payloads : Fit(<<p, q>>) /\ PidsFrame(<<p, q>>)

\* The station has something new to say.
Changes(k) ==
    /\ version[k] < Versions
    /\ version' = [version EXCEPT ![k] = @ + 1]
    /\ UNCHANGED <<lineup, pids, told, sis, silent, base, latest>>

PidsStart ==
    /\ lineup \in Lineups
    /\ version = [k \in lineup \cap (Texts \cup Shorts) |-> 1]
    /\ pids = NoPids /\ told = NothingTold /\ sis = Report(NoPids)
    /\ silent = 0 /\ base = [k \in Texts |-> None] /\ latest = <<>>

\* decode_reset; the application keeps what it was told.
PidsReset ==
    /\ pids' = PidsInit(pids)
    /\ base' = [k \in Texts |-> None]
    /\ UNCHANGED <<lineup, told, sis, silent, latest>>

-----------------------------------------------------------------------------
(* Properties *)

PidsTypeOK ==
    /\ lineup \in Lineups
    /\ DOMAIN pids = DOMAIN NoPids
    /\ pids.alert_timeout \in 0 .. AlertLimit - 1
    /\ Len(pids.data_services) <= DataServices
    /\ \A k \in Texts : pids.texts[k].have \subseteq Frames /\ pids.texts[k].seq \in -1 .. Seqs - 1
    /\ DOMAIN told = DOMAIN NothingTold
    /\ silent \in 0 .. AlertLimit
    /\ base \in [Texts -> {Mixed, None} \cup 1 .. Versions]

TextsWhole ==
    /\ \A k \in Texts : pids.texts[k].displayed /\ base[k] # Mixed =>
            pids.texts[k].text = Whole(base[k])
    /\ \A k \in Checked : \E v \in 0 .. Versions : told[k] = Whole(v)

\* The name is the one that was told last, but for a short name that was told
\* after the universal one: the SIS event stays with the universal name.
NameShown ==
    LET shown == Report(pids).name
    IN  \/ shown \in {Blank, told.name}
        \/ pids.texts["universal_short_name"].displayed /\ told.name = Whole(pids.short_name)

\* The slogan is the one that was told last, but for a slogan that came after a
\* long name was told: the SIS event shows it, and no event tells it.
SloganShown ==
    LET k == IF pids.texts["slogan"].displayed THEN "slogan" ELSE "long_name"
    IN  \/ Report(pids).slogan \in {Blank, told.slogan}
        \/ base[k] = Mixed
        \/ k = "slogan" /\ told.slogan_of = "long_name"

SisShowsTold ==
    /\ sis.station_id # None => told.station_id = sis.station_id
    /\ sis.location # Blank => told.location = sis.location
    /\ \A prog \in 0 .. Programs - 1 :
            sis.audio_services[prog] # None => told.audio_services[prog] = sis.audio_services[prog]
    /\ sis.data_services \subseteq told.data_services
    /\ \A k \in Checked : base[k] = Mixed \/ sis[k] \in {Blank, told[k]} \/ ~pids.texts[k].displayed
    /\ NameShown /\ SloganShown

\* A text is never shown with the frames of two versions in it, if all that
\* arrived since its first frame were of one: whatever was in its buffer
\* before, of the station before too; the events of messages and alerts show
\* whole texts in any case.  And the SIS event shows what the application was
\* told by the event of each item, the latest of it; of the name and the slogan
\* with the exceptions above.
ShownAsSent == TextsWhole /\ SisShowsTold

\* An alert on display is withdrawn when so many frames have come without a
\* message of it, and not before.
AlertOnTime ==
    [][pids.texts["alert"].displayed =>
        (silent' = AlertLimit => told'.alert = Blank) /\
        (told'.alert = Blank => silent' = AlertLimit)]_pidsVars

\* What the station keeps repeating is told and shown in the end, as it is now.
Current(k) ==
    [](k \in lineup => <>(/\ pids.texts[k].displayed
                          /\ pids.texts[k].text = Whole(version[k])
                          /\ k \in Checked => told[k] = Whole(version[k])))
CurrentTexts == Current("long_name") /\ Current("message") /\ Current("alert")
=============================================================================
