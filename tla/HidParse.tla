------------------------------ MODULE HidParse ------------------------------
(***************************************************************************)
(* wmt_hid_parse() and wmt_hid_report_size() (src/imt.c): the two-pass    *)
(* walk over the items of a HID report descriptor that decides whether    *)
(* the device is a Windows-compatible multi-touch digitizer and fills the *)
(* device profile in the softc.                                           *)
(*                                                                         *)
(* The descriptor is the sequence of items the HID item parser           *)
(* (hid_get_item, outside this repository) yields: collections, ends of   *)
(* collections and data items, each with its collection level, usage,    *)
(* report id, whether it is absolute (WMT_HI_ABSOLUTE), logical range and *)
(* location (pos, size, count) in its report.  A pass only sees the      *)
(* collections and the data items of its kind (hid_start_parse with a    *)
(* kind mask).  A location copied into the softc is represented by the   *)
(* index of the item it was copied from, NoLoc for a zeroed one.          *)
(*                                                                         *)
(* One step is one iteration of a while (hid_get_item(...)) loop; the     *)
(* code between the two loops, and the checks and assignments after the   *)
(* second, are one step each.  probe = TRUE is the call from imt_probe    *)
(* with sc == NULL, probe = FALSE the call from imt_attach.               *)
(***************************************************************************)
EXTENDS Integers, Sequences, FiniteSets, ImtTables

CONSTANTS
  MaxSlots,      \* MAX_MT_SLOTS
  Descriptors    \* the descriptors (item sequences) a device may present

Kinds == {"collection", "endcollection", "input", "feature", "output"}

\* struct hid_item, as far as wmt_hid_parse reads it.
Items ==
  [kind : Kinds, level : Nat, usage : STRING, rid : 0 .. 255, abs : BOOLEAN,
   lmin : Int, lmax : Int, pos : Nat, size : Nat, count : Nat]

ASSUME MaxSlotsAssumption == MaxSlots \in Nat \ {0}
ASSUME DescriptorsAssumption == Descriptors \subseteq Seq(Items)

NoLoc == 0

VARIABLES
  desc,             \* the descriptor being parsed
  probe,            \* sc == NULL
  pc,               \* "feature" or "input" (the loop running), or "done"
  i,                \* position in desc where hid_get_item resumes
  cont,             \* finger collections closed so far
  type,             \* HUD_TOUCHSCREEN, HUD_TOUCHPAD or 0
  caps,             \* the channels found, as a set
  cont_count_max,   \* logical maximum of Contact Count Maximum
  report_id,        \* the input report the fields are pinned to
  cont_max_rid, thqa_cert_rid, input_mode_rid,
  touch_coll, finger_coll, conf_coll,
  cont_count_found, scan_time_found,
  sc,               \* the softc fields wmt_hid_parse writes
  ret               \* the return value once pc = "done"

vars == <<desc, probe, pc, i, cont, type, caps, cont_count_max, report_id,
          cont_max_rid, thqa_cert_rid, input_mode_rid, touch_coll,
          finger_coll, conf_coll, cont_count_found, scan_time_found, sc, ret>>

\* The zeroed softc of a device being attached.
ScInit ==
  [locs |-> [c \in 0 .. MaxSlots - 1 |-> [u \in Usages |-> NoLoc]],
   ai |-> [u \in Usages |-> [min |-> 0, max |-> 0]],
   cont_count_loc |-> NoLoc, cont_max_loc |-> NoLoc, input_mode_loc |-> NoLoc,
   isize |-> 0, cont_max_rlen |-> 0, thqa_cert_rlen |-> 0, input_mode_rlen |-> 0,
   report_id |-> 0, caps |-> {}, nconts_per_report |-> 0,
   cont_max_rid |-> 0, thqa_cert_rid |-> 0, input_mode_rid |-> 0]

-----------------------------------------------------------------------------
(* wmt_hid_report_size(): the bytes spanned by the items of kind k and     *)
(* report id id, 0 when there is none.  lpos starts at 0xFFFFFFFF, above   *)
(* every position, and hpos at 0, so no match gives lpos > hpos.           *)
ReportSize(d, k, id) ==
  LET M    == {j \in 1 .. Len(d) : d[j].kind = k /\ d[j].rid = id}
      ends == {d[j].pos + d[j].size * d[j].count : j \in M}
      poss == {d[j].pos : j \in M}
      lpos == CHOOSE p \in poss : \A q \in poss : p <= q
      hpos == CHOOSE e \in ends : \A f \in ends : f <= e
  IN IF M = {} THEN 0
     ELSE IF lpos > hpos THEN 0 ELSE (hpos - lpos + 7) \div 8

\* hid_get_item with the kind mask of a pass over kind k: the position of
\* the first item at or after position p that the pass sees (collections,
\* ends of collections and data items of kind k), Len(d) + 1 when none is
\* left.
Seen(d, k, j) == d[j].kind \in {"collection", "endcollection", k}

NextSeen(d, k, p) ==
  LET S == {j \in p .. Len(d) : Seen(d, k, j)}
  IN IF S = {} THEN Len(d) + 1 ELSE CHOOSE j \in S : \A m \in S : j <= m

\* The size of a location stored in the softc.
LocSize(l) == IF l = NoLoc THEN 0 ELSE desc[l].size

\* The channels whose wmt_hid_map usage is u (X and Y have two).
Matching(u) == {ch \in Usages : wmt_hid_map[ch].usage = u}

-----------------------------------------------------------------------------
(* Pass 1: the loop over the feature items.                                *)

\* case hid_endcollection: the break before the conf_coll test makes that
\* test unreachable, so only touch_coll is ever cleared.
FeatureEndColl(it) ==
  /\ touch_coll' = (touch_coll /\ it.level # 0)
  /\ UNCHANGED conf_coll

\* Contact Count Maximum: absolute, at level 1 of the touch collection.
IsContactMax(it) ==
  it.level = 1 /\ touch_coll /\ it.abs /\ it.usage = "CONTACT_MAX"

\* Input Mode: absolute, anywhere while conf_coll is set.
IsInputMode(it) == conf_coll /\ it.abs /\ it.usage = "INPUT_MODE"

FeatureData(j, it) ==
  IF it.level = 1 /\ touch_coll /\ it.usage = "THQA_CERT"
  THEN /\ thqa_cert_rid' = it.rid
       /\ UNCHANGED <<cont_count_max, cont_max_rid, input_mode_rid, sc>>
  ELSE /\ cont_count_max' = IF IsContactMax(it) THEN it.lmax ELSE cont_count_max
       /\ cont_max_rid' = IF IsContactMax(it) THEN it.rid ELSE cont_max_rid
       /\ input_mode_rid' = IF IsInputMode(it) THEN it.rid ELSE input_mode_rid
       /\ sc' = IF probe THEN sc
                ELSE [sc EXCEPT
                  !.cont_max_loc = IF IsContactMax(it) THEN j ELSE @,
                  !.input_mode_loc = IF IsInputMode(it) THEN j ELSE @]
       /\ UNCHANGED thqa_cert_rid

FeatureItem ==
  /\ pc = "feature"
  /\ NextSeen(desc, "feature", i) <= Len(desc)
  /\ LET j  == NextSeen(desc, "feature", i)
         it == desc[j]
     IN CASE it.kind = "collection" ->
               /\ touch_coll' = (touch_coll \/ (it.level = 1 /\
                                  it.usage \in {"TOUCHSCREEN", "TOUCHPAD"}))
               /\ conf_coll' = (conf_coll \/ (it.level = 1 /\ it.usage = "CONFIG"))
               /\ UNCHANGED <<cont_count_max, cont_max_rid, thqa_cert_rid,
                              input_mode_rid, sc>>
          [] it.kind = "endcollection" ->
               /\ FeatureEndColl(it)
               /\ UNCHANGED <<cont_count_max, cont_max_rid, thqa_cert_rid,
                              input_mode_rid, sc>>
          [] OTHER ->
               /\ FeatureData(j, it)
               /\ UNCHANGED <<touch_coll, conf_coll>>
  /\ i' = NextSeen(desc, "feature", i) + 1
  /\ UNCHANGED <<desc, probe, pc, cont, type, caps, report_id, finger_coll,
                 cont_count_found, scan_time_found, ret>>

\* After pass 1: no Contact Count Maximum means no multi-touch device.
FeatureEnd ==
  /\ pc = "feature"
  /\ NextSeen(desc, "feature", i) > Len(desc)
  /\ IF cont_max_rid = 0
     THEN /\ pc' = "done"
          /\ ret' = 0
          /\ UNCHANGED <<i, touch_coll>>
     ELSE /\ pc' = "input"
          /\ i' = 1
          /\ touch_coll' = FALSE
          /\ UNCHANGED ret
  /\ UNCHANGED <<desc, probe, cont, type, caps, cont_count_max, report_id,
                 cont_max_rid, thqa_cert_rid, input_mode_rid, finger_coll,
                 conf_coll, cont_count_found, scan_time_found, sc>>

-----------------------------------------------------------------------------
(* Pass 2: the loop over the input items.                                  *)

InputColl(it) ==
  LET isTS == it.level = 1 /\ it.usage = "TOUCHSCREEN"
      isTP == it.level = 1 /\ it.usage = "TOUCHPAD"
      isFinger == /\ ~isTP /\ touch_coll /\ it.level = 2
                  /\ (report_id = 0 \/ report_id = it.rid)
                  /\ it.usage = "FINGER"
  IN /\ touch_coll' = (touch_coll \/ isTS \/ isTP)
     /\ type' = IF isTP THEN HUD_TOUCHPAD ELSE IF isTS THEN HUD_TOUCHSCREEN ELSE type
     /\ finger_coll' = (finger_coll \/ isFinger)
     /\ UNCHANGED <<cont, report_id, cont_count_found, scan_time_found, caps, sc>>

\* The close of a finger collection (back at level 1) counts a contact.
ClosesFinger(it) == it.level = 1 /\ finger_coll

InputEndColl(it) ==
  /\ IF ClosesFinger(it)
     THEN /\ finger_coll' = FALSE
          /\ cont' = cont + 1
          /\ UNCHANGED touch_coll
     ELSE /\ touch_coll' = (touch_coll /\ it.level # 0)
          /\ UNCHANGED <<finger_coll, cont>>
  /\ UNCHANGED <<type, report_id, cont_count_found, scan_time_found, caps, sc>>

\* The item belongs to the touch collection and to the pinned report.
Pinned(it) == it.abs /\ touch_coll /\ (report_id = 0 \/ report_id = it.rid)

\* Faulty variant of BindChannel: the axis ranges are taken from every
\* finger, not only the first.
BindChannelAllAxes(j, it) ==
  LET taken(ch) == IF probe THEN ch \in caps ELSE LocSize(sc.locs[cont][ch]) # 0
      free      == {ch \in Matching(it.usage) : ~taken(ch)}
      ch        == CHOOSE x \in free : \A y \in free : x <= y
  IN IF free = {} THEN UNCHANGED <<caps, sc>>
     ELSE IF probe THEN /\ caps' = caps \cup {ch}
                        /\ UNCHANGED sc
     ELSE /\ caps' = IF cont = 0 THEN caps \cup {ch} ELSE caps
          /\ sc' = [sc EXCEPT
                      !.locs[cont][ch] = j,
                      !.ai[ch] = [min |-> it.lmin, max |-> it.lmax]]

\* The inner for loop: the first channel with the item's usage not bound
\* yet (in the probe: not in caps; in the attach: no location for cont).
BindChannel(j, it) ==
  LET taken(ch) == IF probe THEN ch \in caps ELSE LocSize(sc.locs[cont][ch]) # 0
      free      == {ch \in Matching(it.usage) : ~taken(ch)}
      ch        == CHOOSE x \in free : \A y \in free : x <= y
  IN IF free = {} THEN UNCHANGED <<caps, sc>>
     ELSE IF probe THEN /\ caps' = caps \cup {ch}
                        /\ UNCHANGED sc
     ELSE /\ caps' = IF cont = 0 THEN caps \cup {ch} ELSE caps
          /\ sc' = [sc EXCEPT
                      !.locs[cont][ch] = j,
                      !.ai[ch] = IF cont = 0
                                 THEN [min |-> it.lmin, max |-> it.lmax]
                                 ELSE sc.ai[ch]]

\* The if ... break chain of case hid_input (lines 694-761), in its order.
InputData(j, it) ==
  IF ~Pinned(it)
  THEN UNCHANGED <<report_id, cont_count_found, scan_time_found, caps, sc>>
  ELSE /\ report_id' = it.rid
       /\ IF it.level = 1 /\ it.usage = "CONTACTCOUNT"
          THEN /\ cont_count_found' = TRUE
               /\ sc' = IF probe THEN sc ELSE [sc EXCEPT !.cont_count_loc = j]
               /\ UNCHANGED <<scan_time_found, caps>>
          ELSE IF it.level = 1 /\ it.usage = "SCAN_TIME"
          THEN /\ scan_time_found' = TRUE
               /\ UNCHANGED <<cont_count_found, caps, sc>>
          ELSE IF \/ ~finger_coll \/ it.level # 2 \/ (probe /\ cont > 0)
                  \/ cont >= MaxSlots
          THEN UNCHANGED <<cont_count_found, scan_time_found, caps, sc>>
          ELSE /\ BindChannel(j, it)
               /\ UNCHANGED <<cont_count_found, scan_time_found>>

InputItem ==
  /\ pc = "input"
  /\ NextSeen(desc, "input", i) <= Len(desc)
  /\ LET j  == NextSeen(desc, "input", i)
         it == desc[j]
     IN CASE it.kind = "collection" -> InputColl(it)
          [] it.kind = "endcollection" -> InputEndColl(it)
          [] OTHER ->
               /\ InputData(j, it)
               /\ UNCHANGED <<type, touch_coll, finger_coll, cont>>
  /\ i' = NextSeen(desc, "input", i) + 1
  /\ UNCHANGED <<desc, probe, pc, cont_count_max, cont_max_rid, thqa_cert_rid,
                 input_mode_rid, conf_coll, ret>>

-----------------------------------------------------------------------------
(* After pass 2: validation, then (attach only) the profile.              *)

Rejected ==
  \/ ~cont_count_found \/ ~scan_time_found \/ cont = 0
  \/ ~(RequiredUsages \subseteq caps)

\* Faulty variant of SlotCount: the cap to MAX_MT_SLOTS is left out.
SlotCountUncapped == IF cont_count_max < 1 THEN cont ELSE cont_count_max

\* Contact Count Maximum defaults to the fingers found, capped to the slots.
SlotCount ==
  LET n == IF cont_count_max < 1 THEN cont ELSE cont_count_max
  IN IF n > MaxSlots THEN MaxSlots ELSE n

\* Orientation is synthesised when both width and height are present.
HasOrientation == {WMT_WIDTH, WMT_HEIGHT} \subseteq caps

FinalCaps == IF HasOrientation THEN caps \cup {WMT_ORIENTATION} ELSE caps

Profile ==
  [sc EXCEPT
     !.ai = [sc.ai EXCEPT
               ![WMT_SLOT] = [min |-> 0, max |-> SlotCount - 1],
               ![WMT_ORIENTATION] =
                 IF HasOrientation THEN [sc.ai[WMT_ORIENTATION] EXCEPT !.max = 1]
                 ELSE sc.ai[WMT_ORIENTATION]],
     !.isize = ReportSize(desc, "input", report_id),
     !.cont_max_rlen = ReportSize(desc, "feature", cont_max_rid),
     !.thqa_cert_rlen = IF thqa_cert_rid > 0
                        THEN ReportSize(desc, "feature", thqa_cert_rid) ELSE @,
     !.input_mode_rlen = IF input_mode_rid > 0
                         THEN ReportSize(desc, "feature", input_mode_rid) ELSE @,
     !.report_id = report_id,
     !.caps = FinalCaps,
     !.nconts_per_report = cont,
     !.cont_max_rid = cont_max_rid,
     !.thqa_cert_rid = thqa_cert_rid,
     !.input_mode_rid = input_mode_rid]

InputEnd ==
  /\ pc = "input"
  /\ NextSeen(desc, "input", i) > Len(desc)
  /\ pc' = "done"
  /\ IF Rejected
     THEN /\ ret' = 0
          /\ UNCHANGED <<caps, cont_count_max, sc>>
     ELSE IF probe
     THEN /\ ret' = type
          /\ UNCHANGED <<caps, cont_count_max, sc>>
     ELSE /\ ret' = type
          /\ cont_count_max' = SlotCount
          /\ caps' = FinalCaps
          /\ sc' = Profile
  /\ UNCHANGED <<desc, probe, i, cont, type, report_id, cont_max_rid,
                 thqa_cert_rid, input_mode_rid, touch_coll, finger_coll,
                 conf_coll, cont_count_found, scan_time_found>>

-----------------------------------------------------------------------------
Init ==
  /\ desc \in Descriptors
  /\ probe \in BOOLEAN
  /\ pc = "feature"
  /\ i = 1
  /\ cont = 0
  /\ type = 0
  /\ caps = {}
  /\ cont_count_max = 0
  /\ report_id = 0
  /\ cont_max_rid = 0 /\ thqa_cert_rid = 0 /\ input_mode_rid = 0
  /\ touch_coll = FALSE /\ finger_coll = FALSE /\ conf_coll = FALSE
  /\ cont_count_found = FALSE /\ scan_time_found = FALSE
  /\ sc = ScInit
  /\ ret = 0

Next == FeatureItem \/ FeatureEnd \/ InputItem \/ InputEnd

\* wmt_hid_parse returns: the behaviour stops in pc = "done".
Spec == Init /\ [][Next]_vars

-----------------------------------------------------------------------------
(* Properties.                                                             *)

Accepted == pc = "done" /\ ret # 0 /\ ~probe

\* The item index of every location of the profile.
ProfileLocs ==
  {sc.locs[c][u] : c \in 0 .. MaxSlots - 1, u \in Usages} \ {NoLoc}

TypeOK ==
  /\ desc \in Seq(Items)
  /\ probe \in BOOLEAN
  /\ pc \in {"feature", "input", "done"}
  /\ i \in 1 .. Len(desc) + 1
  /\ cont \in Nat
  /\ type \in {0, HUD_TOUCHSCREEN, HUD_TOUCHPAD}
  /\ caps \subseteq Usages
  /\ cont_count_max \in Int
  /\ report_id \in 0 .. 255
  /\ {cont_max_rid, thqa_cert_rid, input_mode_rid} \subseteq 0 .. 255
  /\ {touch_coll, finger_coll, conf_coll, cont_count_found,
      scan_time_found} \subseteq BOOLEAN
  /\ sc.locs \in [0 .. MaxSlots - 1 -> [Usages -> 0 .. Len(desc)]]
  /\ {sc.cont_count_loc, sc.cont_max_loc, sc.input_mode_loc} \subseteq 0 .. Len(desc)

(* A profile imt_attach accepts is one imt_intr can run on: every         *)
(* required channel has a location for the first contact, the Contact    *)
(* Count field was found, at least one finger collection was enclosed,   *)
(* and the evdev slot range 0 .. ai[WMT_SLOT].max is non-empty and fits  *)
(* MAX_MT_SLOTS whatever Contact Count Maximum the descriptor declares.  *)
AcceptedProfileUsable ==
  Accepted =>
    /\ \A u \in RequiredUsages : LocSize(sc.locs[0][u]) > 0
    /\ sc.cont_count_loc # NoLoc
    /\ sc.nconts_per_report >= 1
    /\ sc.ai[WMT_SLOT].max \in 0 .. MaxSlots - 1

(* wmt_hid_parse, the channel binding loop: a channel is in caps exactly  *)
(* when the first contact has a location for it (orientation aside), and *)
(* its axis range is the logical range of that very item: the axis ranges *)
(* are taken from the first finger only, never from a later finger, and  *)
(* the second channel of a shared usage (TOOL_X, TOOL_Y) binds to the    *)
(* next item of that usage.                                               *)
AxesFromFirstContact ==
  Accepted =>
    \A u \in Usages \ {WMT_ORIENTATION} :
      /\ (u \in sc.caps) <=> (sc.locs[0][u] # NoLoc)
      /\ (u \in sc.caps /\ u # WMT_SLOT) =>
           sc.ai[u] = [min |-> desc[sc.locs[0][u]].lmin,
                       max |-> desc[sc.locs[0][u]].lmax]

(* Spec section 4.3: all fields the decoder reads are co-resident in one  *)
(* input report, the one imt_intr accepts (sc->report_id).               *)
FieldsCoResident ==
  Accepted =>
    \A l \in ProfileLocs \cup {sc.cont_count_loc} : desc[l].rid = sc.report_id

(* imt_intr indexes sc->locs[cont] for cont < nconts_per_report, and      *)
(* sc->locs has MAX_MT_SLOTS rows: the profile must not announce more     *)
(* contacts per report than the table holds.                              *)
NContsWithinTable ==
  Accepted => sc.nconts_per_report <= MaxSlots

\* The item index of the level-1 collection enclosing item j, 0 if none.
EnclosingTop(d, j) ==
  LET opens == {k \in 1 .. j - 1 : d[k].kind = "collection" /\ d[k].level = 1}
      k     == CHOOSE x \in opens : \A y \in opens : y <= x
  IN IF opens = {} THEN 0
     ELSE IF \E m \in k + 1 .. j - 1 : d[m].kind = "endcollection" /\ d[m].level = 0
          THEN 0 ELSE k

(* Spec section 4.2: the Input Mode location is taken only from inside   *)
(* the configuration collection (conf_coll set and cleared symmetrically *)
(* by pass 1).                                                            *)
InputModeInConfig ==
  sc.input_mode_loc # NoLoc =>
    LET k == EnclosingTop(desc, sc.input_mode_loc)
    IN k # 0 /\ desc[k].usage = "CONFIG"
=============================================================================
