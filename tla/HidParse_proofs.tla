--------------------------- MODULE HidParse_proofs ---------------------------
(***************************************************************************)
(* Proofs about wmt_hid_parse, for every MAX_MT_SLOTS and every set of    *)
(* descriptors whose items are well formed (the assumptions of HidParse): *)
(* the type invariant, that a profile imt_attach accepts carries the      *)
(* channel ranges of its first contact, and that it is usable by imt_intr *)
(* (its data items of non-zero size).                                     *)
(***************************************************************************)
EXTENDS HidParse, WellFoundedInduction, TLAPS

\* The attach pass writes locations and ranges of the first contact
\* together with the caps bit (lines 742-755): for every channel but the
\* synthesised orientation, the bit is set exactly when contact 0 has a
\* location, and the range is that location's logical range.
FirstContactBound ==
  ~probe =>
    \A u \in Usages \ {WMT_ORIENTATION} :
      /\ (u \in caps) <=> (sc.locs[0][u] # NoLoc)
      /\ (u \in caps /\ u # WMT_SLOT) =>
           sc.ai[u] = [min |-> desc[sc.locs[0][u]].lmin,
                       max |-> desc[sc.locs[0][u]].lmax]

\* The attach pass copies only the locations of input items (the second
\* loop runs over hid_input): every location of the slot table and the
\* Contact Count location is NoLoc or the index of an input item.
LocsAreInputs ==
  /\ \A c \in 0 .. MaxSlots - 1, u \in Usages :
       sc.locs[c][u] # NoLoc => desc[sc.locs[c][u]].kind = "input"
  /\ sc.cont_count_loc # NoLoc => desc[sc.cont_count_loc].kind = "input"

\* What the return of a non-zero type from the attach call established
\* (lines 768-821): the checks passed and the profile was written.
AcceptedWritten ==
  Accepted =>
    /\ sc.caps = caps
    /\ RequiredUsages \subseteq caps
    /\ cont_count_found
    /\ sc.nconts_per_report >= 1
    /\ sc.ai[WMT_SLOT].max \in 0 .. MaxSlots - 1

\* The inductive invariant of the parser.
PInv ==
  /\ TypeOK
  /\ DOMAIN sc = DOMAIN ScInit
  /\ sc.ai \in [Usages -> [min : Int, max : Int]]
  /\ (~probe /\ cont_count_found) => sc.cont_count_loc # NoLoc
  /\ LocsAreInputs
  /\ FirstContactBound
  /\ AcceptedWritten

-----------------------------------------------------------------------------
(* Lemmas about the operators of the model.                               *)

\* A non-empty set of naturals has a least element.
LEMMA NatMinExists ==
  ASSUME NEW T, T \subseteq Nat, T # {}
  PROVE  \E x \in T : \A y \in T : x <= y
<1>1. \E x \in T : \A y \in T : ~(<<y, x>> \in OpToRel(<, Nat))
  BY NatLessThanWellFounded, WFMin
<1>2. ASSUME NEW x \in T, NEW y \in T, ~(<<y, x>> \in OpToRel(<, Nat))
      PROVE  x <= y
  <2>1. <<y, x>> \in Nat \X Nat
    OBVIOUS
  <2>2. ~(y < x)
    BY <1>2, <2>1, Zenon DEF OpToRel
  <2>. QED  BY <2>2
<1>. QED  BY <1>1, <1>2

\* hid_get_item resumes at or after the cursor and, when it returns an
\* item, the item is one the pass sees.
LEMMA NextSeenRange ==
  ASSUME NEW d \in Seq(Items), NEW k, NEW p \in 1 .. Len(d) + 1
  PROVE  /\ NextSeen(d, k, p) \in p .. Len(d) + 1
         /\ NextSeen(d, k, p) <= Len(d) => Seen(d, k, NextSeen(d, k, p))
<1> DEFINE S == {j \in p .. Len(d) : Seen(d, k, j)}
<1>1. CASE S = {}
  BY <1>1 DEF NextSeen
<1>2. CASE S # {}
  <2>0. S \subseteq Nat
    OBVIOUS
  <2>1. \E x \in S : \A y \in S : x <= y
    BY <1>2, <2>0, NatMinExists
  <2>2. NextSeen(d, k, p) \in S
    BY <1>2, <2>1 DEF NextSeen
  <2>. QED  BY <2>2
<1>. QED  BY <1>1, <1>2

-----------------------------------------------------------------------------
(* PInv is an inductive invariant of Spec.                                 *)

LEMMA InitPInv == Init => PInv
<1> SUFFICES ASSUME Init PROVE PInv
  OBVIOUS
<1>1. desc \in Seq(Items)
  BY DescriptorsAssumption DEF Init
<1>2. TypeOK
  <2>1. /\ probe \in BOOLEAN /\ pc \in {"feature", "input", "done"}
        /\ type \in {0, HUD_TOUCHSCREEN, HUD_TOUCHPAD} /\ caps \subseteq Usages
    BY DEF Init
  <2>4. cont_count_max \in Int /\ report_id \in 0 .. 255 /\ cont \in Nat
    BY DEF Init
  <2>5. {cont_max_rid, thqa_cert_rid, input_mode_rid} \subseteq 0 .. 255
    BY DEF Init
  <2>6. {touch_coll, finger_coll, conf_coll, cont_count_found,
         scan_time_found} \subseteq BOOLEAN
    BY DEF Init
  <2>7. i \in 1 .. Len(desc) + 1
    BY <1>1 DEF Init
  <2>2. sc.locs \in [0 .. MaxSlots - 1 -> [Usages -> 0 .. Len(desc)]]
    BY <1>1 DEF Init, ScInit, NoLoc
  <2>3. {sc.cont_count_loc, sc.cont_max_loc, sc.input_mode_loc}
          \subseteq 0 .. Len(desc)
    BY <1>1 DEF Init, ScInit, NoLoc
  <2>. QED  BY <1>1, <2>1, <2>2, <2>3, <2>4, <2>5, <2>6, <2>7 DEF TypeOK
<1>3. sc.ai \in [Usages -> [min : Int, max : Int]] /\ DOMAIN sc = DOMAIN ScInit
  BY DEF Init, ScInit
<1>4. LocsAreInputs /\ FirstContactBound /\ AcceptedWritten
  BY MaxSlotsAssumption
  DEF Init, ScInit, NoLoc, LocsAreInputs, FirstContactBound, AcceptedWritten,
      Accepted
<1>. QED  BY <1>2, <1>3, <1>4 DEF Init, ScInit, PInv

\* The parts of PInv about variables that a step leaves alone carry over.
LEMMA PInvFrame ==
  ASSUME PInv,
         UNCHANGED <<desc, probe, pc, caps, ret, cont_count_found>>,
         sc'.locs = sc.locs, sc'.ai = sc.ai,
         sc'.cont_count_loc = sc.cont_count_loc, sc'.caps = sc.caps,
         sc'.nconts_per_report = sc.nconts_per_report
  PROVE  /\ LocsAreInputs' /\ FirstContactBound' /\ AcceptedWritten'
         /\ ((~probe /\ cont_count_found) => sc.cont_count_loc # NoLoc)'
  BY DEF PInv, LocsAreInputs, FirstContactBound, AcceptedWritten, Accepted

\* One iteration of the feature loop (lines 614-658).
LEMMA FeatureItemPInv ==
  ASSUME PInv, FeatureItem
  PROVE  PInv'
<1> DEFINE j == NextSeen(desc, "feature", i)
           it == desc[j]
<1>1. desc \in Seq(Items) /\ i \in 1 .. Len(desc) + 1
  BY DEF PInv, TypeOK
<1>2. j \in 1 .. Len(desc) /\ it \in Items
  BY <1>1, NextSeenRange DEF FeatureItem
<1>3. /\ i' = j + 1
      /\ UNCHANGED <<desc, probe, pc, cont, type, caps, report_id, finger_coll,
                     cont_count_found, scan_time_found, ret>>
  BY DEF FeatureItem
<1>4. /\ touch_coll' \in BOOLEAN /\ conf_coll' \in BOOLEAN
      /\ cont_count_max' \in Int
      /\ {cont_max_rid', thqa_cert_rid', input_mode_rid'} \subseteq 0 .. 255
      /\ DOMAIN sc' = DOMAIN sc
      /\ sc'.locs = sc.locs /\ sc'.ai = sc.ai
      /\ sc'.cont_count_loc = sc.cont_count_loc /\ sc'.caps = sc.caps
      /\ sc'.nconts_per_report = sc.nconts_per_report
      /\ {sc'.cont_max_loc, sc'.input_mode_loc} \subseteq 0 .. Len(desc)
  <2>0. /\ {touch_coll, conf_coll} \subseteq BOOLEAN /\ cont_count_max \in Int
        /\ {cont_max_rid, thqa_cert_rid, input_mode_rid} \subseteq 0 .. 255
        /\ DOMAIN sc = DOMAIN ScInit
        /\ {sc.cont_max_loc, sc.input_mode_loc} \subseteq 0 .. Len(desc)
    BY DEF PInv, TypeOK
  <2>a. it.rid \in 0 .. 255 /\ it.lmax \in Int
    BY <1>2 DEF Items
  <2>1. CASE it.kind = "collection"
    BY <2>0, <2>1 DEF FeatureItem
  <2>2. CASE it.kind = "endcollection"
    BY <2>0, <2>2 DEF FeatureItem, FeatureEndColl
  <2>3. CASE it.kind \notin {"collection", "endcollection"}
    <3>1. FeatureData(j, it) /\ UNCHANGED <<touch_coll, conf_coll>>
      BY <2>3 DEF FeatureItem
    <3>2. CASE it.level = 1 /\ touch_coll /\ it.usage = "THQA_CERT"
      <4>1. /\ thqa_cert_rid' = it.rid
            /\ UNCHANGED <<cont_count_max, cont_max_rid, input_mode_rid, sc>>
        BY <3>1, <3>2 DEF FeatureData
      <4>. QED  BY <2>0, <2>a, <3>1, <4>1
    <3>3. CASE ~(it.level = 1 /\ touch_coll /\ it.usage = "THQA_CERT") /\ probe
      <4>1. /\ cont_count_max' \in {it.lmax, cont_count_max}
            /\ cont_max_rid' \in {it.rid, cont_max_rid}
            /\ input_mode_rid' \in {it.rid, input_mode_rid}
            /\ UNCHANGED <<thqa_cert_rid, sc>>
        BY <3>1, <3>3 DEF FeatureData
      <4>2. /\ cont_count_max' \in Int
            /\ {cont_max_rid', input_mode_rid'} \subseteq 0 .. 255
        BY <2>0, <2>a, <4>1
      <4>3. /\ touch_coll' = touch_coll /\ conf_coll' = conf_coll
            /\ thqa_cert_rid' = thqa_cert_rid /\ sc' = sc
        BY <3>1, <4>1
      <4>. QED  BY <2>0, <4>2, <4>3
    <3>4. CASE ~(it.level = 1 /\ touch_coll /\ it.usage = "THQA_CERT") /\ ~probe
      <4>1. sc' = [sc EXCEPT
                     !.cont_max_loc = IF IsContactMax(it) THEN j ELSE @,
                     !.input_mode_loc = IF IsInputMode(it) THEN j ELSE @]
        BY <3>1, <3>4 DEF FeatureData
      <4>2. /\ cont_count_max' \in Int
            /\ {cont_max_rid', thqa_cert_rid', input_mode_rid'} \subseteq 0 .. 255
            /\ UNCHANGED <<touch_coll, conf_coll>>
        BY <2>0, <2>a, <3>1, <3>4 DEF FeatureData
      <4>3. /\ DOMAIN sc' = DOMAIN sc
            /\ sc'.locs = sc.locs /\ sc'.ai = sc.ai
            /\ sc'.cont_count_loc = sc.cont_count_loc /\ sc'.caps = sc.caps
            /\ sc'.nconts_per_report = sc.nconts_per_report
            /\ {sc'.cont_max_loc, sc'.input_mode_loc} \subseteq 0 .. Len(desc)
        BY <1>2, <2>0, <4>1 DEF ScInit
      <4>. QED  BY <2>0, <4>2, <4>3
    <3>. QED  BY <3>2, <3>3, <3>4
  <2>. QED  BY <2>1, <2>2, <2>3
<1>5. TypeOK'
  BY <1>1, <1>2, <1>3, <1>4 DEF PInv, TypeOK
<1>6. DOMAIN sc' = DOMAIN ScInit /\ sc'.ai \in [Usages -> [min : Int, max : Int]]
  BY <1>4 DEF PInv
<1>7. /\ LocsAreInputs' /\ FirstContactBound' /\ AcceptedWritten'
      /\ ((~probe /\ cont_count_found) => sc.cont_count_loc # NoLoc)'
  BY <1>3, <1>4, PInvFrame
<1>. QED  BY <1>5, <1>6, <1>7 DEF PInv

\* Between the loops (lines 659-665).
LEMMA FeatureEndPInv ==
  ASSUME PInv, FeatureEnd
  PROVE  PInv'
<1>1. desc \in Seq(Items) /\ Len(desc) \in Nat
  BY DEF PInv, TypeOK
<1>2. /\ pc' \in {"done", "input"} /\ (pc' = "done" => ret' = 0)
      /\ i' \in 1 .. Len(desc) + 1 /\ touch_coll' \in BOOLEAN
      /\ UNCHANGED <<desc, probe, cont, type, caps, cont_count_max, report_id,
                     cont_max_rid, thqa_cert_rid, input_mode_rid, finger_coll,
                     conf_coll, cont_count_found, scan_time_found, sc>>
  <2>0. i \in 1 .. Len(desc) + 1 /\ touch_coll \in BOOLEAN /\ Len(desc) \in Nat
    BY <1>1 DEF PInv, TypeOK
  <2>1. UNCHANGED <<desc, probe, cont, type, caps, cont_count_max, report_id,
                   cont_max_rid, thqa_cert_rid, input_mode_rid, finger_coll,
                   conf_coll, cont_count_found, scan_time_found, sc>>
    BY DEF FeatureEnd
  <2>2. CASE cont_max_rid = 0
    BY <2>0, <2>1, <2>2 DEF FeatureEnd
  <2>3. CASE cont_max_rid # 0
    <3>1. pc' = "input" /\ i' = 1 /\ touch_coll' = FALSE
      BY <2>3 DEF FeatureEnd
    <3>2. 1 \in 1 .. Len(desc) + 1
      BY <2>0
    <3>. QED  BY <2>1, <3>1, <3>2
  <2>. QED  BY <2>2, <2>3
<1>3. TypeOK'
  BY <1>2 DEF PInv, TypeOK
<1>4. ~Accepted'
  BY <1>2 DEF Accepted
<1>. QED
  BY <1>2, <1>3, <1>4
  DEF PInv, LocsAreInputs, FirstContactBound, AcceptedWritten

\* The number of slots of an accepted profile (lines 785-790).
LEMMA SlotCountRange ==
  ASSUME cont \in Nat \ {0}, cont_count_max \in Int
  PROVE  SlotCount \in 1 .. MaxSlots
  BY MaxSlotsAssumption DEF SlotCount

\* The fields of the profile written after pass 2 (lines 792-821).
LEMMA ProfileFields ==
  ASSUME PInv
  PROVE  /\ DOMAIN Profile = DOMAIN sc
         /\ Profile.locs = sc.locs
         /\ Profile.cont_count_loc = sc.cont_count_loc
         /\ Profile.cont_max_loc = sc.cont_max_loc
         /\ Profile.input_mode_loc = sc.input_mode_loc
         /\ Profile.caps = FinalCaps
         /\ Profile.nconts_per_report = cont
         /\ Profile.ai =
              [sc.ai EXCEPT
                 ![WMT_SLOT] = [min |-> 0, max |-> SlotCount - 1],
                 ![WMT_ORIENTATION] =
                   IF HasOrientation THEN [sc.ai[WMT_ORIENTATION] EXCEPT !.max = 1]
                   ELSE sc.ai[WMT_ORIENTATION]]
  BY DEF PInv, ScInit, Profile

\* After pass 2: the checks and, when they pass, the profile (766-834).
LEMMA InputEndPInv ==
  ASSUME PInv, InputEnd
  PROVE  PInv'
<1>0. /\ pc' = "done"
      /\ UNCHANGED <<desc, probe, i, cont, type, report_id, cont_max_rid,
                     thqa_cert_rid, input_mode_rid, touch_coll, finger_coll,
                     conf_coll, cont_count_found, scan_time_found>>
  BY DEF InputEnd
<1>1. CASE Rejected \/ probe
  <2>1. /\ UNCHANGED <<caps, cont_count_max, sc>>
        /\ (ret' = 0 \/ probe)
    BY <1>1 DEF InputEnd
  <2>2. ~Accepted'
    BY <1>0, <2>1 DEF Accepted
  <2>3. TypeOK'
    BY <1>0, <2>1 DEF PInv, TypeOK
  <2>. QED
    BY <1>0, <2>1, <2>2, <2>3
    DEF PInv, LocsAreInputs, FirstContactBound, AcceptedWritten
<1>2. CASE ~Rejected /\ ~probe
  <2>1. /\ ret' = type /\ cont_count_max' = SlotCount /\ caps' = FinalCaps
        /\ sc' = Profile
    BY <1>2 DEF InputEnd
  <2>2. /\ cont \in Nat \ {0} /\ cont_count_found
        /\ RequiredUsages \subseteq caps
    BY <1>2 DEF Rejected, PInv, TypeOK
  <2>3. SlotCount \in 1 .. MaxSlots
    BY <2>2, SlotCountRange DEF PInv, TypeOK
  <2>4. /\ caps \subseteq FinalCaps /\ FinalCaps \subseteq Usages
        /\ \A u \in Usages \ {WMT_ORIENTATION} : u \in FinalCaps <=> u \in caps
    <3>1. caps \subseteq Usages
      BY DEF PInv, TypeOK
    <3>2. WMT_ORIENTATION \in Usages
      BY DEF Usages, WMT_ORIENTATION, WMT_N_USAGES
    <3>. QED  BY <3>1, <3>2 DEF FinalCaps
  <2>5. /\ sc'.ai \in [Usages -> [min : Int, max : Int]]
        /\ sc'.ai[WMT_SLOT].max = SlotCount - 1
        /\ \A u \in Usages \ {WMT_SLOT, WMT_ORIENTATION} : sc'.ai[u] = sc.ai[u]
    <3>1. sc.ai \in [Usages -> [min : Int, max : Int]]
      BY DEF PInv
    <3>. QED
      BY <2>1, <2>3, <3>1, ProfileFields
      DEF Usages, WMT_SLOT, WMT_TIP_SWITCH, WMT_ORIENTATION, WMT_N_USAGES
  <2>6. TypeOK'
    BY <1>0, <2>1, <2>3, <2>4, ProfileFields DEF PInv, TypeOK
  <2>7. DOMAIN sc' = DOMAIN ScInit
    BY <2>1, ProfileFields DEF PInv
  <2>8. (LocsAreInputs /\ ((~probe /\ cont_count_found) => sc.cont_count_loc # NoLoc))'
    BY <1>0, <2>1, ProfileFields DEF PInv, LocsAreInputs
  <2>9. FirstContactBound'
    BY <1>0, <2>1, <2>4, <2>5, ProfileFields DEF PInv, FirstContactBound
  <2>10. AcceptedWritten'
    <3>1. /\ sc'.caps = caps' /\ sc'.nconts_per_report = cont
      BY <2>1, ProfileFields
    <3>2. RequiredUsages \subseteq caps' /\ cont_count_found'
      BY <1>0, <2>1, <2>2, <2>4
    <3>3. sc'.ai[WMT_SLOT].max \in 0 .. MaxSlots - 1
      BY <2>3, <2>5, MaxSlotsAssumption
    <3>. QED  BY <2>2, <3>1, <3>2, <3>3 DEF AcceptedWritten
  <2>. QED  BY <2>5, <2>6, <2>7, <2>8, <2>9, <2>10 DEF PInv
<1>. QED  BY <1>1, <1>2

\* The inner for loop of the attach pass (lines 728-758) binds one
\* location of an input item, and its range when the contact is the first.
LEMMA BindChannelAttach ==
  ASSUME PInv, ~probe, NEW jj \in 1 .. Len(desc), desc[jj].kind = "input",
         desc[jj] \in Items, cont \in 0 .. MaxSlots - 1,
         BindChannel(jj, desc[jj])
  PROVE  /\ caps' \subseteq Usages
         /\ DOMAIN sc' = DOMAIN sc
         /\ sc'.ai \in [Usages -> [min : Int, max : Int]]
         /\ sc'.locs \in [0 .. MaxSlots - 1 -> [Usages -> 0 .. Len(desc)]]
         /\ sc'.cont_count_loc = sc.cont_count_loc
         /\ sc'.cont_max_loc = sc.cont_max_loc
         /\ sc'.input_mode_loc = sc.input_mode_loc
         /\ \A c \in 0 .. MaxSlots - 1, u \in Usages :
              sc'.locs[c][u] # NoLoc => desc[sc'.locs[c][u]].kind = "input"
         /\ \A u \in Usages \ {WMT_ORIENTATION} :
              /\ (u \in caps') <=> (sc'.locs[0][u] # NoLoc)
              /\ (u \in caps' /\ u # WMT_SLOT) =>
                   sc'.ai[u] = [min |-> desc[sc'.locs[0][u]].lmin,
                                max |-> desc[sc'.locs[0][u]].lmax]
<1> DEFINE it == desc[jj]
           taken(x) == IF probe THEN x \in caps
                       ELSE LocSize(sc.locs[cont][x]) # 0
           free == {x \in Matching(it.usage) : ~taken(x)}
           ch == CHOOSE x \in free : \A y \in free : x <= y
<1>0. /\ caps \subseteq Usages /\ DOMAIN sc = DOMAIN ScInit
      /\ sc.ai \in [Usages -> [min : Int, max : Int]]
      /\ sc.locs \in [0 .. MaxSlots - 1 -> [Usages -> 0 .. Len(desc)]]
      /\ LocsAreInputs /\ FirstContactBound
  BY DEF PInv, TypeOK
<1>1. CASE free = {}
  <2>1. UNCHANGED <<caps, sc>>
    BY <1>1 DEF BindChannel
  <2>. QED  BY <1>0, <2>1 DEF LocsAreInputs, FirstContactBound
<1>2. CASE free # {}
  <2>1. ch \in free
    <3>1. free \subseteq Nat
      BY DEF Matching, Usages, WMT_N_USAGES
    <3>2. \E x \in free : \A y \in free : x <= y
      BY <1>2, <3>1, NatMinExists
    <3>. QED  BY <3>2
  <2>2. ch \in Usages
    BY <2>1 DEF Matching
  <2>a. caps' = IF cont = 0 THEN caps \cup {ch} ELSE caps
    BY <1>2 DEF BindChannel
  <2>3. sc' = [sc EXCEPT
                    !.locs[cont][ch] = jj,
                    !.ai[ch] = IF cont = 0
                               THEN [min |-> it.lmin, max |-> it.lmax]
                               ELSE sc.ai[ch]]
    BY <1>2 DEF BindChannel
  <2>4. /\ DOMAIN sc' = DOMAIN sc
        /\ sc'.locs = [sc.locs EXCEPT ![cont][ch] = jj]
        /\ sc'.ai = [sc.ai EXCEPT ![ch] = IF cont = 0
                                      THEN [min |-> it.lmin, max |-> it.lmax]
                                      ELSE sc.ai[ch]]
        /\ sc'.cont_count_loc = sc.cont_count_loc
        /\ sc'.cont_max_loc = sc.cont_max_loc
        /\ sc'.input_mode_loc = sc.input_mode_loc
    BY <1>0, <2>3 DEF ScInit
  <2> HIDE DEF ch, free, taken
  <2>5. it.lmin \in Int /\ it.lmax \in Int
    BY DEF Items
  <2>6. /\ caps' \subseteq Usages
        /\ sc'.ai \in [Usages -> [min : Int, max : Int]]
        /\ sc'.locs \in [0 .. MaxSlots - 1 -> [Usages -> 0 .. Len(desc)]]
    <3>1. caps' \subseteq Usages
      BY <1>0, <2>2, <2>a
    <3>2. sc'.ai \in [Usages -> [min : Int, max : Int]]
      BY <1>0, <2>2, <2>4, <2>5
    <3>3. jj \in 0 .. Len(desc)
      OBVIOUS
    <3>4. sc'.locs \in [0 .. MaxSlots - 1 -> [Usages -> 0 .. Len(desc)]]
      <4>1. PICK f \in [0 .. MaxSlots - 1 -> [Usages -> 0 .. Len(desc)]] :
              f = sc.locs
        BY <1>0
      <4>2. PICK c \in 0 .. MaxSlots - 1 : c = cont
        OBVIOUS
      <4>3. [f EXCEPT ![c][ch] = jj]
              \in [0 .. MaxSlots - 1 -> [Usages -> 0 .. Len(desc)]]
        BY <2>2, <3>3
      <4>. QED  BY <2>4, <4>1, <4>2, <4>3
    <3>. QED  BY <3>1, <3>2, <3>4
  <2>7. \A c \in 0 .. MaxSlots - 1, u \in Usages :
          sc'.locs[c][u] # NoLoc => desc[sc'.locs[c][u]].kind = "input"
    BY <1>0, <2>2, <2>4 DEF LocsAreInputs
  <2>8. \A u \in Usages \ {WMT_ORIENTATION} :
          /\ (u \in caps') <=> (sc'.locs[0][u] # NoLoc)
          /\ (u \in caps' /\ u # WMT_SLOT) =>
               sc'.ai[u] = [min |-> desc[sc'.locs[0][u]].lmin,
                            max |-> desc[sc'.locs[0][u]].lmax]
    <3>0. 0 \in 0 .. MaxSlots - 1
      BY MaxSlotsAssumption
    <3>1. CASE cont = 0
      <4>1. caps' = caps \cup {ch}
            /\ sc'.locs[0] = [sc.locs[0] EXCEPT ![ch] = jj]
            /\ sc'.ai = [sc.ai EXCEPT ![ch] = [min |-> it.lmin, max |-> it.lmax]]
        BY <1>0, <2>2, <2>a, <2>4, <3>0, <3>1
      <4>2. jj # NoLoc
        BY DEF NoLoc
      <4>. QED
        BY <1>0, <2>2, <3>0, <4>1, <4>2 DEF FirstContactBound
    <3>2. CASE cont # 0
      <4>1. caps' = caps /\ sc'.locs[0] = sc.locs[0] /\ sc'.ai = sc.ai
        BY <1>0, <2>2, <2>a, <2>4, <3>0, <3>2
      <4>. QED
        BY <1>0, <4>1 DEF FirstContactBound
    <3>. QED  BY <3>1, <3>2
  <2>. QED  BY <2>4, <2>6, <2>7, <2>8
<1>. QED  BY <1>1, <1>2

\* The inner for loop of the probe pass only sets a caps bit.
LEMMA BindChannelProbe ==
  ASSUME PInv, probe, NEW jj, BindChannel(jj, desc[jj])
  PROVE  caps' \subseteq Usages /\ sc' = sc
<1> DEFINE it == desc[jj]
           taken(x) == IF probe THEN x \in caps
                       ELSE LocSize(sc.locs[cont][x]) # 0
           free == {x \in Matching(it.usage) : ~taken(x)}
           ch == CHOOSE x \in free : \A y \in free : x <= y
<1>0. caps \subseteq Usages
  BY DEF PInv, TypeOK
<1>1. CASE free = {}
  BY <1>0, <1>1 DEF BindChannel
<1>2. CASE free # {}
  <2>1. free \subseteq Nat
    BY DEF Matching, Usages, WMT_N_USAGES
  <2>2. \E x \in free : \A y \in free : x <= y
    BY <1>2, <2>1, NatMinExists
  <2>3. ch \in Usages
    BY <2>2 DEF Matching
  <2>4. caps' = caps \cup {ch} /\ sc' = sc
    BY <1>2 DEF BindChannel
  <2>. QED  BY <1>0, <2>3, <2>4
<1>. QED  BY <1>1, <1>2

\* What an iteration of the input loop establishes about the variables it
\* may change, in each branch.
InputStepOK ==
  /\ type' \in {0, HUD_TOUCHSCREEN, HUD_TOUCHPAD}
  /\ {touch_coll', finger_coll', cont_count_found', scan_time_found'}
       \subseteq BOOLEAN
  /\ cont' \in Nat /\ report_id' \in 0 .. 255
  /\ caps' \subseteq Usages
  /\ DOMAIN sc' = DOMAIN ScInit
  /\ sc'.ai \in [Usages -> [min : Int, max : Int]]
  /\ sc'.locs \in [0 .. MaxSlots - 1 -> [Usages -> 0 .. Len(desc)]]
  /\ {sc'.cont_count_loc, sc'.cont_max_loc, sc'.input_mode_loc}
       \subseteq 0 .. Len(desc)
  /\ LocsAreInputs' /\ FirstContactBound'
  /\ ((~probe /\ cont_count_found) => sc.cont_count_loc # NoLoc)'

\* One iteration of the input loop (lines 668-765).
LEMMA InputItemPInv ==
  ASSUME PInv, InputItem
  PROVE  PInv'
<1> DEFINE j == NextSeen(desc, "input", i)
           it == desc[j]
<1>1. desc \in Seq(Items) /\ i \in 1 .. Len(desc) + 1
  BY DEF PInv, TypeOK
<1>2. j \in 1 .. Len(desc) /\ it \in Items
      /\ it.kind \in {"collection", "endcollection", "input"}
  BY <1>1, NextSeenRange DEF InputItem, Seen
<1>3. /\ pc = "input" /\ i' = j + 1
      /\ UNCHANGED <<desc, probe, pc, cont_count_max, cont_max_rid,
                     thqa_cert_rid, input_mode_rid, conf_coll, ret>>
  BY DEF InputItem
<1>0. /\ type \in {0, HUD_TOUCHSCREEN, HUD_TOUCHPAD}
      /\ {touch_coll, finger_coll, cont_count_found, scan_time_found}
           \subseteq BOOLEAN
      /\ cont \in Nat /\ report_id \in 0 .. 255 /\ caps \subseteq Usages
      /\ DOMAIN sc = DOMAIN ScInit
      /\ sc.ai \in [Usages -> [min : Int, max : Int]]
      /\ sc.locs \in [0 .. MaxSlots - 1 -> [Usages -> 0 .. Len(desc)]]
      /\ {sc.cont_count_loc, sc.cont_max_loc, sc.input_mode_loc}
           \subseteq 0 .. Len(desc)
  BY DEF PInv, TypeOK
<1>4. InputStepOK
  <2>1. CASE it.kind = "collection"
    <3>a. UNCHANGED <<cont, report_id, cont_count_found, scan_time_found,
                      caps, sc>>
          /\ type' \in {0, HUD_TOUCHSCREEN, HUD_TOUCHPAD}
          /\ {touch_coll', finger_coll'} \subseteq BOOLEAN
      BY <1>0, <2>1 DEF InputItem, InputColl
    <3>. QED  BY <1>0, <1>3, <3>a, PInvFrame DEF InputStepOK
  <2>2. CASE it.kind = "endcollection"
    <3>1. InputEndColl(it)
      BY <2>2 DEF InputItem
    <3>a. UNCHANGED <<type, report_id, cont_count_found, scan_time_found,
                      caps, sc>>
          /\ cont' \in Nat /\ {touch_coll', finger_coll'} \subseteq BOOLEAN
      <4>1. CASE ClosesFinger(it)
        <5>1. finger_coll' = FALSE /\ cont' = cont + 1 /\ touch_coll' = touch_coll
              /\ UNCHANGED <<type, report_id, cont_count_found,
                             scan_time_found, caps, sc>>
          BY <3>1, <4>1, Zenon DEF InputEndColl
        <5>2. touch_coll \in BOOLEAN /\ cont \in Nat
          BY <1>0
        <5>3. cont' \in Nat
          BY <5>1, <5>2
        <5>4. {touch_coll', finger_coll'} \subseteq BOOLEAN
          BY <5>1, <5>2, Zenon
        <5>. QED  BY <5>1, <5>3, <5>4
      <4>2. CASE ~ClosesFinger(it)
        BY <1>0, <3>1, <4>2 DEF InputEndColl
      <4>. QED  BY <4>1, <4>2
    <3>. QED  BY <1>0, <1>3, <3>a, PInvFrame DEF InputStepOK
  <2>3. CASE it.kind = "input"
    <3>0. InputData(j, it) /\ UNCHANGED <<type, touch_coll, finger_coll, cont>>
      BY <2>3 DEF InputItem
    <3>r. it.rid \in 0 .. 255
      BY <1>2 DEF Items
    <3>1. CASE ~Pinned(it)
      <4>1. UNCHANGED <<report_id, cont_count_found, scan_time_found, caps, sc>>
        BY <3>0, <3>1 DEF InputData
      <4>. QED  BY <1>0, <1>3, <3>0, <4>1, PInvFrame DEF InputStepOK
    <3>2. CASE Pinned(it) /\ it.level = 1 /\ it.usage = "CONTACTCOUNT"
      <4>1. /\ report_id' = it.rid /\ cont_count_found' = TRUE
            /\ sc' = IF probe THEN sc ELSE [sc EXCEPT !.cont_count_loc = j]
            /\ UNCHANGED <<scan_time_found, caps>>
        BY <3>0, <3>2 DEF InputData
      <4>2. /\ DOMAIN sc' = DOMAIN sc
            /\ sc'.locs = sc.locs /\ sc'.ai = sc.ai
            /\ sc'.cont_max_loc = sc.cont_max_loc
            /\ sc'.input_mode_loc = sc.input_mode_loc
            /\ sc'.cont_count_loc \in {sc.cont_count_loc, j}
            /\ (~probe => sc'.cont_count_loc = j)
        BY <1>0, <4>1 DEF ScInit
      <4>3. j # NoLoc /\ desc[j].kind = "input"
        BY <1>2, <2>3 DEF NoLoc
      <4>4. LocsAreInputs'
        BY <1>3, <4>1, <4>2, <4>3 DEF LocsAreInputs, PInv
      <4>5. FirstContactBound'
        BY <1>3, <4>1, <4>2 DEF FirstContactBound, PInv
      <4>6. ((~probe /\ cont_count_found) => sc.cont_count_loc # NoLoc)'
        BY <1>3, <4>2, <4>3
      <4>7. {sc'.cont_count_loc, sc'.cont_max_loc, sc'.input_mode_loc}
              \subseteq 0 .. Len(desc)
        BY <1>0, <1>2, <4>2
      <4>. QED
        BY <1>0, <3>0, <3>r, <4>1, <4>2, <4>4, <4>5, <4>6, <4>7
        DEF InputStepOK
    <3>3. CASE Pinned(it) /\ ~(it.level = 1 /\ it.usage = "CONTACTCOUNT")
               /\ it.level = 1 /\ it.usage = "SCAN_TIME"
      <4>1. /\ report_id' = it.rid /\ scan_time_found' = TRUE
            /\ UNCHANGED <<cont_count_found, caps, sc>>
        BY <3>0, <3>3 DEF InputData
      <4>. QED  BY <1>0, <1>3, <3>0, <3>r, <4>1, PInvFrame DEF InputStepOK
    <3>4. CASE Pinned(it) /\ ~(it.level = 1 /\ it.usage = "CONTACTCOUNT")
               /\ ~(it.level = 1 /\ it.usage = "SCAN_TIME")
               /\ (\/ ~finger_coll \/ it.level # 2 \/ (probe /\ cont > 0)
                   \/ cont >= MaxSlots)
      <4>1. /\ report_id' = it.rid
            /\ UNCHANGED <<cont_count_found, scan_time_found, caps, sc>>
        BY <3>0, <3>4 DEF InputData
      <4>. QED  BY <1>0, <1>3, <3>0, <3>r, <4>1, PInvFrame DEF InputStepOK
    <3>5. CASE Pinned(it) /\ ~(it.level = 1 /\ it.usage = "CONTACTCOUNT")
               /\ ~(it.level = 1 /\ it.usage = "SCAN_TIME")
               /\ ~(\/ ~finger_coll \/ it.level # 2 \/ (probe /\ cont > 0)
                    \/ cont >= MaxSlots)
      <4>1. /\ report_id' = it.rid /\ BindChannel(j, it)
            /\ UNCHANGED <<cont_count_found, scan_time_found>>
        BY <3>0, <3>5 DEF InputData
      <4>2. cont \in 0 .. MaxSlots - 1
        BY <1>0, <3>5, MaxSlotsAssumption
      <4>3. CASE probe
        <5>1. caps' \subseteq Usages /\ sc' = sc
          BY <4>1, <4>3, BindChannelProbe
        <5>. QED
          BY <1>0, <1>3, <3>0, <3>r, <4>1, <4>3, <5>1
          DEF InputStepOK, LocsAreInputs, FirstContactBound, PInv
      <4>4. CASE ~probe
        <5>1. /\ caps' \subseteq Usages
              /\ DOMAIN sc' = DOMAIN sc
              /\ sc'.ai \in [Usages -> [min : Int, max : Int]]
              /\ sc'.locs \in [0 .. MaxSlots - 1 -> [Usages -> 0 .. Len(desc)]]
              /\ sc'.cont_count_loc = sc.cont_count_loc
              /\ sc'.cont_max_loc = sc.cont_max_loc
              /\ sc'.input_mode_loc = sc.input_mode_loc
              /\ \A c \in 0 .. MaxSlots - 1, u \in Usages :
                   sc'.locs[c][u] # NoLoc => desc[sc'.locs[c][u]].kind = "input"
              /\ \A u \in Usages \ {WMT_ORIENTATION} :
                   /\ (u \in caps') <=> (sc'.locs[0][u] # NoLoc)
                   /\ (u \in caps' /\ u # WMT_SLOT) =>
                        sc'.ai[u] = [min |-> desc[sc'.locs[0][u]].lmin,
                                     max |-> desc[sc'.locs[0][u]].lmax]
          BY <1>2, <2>3, <4>1, <4>2, <4>4, BindChannelAttach
        <5>. QED
          BY <1>0, <1>3, <3>0, <3>r, <4>1, <4>4, <5>1
          DEF InputStepOK, LocsAreInputs, FirstContactBound, PInv
      <4>. QED  BY <4>3, <4>4
    <3>. QED  BY <3>1, <3>2, <3>3, <3>4, <3>5
  <2>. QED  BY <1>2, <2>1, <2>2, <2>3
<1>5. ~Accepted'
  BY <1>3 DEF Accepted
<1>7. TypeOK
  BY DEF PInv
<1>6. TypeOK'
  <2>1. /\ desc' \in Seq(Items) /\ probe' \in BOOLEAN
        /\ pc' \in {"feature", "input", "done"}
        /\ i' \in 1 .. Len(desc') + 1
        /\ cont_count_max' \in Int
        /\ {cont_max_rid', thqa_cert_rid', input_mode_rid'} \subseteq 0 .. 255
        /\ conf_coll' \in BOOLEAN
    BY <1>1, <1>2, <1>3, <1>7 DEF TypeOK
  <2>. QED  BY <1>3, <1>4, <2>1 DEF InputStepOK, TypeOK
<1>. QED  BY <1>4, <1>5, <1>6 DEF InputStepOK, PInv, AcceptedWritten

\* Every step of the parser preserves PInv.
LEMMA NextPInv ==
  ASSUME PInv, [Next]_vars
  PROVE  PInv'
<1>1. CASE FeatureItem  BY <1>1, FeatureItemPInv
<1>2. CASE FeatureEnd   BY <1>2, FeatureEndPInv
<1>3. CASE InputItem    BY <1>3, InputItemPInv
<1>4. CASE InputEnd     BY <1>4, InputEndPInv
<1>5. CASE UNCHANGED vars
  BY <1>5 DEF vars, PInv, TypeOK, LocsAreInputs, FirstContactBound,
              AcceptedWritten, Accepted
<1>. QED  BY <1>1, <1>2, <1>3, <1>4, <1>5 DEF Next

\* PInv holds in every state of the parser.
THEOREM PInvHolds == Spec => []PInv
<1>1. Init => PInv  BY InitPInv
<1>2. PInv /\ [Next]_vars => PInv'  BY NextPInv
<1>. QED  BY <1>1, <1>2, PTL DEF Spec

(* Type correctness of wmt_hid_parse: the cursor stays within the       *)
(* descriptor, and every location the attach pass copies into the softc *)
(* is NoLoc or the index of an item of the descriptor.                  *)
THEOREM ParseTypeCorrect == Spec => []TypeOK
<1>1. PInv => TypeOK  BY DEF PInv
<1>. QED  BY <1>1, PInvHolds, PTL

(* The channel binding loop of wmt_hid_parse takes the axis ranges of an *)
(* accepted profile from the first contact's own items, and sets a caps *)
(* bit exactly for the channels that contact has a location for.        *)
THEOREM AxesFromFirstContactHolds == Spec => []AxesFromFirstContact
<1>1. PInv => AxesFromFirstContact
  BY DEF PInv, AxesFromFirstContact, AcceptedWritten, FirstContactBound,
         Accepted
<1>. QED  BY <1>1, PInvHolds, PTL

-----------------------------------------------------------------------------
(* The accepted profile.  Line 742 takes a zero-size location for an     *)
(* unbound channel while the caps bit of the probe was set by the usage *)
(* alone, so the sizes of AcceptedProfileUsable do not hold for every   *)
(* descriptor (TLC finds a counterexample).  What holds for every       *)
(* descriptor is that every required channel is bound to an input item. *)

\* The orientation channel is synthesised, never required.
LEMMA OrientationNotRequired == WMT_ORIENTATION \notin RequiredUsages
  BY DEF RequiredUsages, wmt_hid_map, Usages, WMT_ORIENTATION, WMT_N_USAGES

\* A profile the attach call accepts binds every required channel of the
\* first contact to an input item of the descriptor, has a Contact Count
\* location and a contact per report, and its slot range fits
\* MAX_MT_SLOTS (the checks of lines 766-790).
AcceptedProfileBound ==
  Accepted =>
    /\ \A u \in RequiredUsages :
         sc.locs[0][u] # NoLoc /\ desc[sc.locs[0][u]].kind = "input"
    /\ sc.cont_count_loc # NoLoc
    /\ sc.nconts_per_report >= 1
    /\ sc.ai[WMT_SLOT].max \in 0 .. MaxSlots - 1

(* For every descriptor, a profile the attach call of wmt_hid_parse      *)
(* accepts binds each required channel of the first contact to an input *)
(* item, sets the Contact Count location and a slot range within        *)
(* MAX_MT_SLOTS.                                                        *)
THEOREM AcceptedProfileBoundHolds == Spec => []AcceptedProfileBound
<1>1. PInv => AcceptedProfileBound
  <2> SUFFICES ASSUME PInv, Accepted
               PROVE  AcceptedProfileBound!2
    BY DEF AcceptedProfileBound
  <2>1. /\ ~probe /\ RequiredUsages \subseteq caps /\ cont_count_found
        /\ sc.nconts_per_report >= 1
        /\ sc.ai[WMT_SLOT].max \in 0 .. MaxSlots - 1
    BY DEF PInv, AcceptedWritten, Accepted
  <2>2. ASSUME NEW u \in RequiredUsages
        PROVE  sc.locs[0][u] # NoLoc /\ desc[sc.locs[0][u]].kind = "input"
    <3>1. u \in Usages \ {WMT_ORIENTATION} /\ u \in caps
      BY <2>1, OrientationNotRequired DEF RequiredUsages
    <3>2. sc.locs[0][u] # NoLoc
      BY <2>1, <3>1 DEF PInv, FirstContactBound
    <3>3. desc[sc.locs[0][u]].kind = "input"
      BY <3>1, <3>2, MaxSlotsAssumption DEF PInv, LocsAreInputs
    <3>. QED  BY <3>2, <3>3
  <2>3. sc.cont_count_loc # NoLoc
    BY <2>1 DEF PInv
  <2>. QED  BY <2>1, <2>2, <2>3
<1>. QED  BY <1>1, PInvHolds, PTL
=============================================================================
