-------------------------- MODULE ImtAttach_proofs --------------------------
(***************************************************************************)
(* Proofs about the life-cycle model, for every value of the constants     *)
(* that satisfies the assumptions of ImtAttach: the type invariant, that   *)
(* interrupts only reach a live device, that a failed attach releases the  *)
(* lock and the handler, that the slot range fits the slot table, and     *)
(* that the guarded feature-report fetches fit sc->buf.                    *)
(***************************************************************************)
EXTENDS ImtAttach, TLAPS

(* The inductive strengthening.  It ties each resource to the phase of    *)
(* the life cycle that owns it: the lock and no handler between mtx_init *)
(* and the registration, the handler, the lock and a registered evdev     *)
(* while attached, a freed evdev once detach has begun; delivery runs     *)
(* only while a client holds the device open, and a client holds it open  *)
(* only while it is registered.                                            *)
AInv ==
  /\ TypeOK
  /\ slotMax \in 0 .. MaxSlots - 1
  /\ running => opened
  /\ opened => evdev = "registered"
  /\ evdev = "registered" => handler /\ lock = "init" /\ pc = "attached"
  /\ pc \in {"probe", "rejected", "attach"} =>
        lock = "none" /\ ~handler /\ evdev = "none"
  /\ pc \in {"contmax", "thqa", "mode", "register"} =>
        lock = "init" /\ ~handler /\ evdev = "none"
  /\ pc = "failed" => lock # "init" /\ ~handler
  /\ pc \in {"unsetup", "destroy", "detached"} => evdev = "freed"

PCs == {"probe", "rejected", "attach", "contmax", "thqa", "mode",
        "register", "attached", "failed", "unsetup", "destroy", "detached"}

-----------------------------------------------------------------------------
\* wmt_cont_max_parse keeps the slot range within the slot table.
LEMMA ContMaxParseRange ==
  ASSUME slotMax \in 0 .. MaxSlots - 1, NEW v \in Nat
  PROVE  ContMaxParse(v) \in 0 .. MaxSlots - 1
  BY MaxSlotsAssumption DEF ContMaxParse, MinOf

\* The report lengths of a profile, or of the zeroed softc, are naturals.
LEMMA ScLens ==
  ASSUME NEW p \in Profiles \cup {NoProfile}
  PROVE  /\ p.cmrlen \in Nat /\ p.thrlen \in Nat /\ p.imrlen \in Nat
         /\ p.imrlen \in ModeRLens \cup {0}
<1>1. CASE p \in Profiles
  BY <1>1, LensAssumption DEF Profiles
<1>2. CASE p = NoProfile
  BY <1>2 DEF NoProfile
<1>. QED  BY <1>1, <1>2

LEMMA InitAInv == Init => AInv
<1> SUFFICES ASSUME Init PROVE AInv
  OBVIOUS
<1>1. TypeOK
  BY DEF Init, TypeOK
<1>2. slotMax \in 0 .. MaxSlots - 1
  BY MaxSlotsAssumption DEF Init
<1>. QED  BY <1>1, <1>2 DEF Init, AInv

LEMMA NextAInv == AInv /\ [Next]_vars => AInv'
<1> SUFFICES ASSUME AInv, [Next]_vars PROVE AInv'
  OBVIOUS
<1>0. pc \in PCs /\ sc \in Profiles \cup {NoProfile}
  BY DEF AInv, TypeOK, PCs
<1>1. CASE \E ok \in BOOLEAN, t \in Types : Probe(ok, t)
  BY <1>1 DEF Probe, AInv, TypeOK
<1>2. CASE \E ok \in BOOLEAN, p \in Profiles \cup {NoProfile} : AttachParse(ok, p)
  <2>1. PICK ok \in BOOLEAN, p \in Profiles \cup {NoProfile} : AttachParse(ok, p)
    BY <1>2
  <2>2. p.slotmax \in 0 .. MaxSlots - 1
    BY MaxSlotsAssumption DEF Profiles, NoProfile
  <2>3. pc = "attach" /\ UNCHANGED <<handler, running, evdev, opened, xfer>>
    BY <2>1 DEF AttachParse
  <2>4. lock = "none" /\ ~handler /\ evdev = "none" /\ ~opened /\ ~running
    BY <2>3 DEF AInv
  <2>5. CASE ~ok
    BY <2>1, <2>3, <2>4, <2>5 DEF AttachParse, AInv, TypeOK
  <2>6. CASE ok /\ p.type = 0
    BY <2>1, <2>3, <2>4, <2>6 DEF AttachParse, AInv, TypeOK
  <2>7. CASE ok /\ p.type # 0
    <3>1. p \in Profiles
      BY <2>1, <2>7 DEF NoProfile
    <3>2. sc' = p /\ slotMax' = p.slotmax /\ lock' = "init" /\ pc' = "contmax"
      BY <2>1, <2>7 DEF AttachParse
    <3>. QED  BY <2>2, <2>3, <2>4, <3>1, <3>2 DEF AInv, TypeOK
  <2>. QED  BY <2>5, <2>6, <2>7
<1>3. CASE \E ok \in BOOLEAN, v \in FeatureValues : AttachContMax(ok, v)
  <2>1. PICK ok \in BOOLEAN, v \in FeatureValues : AttachContMax(ok, v)
    BY <1>3
  <2>2. ContMaxParse(v) \in 0 .. MaxSlots - 1
    BY ContMaxParseRange, LensAssumption DEF AInv
  <2>4. sc.cmrlen \in Nat
    BY <1>0, ScLens
  <2>. QED  BY <2>1, <2>2, <2>4 DEF AttachContMax, AInv, TypeOK
<1>4. CASE AttachThqa
  <2>1. sc.thrlen \in Nat
    BY <1>0, ScLens
  <2>. QED  BY <1>4, <2>1 DEF AttachThqa, AInv, TypeOK
<1>5. CASE \E ok \in BOOLEAN : AttachMode(ok)
  <2>1. PICK ok \in BOOLEAN : AttachMode(ok)
    BY <1>5
  <2>2. sc.imrlen \in Nat
    BY <1>0, ScLens
  <2>. QED  BY <2>1, <2>2 DEF AttachMode, AInv, TypeOK
<1>6. CASE \E ok \in BOOLEAN : AttachRegister(ok)
  BY <1>6 DEF AttachRegister, AInv, TypeOK
<1>7. CASE EvOpen
  BY <1>7 DEF EvOpen, AInv, TypeOK
<1>8. CASE EvClose
  BY <1>8 DEF EvClose, ImtEvClose, AInv, TypeOK
<1>9. CASE DetachFree
  BY <1>9 DEF DetachFree, ImtEvClose, AInv, TypeOK
<1>10. CASE DetachUnsetup
  BY <1>10 DEF DetachUnsetup, AInv, TypeOK
<1>11. CASE DetachDestroy
  BY <1>11 DEF DetachDestroy, AInv, TypeOK
<1>12. CASE UNCHANGED vars
  BY <1>12 DEF vars, AInv, TypeOK
<1>. QED
  BY <1>1, <1>2, <1>3, <1>4, <1>5, <1>6, <1>7, <1>8, <1>9, <1>10, <1>11,
     <1>12 DEF Next

\* AInv holds in every state of every behaviour.
THEOREM AInvHolds == Spec => []AInv
<1>1. Init => AInv
  BY InitAInv
<1>2. AInv /\ [Next]_vars => AInv'
  BY NextAInv
<1>. QED  BY <1>1, <1>2, PTL DEF Spec

-----------------------------------------------------------------------------
(* The theorems.                                                           *)

\* Type correctness of the life cycle of imt_probe, imt_attach and
\* imt_detach.
THEOREM AttachTypeCorrect == Spec => []TypeOK
<1>1. AInv => TypeOK
  BY DEF AInv
<1>. QED  BY <1>1, AInvHolds, PTL

\* imt_intr is only ever called into a live device, through every
\* interleaving of evdev clients with imt_detach.
THEOREM DeliveryOnlyToLiveDeviceHolds == Spec => []DeliveryOnlyToLiveDevice
<1>1. AInv => DeliveryOnlyToLiveDevice
  BY DEF AInv, DeliveryOnlyToLiveDevice
<1>. QED  BY <1>1, AInvHolds, PTL

\* A failed imt_attach leaves neither the lock nor the handler behind.
THEOREM FailureReleasesHolds == Spec => []FailureReleases
<1>1. AInv => FailureReleases
  BY DEF AInv, FailureReleases
<1>. QED  BY <1>1, AInvHolds, PTL

\* The slot range evdev is given, after wmt_cont_max_parse, fits the
\* MAX_MT_SLOTS rows of the slot table.
THEOREM SlotRangeFitsHolds == Spec => []SlotRangeFits
<1>1. AInv => SlotRangeFits
  BY DEF AInv, SlotRangeFits
<1>. QED  BY <1>1, AInvHolds, PTL

-----------------------------------------------------------------------------
(* Transfers through sc->buf.  The Contact Count Maximum and THQA fetches  *)
(* are guarded by WMT_BSIZE; the strengthening adds that nothing was      *)
(* transferred before the Contact Count Maximum fetch.                    *)

FInv ==
  /\ AInv
  /\ pc \in {"probe", "rejected", "attach", "contmax"} => xfer = 0
  /\ FetchesWithinBsize

LEMMA NextFInv == FInv /\ [Next]_vars => FInv'
<1> SUFFICES ASSUME FInv, [Next]_vars PROVE FInv'
  OBVIOUS
<1>1. AInv'
  BY NextAInv DEF FInv
<1>2. /\ xfer \in Nat /\ sc \in Profiles \cup {NoProfile} /\ BSize \in Nat
      /\ pc \in {"probe", "rejected", "attach", "contmax"} => xfer = 0
      /\ pc \in {"thqa", "mode"} => xfer <= BSize
  BY BSizeAssumption DEF FInv, AInv, TypeOK, FetchesWithinBsize
<1>3. CASE \E ok \in BOOLEAN, v \in FeatureValues : AttachContMax(ok, v)
  <2>1. pc' = "thqa" /\ ((xfer' = sc.cmrlen /\ ContMaxFetchable) \/ xfer' = xfer)
    BY <1>3 DEF AttachContMax
  <2>2. xfer' <= BSize
    BY <1>2, <2>1, <1>3 DEF AttachContMax, ContMaxFetchable
  <2>. QED  BY <1>1, <2>1, <2>2 DEF FInv, FetchesWithinBsize
<1>4. CASE AttachThqa
  <2>1. pc' = "mode" /\ xfer' <= BSize
    BY <1>2, <1>4 DEF AttachThqa, ThqaFetchable
  <2>. QED  BY <1>1, <2>1 DEF FInv, FetchesWithinBsize
<1>5. CASE \E ok \in BOOLEAN : AttachMode(ok)
  <2>1. pc' \in {"failed", "register"}
    BY <1>5 DEF AttachMode
  <2>. QED  BY <1>1, <2>1 DEF FInv, FetchesWithinBsize
<1>6. CASE \E ok \in BOOLEAN, t \in Types : Probe(ok, t)
  <2>1. pc = "probe" /\ pc' \in {"attach", "rejected"} /\ UNCHANGED xfer
    BY <1>6 DEF Probe
  <2>. QED  BY <1>1, <1>2, <2>1 DEF FInv, FetchesWithinBsize
<1>7. CASE \E ok \in BOOLEAN, p \in Profiles \cup {NoProfile} : AttachParse(ok, p)
  <2>1. pc = "attach" /\ pc' \in {"failed", "contmax"} /\ UNCHANGED xfer
    BY <1>7 DEF AttachParse
  <2>. QED  BY <1>1, <1>2, <2>1 DEF FInv, FetchesWithinBsize
<1>8. CASE /\ ~\E ok \in BOOLEAN, v \in FeatureValues : AttachContMax(ok, v)
           /\ ~AttachThqa /\ ~\E ok \in BOOLEAN : AttachMode(ok)
           /\ ~\E ok \in BOOLEAN, t \in Types : Probe(ok, t)
           /\ ~\E ok \in BOOLEAN, p \in Profiles \cup {NoProfile} : AttachParse(ok, p)
  <2>1. UNCHANGED xfer
        /\ (pc' = pc \/ pc' \notin {"probe", "rejected", "attach", "contmax",
                                    "thqa", "mode"})
    BY <1>8
    DEF Next, vars, AttachRegister, EvOpen, EvClose, DetachFree,
        DetachUnsetup, DetachDestroy
  <2>. QED  BY <1>1, <1>2, <2>1 DEF FInv, FetchesWithinBsize
<1>. QED  BY <1>3, <1>4, <1>5, <1>6, <1>7, <1>8

(* The Contact Count Maximum and THQA certificate fetches of imt_attach   *)
(* never run past the WMT_BSIZE bytes of sc->buf, for every descriptor:  *)
(* their guards bound the report length.                                  *)
THEOREM FetchesWithinBsizeHolds == Spec => []FetchesWithinBsize
<1>1. Init => FInv
  <2> SUFFICES ASSUME Init PROVE FInv
    OBVIOUS
  <2>1. AInv
    BY InitAInv
  <2>. QED  BY <2>1, BSizeAssumption DEF Init, FInv, FetchesWithinBsize
<1>2. FInv /\ [Next]_vars => FInv'
  BY NextFInv
<1>3. FInv => FetchesWithinBsize
  BY DEF FInv
<1>. QED  BY <1>1, <1>2, <1>3, PTL DEF Spec
=============================================================================
