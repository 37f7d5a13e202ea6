----------------------------- MODULE ImtAttach -----------------------------
(***************************************************************************)
(* The life cycle of one imt device (src/imt.c): imt_probe, imt_attach     *)
(* with its feature-report steps (wmt_cont_max_parse, the THQA fetch,      *)
(* imt_set_input_mode) and its error paths, the evdev open and close       *)
(* callbacks imt_ev_open / imt_ev_close, and imt_detach.                   *)
(*                                                                         *)
(* The descriptor analysis itself is the HidParse module; here its result  *)
(* is a choice among small sets of profiles.  Probe and attach each fetch  *)
(* the descriptor again and parse it again, so their results are chosen   *)
(* independently.                                                          *)
(*                                                                         *)
(* The collaborators are modelled from their contracts, none of them is    *)
(* in this repository:                                                     *)
(*  - iichid: a feature-report transfer may fail; intr_setup installs the  *)
(*    handler without starting it; intr_start and intr_stop start and stop *)
(*    delivery (stop returns when no imt_intr call is running);            *)
(*    intr_unsetup stops delivery and removes the handler;                 *)
(*  - evdev: a client can open the device only while it is registered, and *)
(*    the first open calls ev_open; evdev_free of a device that a client   *)
(*    holds open calls ev_close first.                                     *)
(*                                                                         *)
(* Probe, attach and detach are newbus calls made one after the other.     *)
(* Opens and closes by evdev clients interleave with detach.               *)
(***************************************************************************)
EXTENDS Naturals, ImtTables

CONSTANTS
  MaxSlots,       \* MAX_MT_SLOTS
  BSize,          \* WMT_BSIZE: bytes of sc->buf
  Types,          \* the values wmt_hid_parse may return
  RLens,          \* cont_max_rlen and thqa_cert_rlen the parse may compute
  ModeRLens,      \* input_mode_rlen the parse may compute
  Rids,           \* feature report ids
  FeatureValues   \* Contact Count Maximum values the feature report carries

ASSUME MaxSlotsAssumption == MaxSlots \in Nat \ {0}
ASSUME BSizeAssumption    == BSize \in Nat \ {0}
ASSUME TypesAssumption    == Types \subseteq {0, HUD_TOUCHSCREEN, HUD_TOUCHPAD}
ASSUME LensAssumption     == RLens \cup ModeRLens \cup FeatureValues \subseteq Nat

\* The part of the softc wmt_hid_parse fills that attach reads.  The slot
\* range slotmax (sc->ai[WMT_SLOT].max) is in 0 .. MAX_MT_SLOTS - 1 for an
\* accepted descriptor (HidParse, AcceptedProfileUsable).
Profiles ==
  [type : Types \ {0}, cmrlen : RLens, cmrid : Rids, thrlen : RLens,
   thrid : Rids, imrlen : ModeRLens, slotmax : 0 .. MaxSlots - 1]

NoProfile == [type |-> 0, cmrlen |-> 0, cmrid |-> 0, thrlen |-> 0,
              thrid |-> 0, imrlen |-> 0, slotmax |-> 0]

VARIABLES
  pc,        \* where the newbus calls of the device are
  sc,        \* the profile wmt_hid_parse stored in the softc
  slotMax,   \* sc->ai[WMT_SLOT].max
  lock,      \* sc->lock: "none", "init" or "destroyed"
  handler,   \* imt_intr is installed as the iichid interrupt handler
  running,   \* iichid delivers reports to imt_intr
  evdev,     \* sc->evdev: "none", "alloc", "registered" or "freed"
  opened,    \* an evdev client holds the device open
  xfer       \* bytes of sc->buf the last feature-report transfer used

vars == <<pc, sc, slotMax, lock, handler, running, evdev, opened, xfer>>

-----------------------------------------------------------------------------
(* Helpers.                                                                *)

MinOf(a, b) == IF a < b THEN a ELSE b

\* Faulty variant of ContMaxParse: the clamp to MAX_MT_SLOTS is left out.
ContMaxParseUnclamped(v) ==
  IF v > 0 /\ v # slotMax + 1 THEN v - 1 ELSE slotMax

\* Faulty variant of ContMaxParse: a zero value is not ignored.
ContMaxParseNoZeroCheck(v) ==
  LET c == MinOf(v, MaxSlots) IN
  IF c # slotMax + 1 THEN c - 1 ELSE slotMax

\* wmt_cont_max_parse: the feature report's Contact Count Maximum, clamped
\* to MAX_MT_SLOTS, overrides the slot range when it is non-zero.
ContMaxParse(v) ==
  LET c == MinOf(v, MaxSlots) IN
  IF c > 0 /\ c # slotMax + 1 THEN c - 1 ELSE slotMax

\* Faulty variant of ContMaxFetchable: the WMT_BSIZE bound is left out.
ContMaxFetchableUnbounded == sc.cmrlen > 0

\* The guard of the Contact Count Maximum fetch.
ContMaxFetchable == sc.cmrlen > 0 /\ sc.cmrlen <= BSize

\* The guard of the THQA certificate fetch.
ThqaFetchable ==
  sc.thrlen > 0 /\ sc.thrlen <= BSize /\ sc.thrid # sc.cmrid

\* The EINVAL check at the top of imt_set_input_mode.
ModeLenInvalid == sc.imrlen = 0 /\ sc.imrlen > BSize

\* imt_set_input_mode fails with EINVAL, or when the write back fails (ok
\* is the transport's answer).  The read before it transfers the same
\* bytes; when it fails the buffer is zeroed instead, which only changes
\* the bytes written back.
SetInputModeFails(ok) == ModeLenInvalid \/ ~ok

\* Faulty variant of ImtEvClose: iichid_intr_stop is not called.
ImtEvCloseKeepsRunning(run) == run

\* imt_ev_close: iichid_intr_stop.  The value is the new delivery state.
ImtEvClose(run) == FALSE

-----------------------------------------------------------------------------
Init ==
  /\ pc = "probe"
  /\ sc = NoProfile
  /\ slotMax = 0
  /\ lock = "none"
  /\ handler = FALSE
  /\ running = FALSE
  /\ evdev = "none"
  /\ opened = FALSE
  /\ xfer = 0

\* imt_probe: the descriptor fetch (ok) and wmt_hid_parse(NULL, ...).
Probe(ok, t) ==
  /\ pc = "probe"
  /\ pc' = IF ok /\ t # 0 THEN "attach" ELSE "rejected"
  /\ UNCHANGED <<sc, slotMax, lock, handler, running, evdev, opened, xfer>>

\* imt_attach up to the feature reports: the descriptor fetch, mtx_init and
\* wmt_hid_parse(sc, ...); a type of 0 goes to the detach label.
AttachParse(ok, p) ==
  /\ pc = "attach"
  /\ \/ /\ ~ok
        /\ pc' = "failed"
        /\ UNCHANGED <<sc, slotMax, lock>>
     \/ /\ ok
        /\ p.type = 0
        /\ lock' = "destroyed"
        /\ pc' = "failed"
        /\ UNCHANGED <<sc, slotMax>>
     \/ /\ ok
        /\ p.type # 0
        /\ sc' = p
        /\ slotMax' = p.slotmax
        /\ lock' = "init"
        /\ pc' = "contmax"
  /\ UNCHANGED <<handler, running, evdev, opened, xfer>>

\* The Contact Count Maximum fetch; wmt_cont_max_parse when it succeeds.
AttachContMax(ok, v) ==
  /\ pc = "contmax"
  /\ IF ContMaxFetchable
     THEN /\ xfer' = sc.cmrlen
          /\ slotMax' = IF ok THEN ContMaxParse(v) ELSE slotMax
     ELSE UNCHANGED <<xfer, slotMax>>
  /\ pc' = "thqa"
  /\ UNCHANGED <<sc, lock, handler, running, evdev, opened>>

\* The THQA certificate fetch, whose result is ignored.
AttachThqa ==
  /\ pc = "thqa"
  /\ xfer' = IF ThqaFetchable THEN sc.thrlen ELSE xfer
  /\ pc' = "mode"
  /\ UNCHANGED <<sc, slotMax, lock, handler, running, evdev, opened>>

\* The mode step of imt_attach: imt_set_input_mode(sc,
\* IMT_INPUT_MODE_MT_TOUCHPAD) on a touch pad with an Input Mode report,
\* and the detach label when it fails.
AttachMode(ok) ==
  /\ pc = "mode"
  /\ IF sc.type = HUD_TOUCHPAD /\ sc.imrlen # 0
     THEN /\ xfer' = IF ModeLenInvalid THEN xfer ELSE sc.imrlen
          /\ lock' = IF SetInputModeFails(ok) THEN "destroyed" ELSE lock
          /\ pc' = IF SetInputModeFails(ok) THEN "failed" ELSE "register"
     ELSE /\ pc' = "register"
          /\ UNCHANGED <<lock, xfer>>
  /\ UNCHANGED <<sc, slotMax, handler, running, evdev, opened>>

\* Faulty variant of AttachRegister: a failed registration leaves the
\* interrupt handler installed.
AttachRegisterNoUnsetup(ok) ==
  /\ pc = "register"
  /\ handler' = TRUE
  /\ evdev' = IF ok THEN "registered" ELSE "alloc"
  /\ lock' = IF ok THEN lock ELSE "destroyed"
  /\ pc' = IF ok THEN "attached" ELSE "failed"
  /\ UNCHANGED <<sc, slotMax, running, opened, xfer>>

\* iichid_intr_setup, evdev_alloc, the capability declarations and
\* evdev_register_mtx; a failed registration unsets the handler and
\* destroys the lock, and sc->evdev stays allocated.
AttachRegister(ok) ==
  /\ pc = "register"
  /\ handler' = ok
  /\ evdev' = IF ok THEN "registered" ELSE "alloc"
  /\ lock' = IF ok THEN lock ELSE "destroyed"
  /\ pc' = IF ok THEN "attached" ELSE "failed"
  /\ UNCHANGED <<sc, slotMax, running, opened, xfer>>

\* The first evdev client opens the device: imt_ev_open, iichid_intr_start.
EvOpen ==
  /\ evdev = "registered"
  /\ ~opened
  /\ opened' = TRUE
  /\ running' = TRUE
  /\ UNCHANGED <<pc, sc, slotMax, lock, handler, evdev, xfer>>

\* The last evdev client closes the device: imt_ev_close.
EvClose ==
  /\ evdev = "registered"
  /\ opened
  /\ opened' = FALSE
  /\ running' = ImtEvClose(running)
  /\ UNCHANGED <<pc, sc, slotMax, lock, handler, evdev, xfer>>

\* imt_detach, first call: evdev_free, which closes an open device.
DetachFree ==
  /\ pc = "attached"
  /\ evdev' = "freed"
  /\ opened' = FALSE
  /\ running' = IF opened THEN ImtEvClose(running) ELSE running
  /\ pc' = "unsetup"
  /\ UNCHANGED <<sc, slotMax, lock, handler, xfer>>

\* imt_detach, second call: iichid_intr_unsetup.
DetachUnsetup ==
  /\ pc = "unsetup"
  /\ handler' = FALSE
  /\ running' = FALSE
  /\ pc' = "destroy"
  /\ UNCHANGED <<sc, slotMax, lock, evdev, opened, xfer>>

\* imt_detach, last call: mtx_destroy.
DetachDestroy ==
  /\ pc = "destroy"
  /\ lock' = "destroyed"
  /\ pc' = "detached"
  /\ UNCHANGED <<sc, slotMax, handler, running, evdev, opened, xfer>>

Next ==
  \/ \E ok \in BOOLEAN, t \in Types : Probe(ok, t)
  \/ \E ok \in BOOLEAN, p \in Profiles \cup {NoProfile} : AttachParse(ok, p)
  \/ \E ok \in BOOLEAN, v \in FeatureValues : AttachContMax(ok, v)
  \/ AttachThqa
  \/ \E ok \in BOOLEAN : AttachMode(ok)
  \/ \E ok \in BOOLEAN : AttachRegister(ok)
  \/ EvOpen
  \/ EvClose
  \/ DetachFree
  \/ DetachUnsetup
  \/ DetachDestroy

Spec == Init /\ [][Next]_vars

-----------------------------------------------------------------------------
(* Properties.                                                             *)

TypeOK ==
  /\ pc \in {"probe", "rejected", "attach", "contmax", "thqa", "mode",
             "register", "attached", "failed", "unsetup", "destroy",
             "detached"}
  /\ sc \in Profiles \cup {NoProfile}
  /\ slotMax \in Nat
  /\ lock \in {"none", "init", "destroyed"}
  /\ handler \in BOOLEAN
  /\ running \in BOOLEAN
  /\ evdev \in {"none", "alloc", "registered", "freed"}
  /\ opened \in BOOLEAN
  /\ xfer \in Nat

(* imt_intr is only ever called into a live device: while iichid delivers *)
(* reports, the handler is installed, sc->lock is initialised and         *)
(* sc->evdev is registered, through every interleaving of evdev clients   *)
(* opening and closing the device with imt_detach (which frees evdev      *)
(* before it unsets the handler).                                         *)
DeliveryOnlyToLiveDevice ==
  running => handler /\ lock = "init" /\ evdev = "registered"

(* A failed imt_attach releases what it set up: the lock is destroyed (or *)
(* was never initialised) and no interrupt handler is left installed.     *)
FailureReleases ==
  pc = "failed" => lock # "init" /\ ~handler /\ ~running

(* The slot range evdev is given (ai[WMT_SLOT].max, possibly overridden   *)
(* by the Contact Count Maximum feature report) fits the MAX_MT_SLOTS     *)
(* rows imt_intr indexes.                                                 *)
SlotRangeFits ==
  evdev # "none" => slotMax \in 0 .. MaxSlots - 1

(* Every feature-report transfer of imt_attach and imt_set_input_mode     *)
(* fits the WMT_BSIZE bytes of sc->buf.                                   *)
BufAccessWithinBsize == xfer <= BSize

(* The Contact Count Maximum and THQA certificate fetches of imt_attach   *)
(* fit the WMT_BSIZE bytes of sc->buf whatever report lengths the         *)
(* descriptor declares: while attach is past them and before the Input   *)
(* Mode transfer, the last transfer was within sc->buf.                  *)
FetchesWithinBsize == pc \in {"thqa", "mode"} => xfer <= BSize

(* Once the device is gone (attach failed or detach returned), sc->evdev  *)
(* is not left allocated.                                                 *)
EvdevReleased ==
  pc \in {"failed", "detached"} => evdev \in {"none", "freed"}
=============================================================================
