------------------------------ MODULE ImtIntr ------------------------------
(***************************************************************************)
(* The interrupt path of the imt driver: imt_intr() (src/imt.c) decoding  *)
(* one input report at a time into evdev multi-touch protocol B events,   *)
(* with the hybrid-delivery counter sc->nconts_todo carried between       *)
(* calls.                                                                 *)
(*                                                                         *)
(* The device profile that wmt_hid_parse() built is given as constants.   *)
(* The device is the environment: every call delivers any report from a   *)
(* small set (any report id, any Contact Count value, any per-contact     *)
(* data), so malformed and out-of-protocol report streams are included.   *)
(* The data of physical contact c is read once, by iteration c of the     *)
(* loop, so it is chosen by that iteration rather than stored with the    *)
(* report: the behaviours are the same.                                   *)
(*                                                                         *)
(* imt_intr runs with sc->lock held (mtx_assert) and the transport        *)
(* delivers the reports of one device one at a time, so one call is      *)
(* never interleaved with anything that touches this state.  Its contact  *)
(* loop is split into one step per iteration (IntrContact) between the    *)
(* entry (IntrStart) and the exit (IntrFinish); the three always happen   *)
(* in this order and nothing else happens in between.                     *)
(*                                                                         *)
(* The evdev sink is modelled from its contract (it is not part of this   *)
(* repository): the ABS_MT_TRACKING_ID and ABS_MT_DISTANCE value of each  *)
(* slot, and evdev_get_mt_slot_by_tracking_id(), which returns the slot   *)
(* already tracking the id, else the lowest free slot whose tracking id   *)
(* did not change since the last evdev_sync(), else -1.                   *)
(***************************************************************************)
EXTENDS Integers, FiniteSets, ImtTables

CONSTANTS
  MaxSlots,         \* MAX_MT_SLOTS: rows of sc->locs
  NContsPerReport,  \* sc->nconts_per_report
  SlotMax,          \* sc->ai[WMT_SLOT].max: evdev slots are 0 .. SlotMax
  Caps,             \* sc->caps, as a set of channels
  Locs,             \* Locs[c]: the channels with sc->locs[c][ch].size > 0
  ReportId,         \* sc->report_id
  ReportIds,        \* report ids the transport may deliver
  MaxCount,         \* largest Contact Count value a report carries
  ContactIds,       \* contact id values a report carries
  TipValues,        \* tip switch values a report carries
  ConfValues,       \* confidence values a report carries
  RangValues        \* in-range values a report carries

NoContact == -1     \* ABS_MT_TRACKING_ID of a free slot

ASSUME MaxSlotsAssumption == MaxSlots \in Nat \ {0}
ASSUME NContsAssumption   == NContsPerReport \in 1 .. MaxSlots
ASSUME SlotMaxAssumption  == SlotMax \in 0 .. MaxSlots - 1
ASSUME CapsAssumption     == RequiredUsages \subseteq Caps /\ Caps \subseteq Usages
ASSUME LocsAssumption     == Locs \in [0 .. MaxSlots - 1 -> SUBSET Usages]
ASSUME ReportIdAssumption == ReportId \in ReportIds
ASSUME MaxCountAssumption == MaxCount \in Nat
\* 0 is a contact id: a contact collection without a Contact Identifier
\* field leaves slot_data[WMT_CONTACTID] at the 0 of the bzero().
ASSUME ValuesAssumption   ==
  /\ ContactIds \subseteq Nat /\ 0 \in ContactIds
  /\ TipValues \subseteq Nat /\ TipValues # {}
  /\ ConfValues \subseteq Nat /\ ConfValues # {}
  /\ RangValues \subseteq Nat /\ RangValues # {}

Slots    == 0 .. SlotMax

\* What one physical-contact collection of a report carries.  Position,
\* pressure, width and height values never change the control flow of
\* imt_intr and are left out.
ContactData == [tip : TipValues, conf : ConfValues, rang : RangValues,
                cid : ContactIds]


VARIABLES
  nconts_todo,   \* sc->nconts_todo: contacts still to come in this frame
  intr,          \* "idle", or "loop" while imt_intr is in its contact loop
  cont,          \* the loop index of imt_intr
  cont_count,    \* contacts this call processes
  tid,           \* evdev: ABS_MT_TRACKING_ID of every slot
  dist,          \* evdev: ABS_MT_DISTANCE of every slot
  changed,       \* evdev: slots whose tracking id changed since the last sync
  sync,          \* the last step was an imt_intr exit that called evdev_sync
  last,          \* what the last contact step did (history)
  frameTotal,    \* the last non-zero Contact Count received (history)
  frameDone,     \* contacts processed since that report (history)
  seen           \* seen[id]: the state of the last row decoded with id (history)

vars == <<nconts_todo, intr, cont, cont_count, tid, dist, changed,
          sync, last, frameTotal, frameDone, seen>>

Outcomes == [kind : {"none", "skip"}, slot : {NoContact}]
              \cup [kind : {"touch", "lift"}, slot : Slots]

-----------------------------------------------------------------------------
(* Helpers of imt_intr and of the evdev contract.                          *)

MinOf(a, b) == IF a < b THEN a ELSE b

\* Value hid_get_data_unsigned() returns for channel u of contact record r.
FieldOf(r, u) ==
  CASE u = WMT_TIP_SWITCH -> r.tip
    [] u = WMT_CONFIDENCE -> r.conf
    [] u = WMT_IN_RANGE   -> r.rang
    [] u = WMT_CONTACTID  -> r.cid
    [] OTHER              -> 0

\* slot_data after bzero() and the WMT_FOREACH_USAGE decode loop.
SlotData(c, r) ==
  [u \in Usages |-> IF u \in Caps /\ u \in Locs[c] THEN FieldOf(r, u) ELSE 0]

\* Faulty variant of IsActive: the confidence usage is ignored.
IsActiveTipOnly(sd) == sd[WMT_TIP_SWITCH] # 0

\* The liveness test of imt_intr: tip switch set and, when the device has
\* a confidence usage, confidence set.
IsActive(sd) ==
  sd[WMT_TIP_SWITCH] # 0 /\ ~(WMT_CONFIDENCE \in Caps /\ sd[WMT_CONFIDENCE] = 0)

\* !slot_data[WMT_IN_RANGE]
NotValue(v) == IF v = 0 THEN 1 ELSE 0

\* evdev_get_mt_slot_by_tracking_id()
FreeSlots == {s \in Slots : tid[s] = NoContact /\ s \notin changed}
ResolveSlot(id) ==
  IF \E s \in Slots : tid[s] = id
  THEN CHOOSE s \in Slots : tid[s] = id
  ELSE IF FreeSlots # {}
       THEN CHOOSE s \in FreeSlots : \A t \in FreeSlots : s <= t
       ELSE NoContact

\* Faulty variants: a zero Contact Count also resets the counter; the
\* MIN with nconts_per_report is left out.
NewTodoAlways(count) == count
ContsUncapped(todo) == todo

\* The new hybrid counter: a non-zero Contact Count replaces it.
NewTodo(count) == IF count # 0 THEN count ELSE nconts_todo

\* The contacts one call processes.
ContsThisReport(todo) == MinOf(todo, NContsPerReport)

\* What the specification calls an active contact (spec section 4.6, step
\* 6), stated on the decoded values of a contact row (step 5).
Touching(sd) ==
  sd[WMT_TIP_SWITCH] # 0 /\ (WMT_CONFIDENCE \notin Caps \/ sd[WMT_CONFIDENCE] # 0)

-----------------------------------------------------------------------------
Init ==
  /\ nconts_todo = 0
  /\ intr = "idle"
  /\ cont = 0
  /\ cont_count = 0
  /\ tid = [s \in Slots |-> NoContact]
  /\ dist = [s \in Slots |-> 0]
  /\ changed = {}
  /\ sync = FALSE
  /\ last = [kind |-> "none", slot |-> NoContact]
  /\ frameTotal = 0
  /\ frameDone = 0
  /\ seen = [i \in ContactIds |-> "none"]

\* imt_intr with a report of another id: the early return.
IntrIgnore(id) ==
  /\ intr = "idle"
  /\ id # ReportId
  /\ sync' = FALSE
  /\ UNCHANGED <<nconts_todo, intr, cont, cont_count, tid, dist, changed,
                 last, frameTotal, frameDone, seen>>

\* imt_intr up to the contact loop: the report id check, the Contact Count
\* decode, the hybrid counter update and MIN(nconts_todo, nconts_per_report).
IntrStart(id, count) ==
  /\ intr = "idle"
  /\ id = ReportId
  /\ LET todo == NewTodo(count) IN
       /\ nconts_todo' = todo
       /\ cont_count' = ContsThisReport(todo)
  /\ intr' = "loop"
  /\ cont' = 0
  /\ sync' = FALSE
  /\ frameTotal' = IF count # 0 THEN count ELSE frameTotal
  /\ frameDone' = IF count # 0 THEN 0 ELSE frameDone
  /\ UNCHANGED <<tid, dist, changed, last, seen>>

\* One iteration of the contact loop: decode, resolve the slot, and either
\* skip (slot overflow), push the contact (active) or release the slot.
IntrContact(r) ==
  /\ intr = "loop"
  /\ cont < cont_count
  /\ LET sd   == SlotData(cont, r)
         id   == sd[WMT_CONTACTID]
         slot == ResolveSlot(id)
         newId == IF IsActive(sd) THEN id ELSE NoContact
     IN
       /\ IF slot = NoContact
          THEN /\ last' = [kind |-> "skip", slot |-> NoContact]
               /\ UNCHANGED <<tid, dist, changed>>
          ELSE /\ tid' = [tid EXCEPT ![slot] = newId]
               /\ dist' = IF IsActive(sd) /\ WMT_IN_RANGE \in Caps
                          THEN [dist EXCEPT ![slot] = NotValue(sd[WMT_IN_RANGE])]
                          ELSE dist
               /\ changed' = IF tid[slot] # newId THEN changed \cup {slot}
                             ELSE changed
               /\ last' = [kind |-> IF IsActive(sd) THEN "touch" ELSE "lift",
                           slot |-> slot]
       /\ seen' = [seen EXCEPT ![id] = IF Touching(sd) THEN "touch" ELSE "lift"]
  /\ cont' = cont + 1
  /\ frameDone' = frameDone + 1
  /\ sync' = FALSE
  /\ UNCHANGED <<nconts_todo, intr, cont_count, frameTotal>>

\* The end of imt_intr: the counter drops by the contacts processed and a
\* frame that is complete is closed with evdev_sync(), which also starts a
\* new evdev report (no slot has changed in it yet).
IntrFinish ==
  /\ intr = "loop"
  /\ cont = cont_count
  /\ nconts_todo' = nconts_todo - cont_count
  /\ sync' = (nconts_todo' = 0)
  /\ changed' = IF nconts_todo' = 0 THEN {} ELSE changed
  /\ intr' = "idle"
  /\ UNCHANGED <<cont, cont_count, tid, dist, last, frameTotal,
                 frameDone, seen>>

Next ==
  \/ \E id \in ReportIds : IntrIgnore(id)
  \/ \E id \in ReportIds, count \in 0 .. MaxCount : IntrStart(id, count)
  \/ \E r \in ContactData : IntrContact(r)
  \/ IntrFinish

Spec == Init /\ [][Next]_vars

-----------------------------------------------------------------------------
(* Properties.                                                             *)

TypeOK ==
  /\ nconts_todo \in 0 .. MaxCount
  /\ intr \in {"idle", "loop"}
  /\ cont_count \in 0 .. NContsPerReport
  /\ cont \in 0 .. cont_count
  /\ tid \in [Slots -> ContactIds \cup {NoContact}]
  /\ dist \in [Slots -> {0, 1}]
  /\ changed \subseteq Slots
  /\ sync \in BOOLEAN
  /\ last \in Outcomes
  /\ frameTotal \in 0 .. MaxCount
  /\ frameDone \in 0 .. MaxCount
  /\ seen \in [ContactIds -> {"none", "touch", "lift"}]

(* Hybrid delivery (imt_intr, the nconts_todo counter): when evdev_sync()  *)
(* closes a frame, exactly as many contacts were processed since the last *)
(* report with a non-zero Contact Count as that count announced, however  *)
(* the device split the frame over reports.                               *)
FrameAccounting == sync => frameDone = frameTotal

(* Release handling (imt_intr with evdev's slot allocator): a slot tracks *)
(* a contact id only while the last contact row the driver decoded with   *)
(* that id was active in the sense of spec section 4.6 (tip switch set    *)
(* and, when the device has a confidence usage, confident), across slot   *)
(* overflow, frames split over reports and ids that reappear.  A lifted  *)
(* or palm-rejected contact never stays tracked.                          *)
TrackedMeansTouching ==
  \A s \in Slots : tid[s] # NoContact => seen[tid[s]] = "touch"

(* The hybrid counter as the frame specification sees it: inside the     *)
(* contact loop the contacts of the current call are already taken.       *)
AbsTodo == IF intr = "loop" THEN nconts_todo - cont_count ELSE nconts_todo
AbsDone == IF intr = "loop" THEN frameDone + (cont_count - cont) ELSE frameDone

HF == INSTANCE HybridFrame
        WITH PerReport <- NContsPerReport, total <- frameTotal,
             done <- AbsDone, todo <- AbsTodo

(* Refinement: imt_intr, split into its entry, one step per contact and   *)
(* its exit, implements the one-report-at-a-time hybrid delivery machine  *)
(* of spec section 4.6: a non-zero Contact Count replaces the counter, a  *)
(* zero count keeps it, and each call takes MIN(counter, per report).     *)
HybridFrameRefined == HF!Spec

(* Spec section 4.6: the in-range flag of a still-touching contact        *)
(* toggles from one report to the next: when the first contact row of a  *)
(* report is pushed to a slot that stays with the same contact, the slot *)
(* gets the other ABS_MT_DISTANCE value than the earlier report gave it.  *)
(* The first row is taken so that the earlier value is from an earlier   *)
(* report, never from a row of the same report.                          *)
InRangeAlternates ==
  [][intr = "loop" /\ cont = 0 /\ cont' = cont + 1
       /\ last'.kind = "touch" /\ tid[last'.slot] = tid'[last'.slot]
       => dist'[last'.slot] # dist[last'.slot]]_vars

(* Spec section 4.6 (state machine): evdev_sync() is emitted only on the  *)
(* transition that completes a frame, i.e. by a call that processed at    *)
(* least one contact; a zero-count report while idle is a no-op.          *)
SyncOnlyEndsFrame == sync => cont_count > 0
=============================================================================
