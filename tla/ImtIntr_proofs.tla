--------------------------- MODULE ImtIntr_proofs ---------------------------
(***************************************************************************)
(* Proofs about the imt_intr model, for every value of the constants that *)
(* satisfies the assumptions of ImtIntr: the type invariant and the frame *)
(* accounting of hybrid delivery.                                          *)
(***************************************************************************)
EXTENDS ImtIntr, WellFoundedInduction, TLAPS

(* The inductive strengthening.  In the contact loop the counter has not *)
(* been decremented yet, so the contacts of the current call (cont) are  *)
(* counted both in frameDone and in nconts_todo; MIN() keeps the call    *)
(* within the counter, so the decrement at the exit never goes below 0;  *)
(* and evdev_sync() is only called by an exit that brought it to 0.      *)
IInv ==
  /\ TypeOK
  /\ intr = "loop" => /\ cont_count <= nconts_todo
                      /\ frameDone + nconts_todo = frameTotal + cont
  /\ intr = "idle" => frameDone + nconts_todo = frameTotal
  /\ sync => intr = "idle" /\ nconts_todo = 0

-----------------------------------------------------------------------------
(* Lemmas on the helpers.                                                  *)

\* A non-empty set of naturals has a least element (the lowest free slot
\* of evdev_get_mt_slot_by_tracking_id exists).
LEMMA NatMinExists ==
  ASSUME NEW T, T \subseteq Nat, T # {}
  PROVE  \E x \in T : \A y \in T : x <= y
<1>1. \E x \in T : \A y \in T : ~(<<y, x>> \in OpToRel(<, Nat))
  BY NatLessThanWellFounded, WFMin
<1>2. ASSUME NEW x \in T, NEW y \in T, ~(<<y, x>> \in OpToRel(<, Nat))
      PROVE  x <= y
  <2>1. <<y, x>> \in Nat \X Nat
    OBVIOUS
  <2>2. ~(y < x)
    BY <1>2, <2>1, Zenon DEF OpToRel
  <2>. QED  BY <2>2
<1>. QED  BY <1>1, <1>2

\* evdev_get_mt_slot_by_tracking_id returns a slot or -1.
LEMMA ResolveSlotType ==
  ASSUME TypeOK, NEW id
  PROVE  ResolveSlot(id) \in Slots \cup {NoContact}
<1>1. CASE \E s \in Slots : tid[s] = id
  BY <1>1 DEF ResolveSlot
<1>2. CASE ~(\E s \in Slots : tid[s] = id) /\ FreeSlots # {}
  <2>1. FreeSlots \subseteq Nat
    BY SlotMaxAssumption, MaxSlotsAssumption DEF FreeSlots, Slots
  <2>2. \E x \in FreeSlots : \A y \in FreeSlots : x <= y
    BY <1>2, <2>1, NatMinExists
  <2>3. FreeSlots \subseteq Slots
    BY DEF FreeSlots
  <2>. QED  BY <1>2, <2>2, <2>3 DEF ResolveSlot
<1>3. CASE ~(\E s \in Slots : tid[s] = id) /\ FreeSlots = {}
  BY <1>3 DEF ResolveSlot
<1>. QED  BY <1>1, <1>2, <1>3

\* The contact id imt_intr decodes is a contact id of the device or 0.
LEMMA SlotDataType ==
  ASSUME NEW c, NEW r \in ContactData
  PROVE  /\ SlotData(c, r)[WMT_CONTACTID] \in ContactIds
         /\ NotValue(SlotData(c, r)[WMT_IN_RANGE]) \in {0, 1}
  BY ValuesAssumption
  DEF SlotData, FieldOf, ContactData, Usages, NotValue, WMT_CONTACTID,
      WMT_N_USAGES, WMT_IN_RANGE, WMT_TIP_SWITCH, WMT_CONFIDENCE

-----------------------------------------------------------------------------
(* IInv is an inductive invariant of Spec.                                  *)

LEMMA InitIInv == Init => IInv
<1> SUFFICES ASSUME Init PROVE IInv
  OBVIOUS
<1>1. last \in Outcomes
  BY DEF Init, Outcomes
<1>2. /\ tid \in [Slots -> ContactIds \cup {NoContact}]
      /\ dist \in [Slots -> {0, 1}]
      /\ seen \in [ContactIds -> {"none", "touch", "lift"}]
  BY DEF Init
<1>3. /\ nconts_todo \in 0 .. MaxCount /\ frameTotal \in 0 .. MaxCount
      /\ frameDone \in 0 .. MaxCount
      /\ cont_count \in 0 .. NContsPerReport /\ cont \in 0 .. cont_count
  BY MaxCountAssumption, NContsAssumption DEF Init
<1>4. TypeOK
  BY <1>1, <1>2, <1>3 DEF Init, TypeOK
<1>. QED
  BY <1>4 DEF Init, IInv

LEMMA NextIInv == IInv /\ [Next]_vars => IInv'
<1> SUFFICES ASSUME IInv, [Next]_vars PROVE IInv'
  OBVIOUS
<1>1. CASE \E id \in ReportIds : IntrIgnore(id)
  BY <1>1 DEF IntrIgnore, IInv, TypeOK, Outcomes, Slots, NoContact
<1>2. CASE \E id \in ReportIds, count \in 0 .. MaxCount : IntrStart(id, count)
  <2>1. PICK id \in ReportIds, count \in 0 .. MaxCount : IntrStart(id, count)
    BY <1>2
  <2>2. NewTodo(count) \in 0 .. MaxCount
    BY DEF IInv, TypeOK, NewTodo
  <2>3. /\ nconts_todo' = NewTodo(count)
        /\ cont_count' = ContsThisReport(NewTodo(count))
        /\ intr' = "loop" /\ cont' = 0 /\ sync' = FALSE
        /\ frameTotal' = IF count # 0 THEN count ELSE frameTotal
        /\ frameDone' = IF count # 0 THEN 0 ELSE frameDone
        /\ UNCHANGED <<tid, dist, changed, last, seen>>
    BY <2>1 DEF IntrStart
  <2>4. /\ ContsThisReport(NewTodo(count)) \in 0 .. NContsPerReport
        /\ ContsThisReport(NewTodo(count)) <= NewTodo(count)
    BY <2>2, NContsAssumption DEF ContsThisReport, MinOf
  <2>5. frameDone' + nconts_todo' = frameTotal' + cont'
    BY <2>1, <2>3 DEF IInv, TypeOK, NewTodo, IntrStart
  <2>6. /\ nconts_todo' \in 0 .. MaxCount
        /\ cont_count' \in 0 .. NContsPerReport /\ cont' \in 0 .. cont_count'
        /\ frameTotal' \in 0 .. MaxCount /\ frameDone' \in 0 .. MaxCount
    BY <2>1, <2>2, <2>3, <2>4, MaxCountAssumption DEF IInv, TypeOK
  <2>7. /\ tid' \in [Slots -> ContactIds \cup {NoContact}]
        /\ dist' \in [Slots -> {0, 1}]
        /\ changed' \subseteq Slots /\ last' \in Outcomes
        /\ seen' \in [ContactIds -> {"none", "touch", "lift"}]
    BY <2>3 DEF IInv, TypeOK
  <2>8. TypeOK'
    BY <2>3, <2>6, <2>7 DEF TypeOK, Outcomes, Slots, NoContact
  <2>. QED
    BY <2>3, <2>4, <2>5, <2>8 DEF IInv
<1>3. CASE \E r \in ContactData : IntrContact(r)
  <2>1. PICK r \in ContactData : IntrContact(r)
    BY <1>3
  <2> DEFINE sd    == SlotData(cont, r)
             id    == sd[WMT_CONTACTID]
             slot  == ResolveSlot(id)
             newId == IF IsActive(sd) THEN id ELSE NoContact
  <2>2. slot \in Slots \cup {NoContact}
    BY ResolveSlotType DEF IInv
  <2>3. /\ id \in ContactIds
        /\ NotValue(sd[WMT_IN_RANGE]) \in {0, 1}
    BY SlotDataType
  <2>4. /\ intr = "loop" /\ cont < cont_count
        /\ cont' = cont + 1 /\ frameDone' = frameDone + 1
        /\ UNCHANGED <<nconts_todo, intr, cont_count, frameTotal>>
        /\ sync' = FALSE
        /\ seen' = [seen EXCEPT ![id] = IF Touching(sd) THEN "touch" ELSE "lift"]
    BY <2>1 DEF IntrContact
  <2>5. /\ frameDone' + nconts_todo' = frameTotal' + cont'
        /\ cont_count' <= nconts_todo'
        /\ cont' \in 0 .. cont_count'
        /\ frameDone' \in 0 .. MaxCount
    BY <2>4, MaxCountAssumption DEF IInv, TypeOK
  <2>6. seen' \in [ContactIds -> {"none", "touch", "lift"}]
    BY <2>3, <2>4 DEF IInv, TypeOK
  <2>7. /\ tid' \in [Slots -> ContactIds \cup {NoContact}]
        /\ dist' \in [Slots -> {0, 1}]
        /\ changed' \subseteq Slots
        /\ last' \in Outcomes
    <3>1. CASE slot = NoContact
      <4>1. /\ last' = [kind |-> "skip", slot |-> NoContact]
            /\ UNCHANGED <<tid, dist, changed>>
        BY <2>1, <3>1 DEF IntrContact
      <4>. QED  BY <4>1 DEF IInv, TypeOK, Outcomes
    <3>2. CASE slot # NoContact
      <4>1. /\ tid' = [tid EXCEPT ![slot] = newId]
            /\ dist' = IF IsActive(sd) /\ WMT_IN_RANGE \in Caps
                        THEN [dist EXCEPT ![slot] = NotValue(sd[WMT_IN_RANGE])]
                        ELSE dist
            /\ changed' = IF tid[slot] # newId THEN changed \cup {slot}
                          ELSE changed
            /\ last' = [kind |-> IF IsActive(sd) THEN "touch" ELSE "lift",
                        slot |-> slot]
        BY <2>1, <3>2 DEF IntrContact
      <4>2. slot \in Slots
        BY <2>2, <3>2
      <4>3. newId \in ContactIds \cup {NoContact}
        BY <2>3
      <4>. QED  BY <2>3, <4>1, <4>2, <4>3 DEF IInv, TypeOK, Outcomes
    <3>. QED  BY <3>1, <3>2
  <2>. QED
    BY <2>4, <2>5, <2>6, <2>7 DEF IInv, TypeOK, Outcomes, Slots, NoContact
<1>4. CASE IntrFinish
  <2>1. /\ intr = "loop" /\ cont = cont_count
        /\ nconts_todo' = nconts_todo - cont_count
        /\ sync' = (nconts_todo' = 0)
        /\ intr' = "idle"
        /\ UNCHANGED <<cont, cont_count, tid, dist, last, frameTotal,
                       frameDone, seen>>
        /\ changed' \subseteq changed
    BY <1>4 DEF IntrFinish
  <2>2. /\ cont_count <= nconts_todo
        /\ frameDone + nconts_todo = frameTotal + cont
        /\ nconts_todo \in 0 .. MaxCount /\ cont_count \in Nat
        /\ frameDone \in Nat /\ frameTotal \in Nat /\ cont \in Nat
    BY <2>1 DEF IInv, TypeOK
  <2>3. /\ frameDone' = frameDone /\ frameTotal' = frameTotal
        /\ nconts_todo' = nconts_todo - cont_count /\ cont = cont_count
    BY <2>1
  <2>4. nconts_todo' \in 0 .. MaxCount
    BY <2>2, <2>3, MaxCountAssumption
  <2>5. frameDone' + nconts_todo' = frameTotal'
    BY <2>2, <2>3
  <2>. QED
    BY <2>1, <2>4, <2>5 DEF IInv, TypeOK, Outcomes, Slots, NoContact
<1>5. CASE UNCHANGED vars
  BY <1>5 DEF vars, IInv, TypeOK, Outcomes, Slots, NoContact
<1>. QED  BY <1>1, <1>2, <1>3, <1>4, <1>5 DEF Next

-----------------------------------------------------------------------------
(* The theorems.                                                           *)

\* IInv holds in every state of every behaviour of imt_intr.
THEOREM IInvHolds == Spec => []IInv
<1>1. Init => IInv
  BY InitIInv
<1>2. IInv /\ [Next]_vars => IInv'
  BY NextIInv
<1>. QED  BY <1>1, <1>2, PTL DEF Spec

\* Type correctness of imt_intr: the hybrid counter stays within
\* 0 .. MaxCount (the decrement at the exit of imt_intr never wraps the
\* unsigned nconts_todo) and the loop stays within nconts_per_report rows.
THEOREM TypeCorrect == Spec => []TypeOK
<1>1. IInv => TypeOK
  BY DEF IInv
<1>. QED  BY <1>1, IInvHolds, PTL

\* Hybrid delivery (imt_intr, sc->nconts_todo): whenever evdev_sync()
\* closes a frame, the contacts processed since the last report with a
\* non-zero Contact Count are exactly the count it announced.
THEOREM FrameAccountingHolds == Spec => []FrameAccounting
<1>1. IInv => FrameAccounting
  <2> SUFFICES ASSUME IInv, sync PROVE frameDone = frameTotal
    BY DEF FrameAccounting
  <2>1. intr = "idle" /\ nconts_todo = 0
    BY DEF IInv
  <2>2. frameDone + nconts_todo = frameTotal /\ frameDone \in Nat
    BY <2>1 DEF IInv, TypeOK
  <2>. QED  BY <2>1, <2>2
<1>. QED  BY <1>1, IInvHolds, PTL

-----------------------------------------------------------------------------
-----------------------------------------------------------------------------
(* Release handling.                                                       *)

\* evdev keeps a tracking id in at most one slot.
TrackedUnique ==
  \A s, t \in Slots : s # t /\ tid[s] # NoContact => tid[s] # tid[t]

TInv == IInv /\ TrackedUnique /\ TrackedMeansTouching

\* The slot lookup returns the slot that already tracks the id.
LEMMA ResolveSlotTracked ==
  ASSUME TypeOK, TrackedUnique, NEW id, NEW s \in Slots, tid[s] = id,
         id # NoContact
  PROVE  ResolveSlot(id) = s
  BY DEF ResolveSlot, TrackedUnique

\* The liveness test of the code is the one of spec section 4.6.
LEMMA IsActiveTouching ==
  ASSUME NEW sd PROVE IsActive(sd) <=> Touching(sd)
  BY DEF IsActive, Touching

LEMMA InitTInv == Init => TInv
  BY InitIInv DEF Init, TInv, TrackedUnique, TrackedMeansTouching

LEMMA NextTInv == TInv /\ [Next]_vars => TInv'
<1> SUFFICES ASSUME TInv, [Next]_vars PROVE TInv'
  OBVIOUS
<1>1. IInv'
  BY NextIInv DEF TInv
<1>2. CASE \E r \in ContactData : IntrContact(r)
  <2>1. PICK r \in ContactData : IntrContact(r)
    BY <1>2
  <2> DEFINE sd    == SlotData(cont, r)
             id    == sd[WMT_CONTACTID]
             slot  == ResolveSlot(id)
             newId == IF IsActive(sd) THEN id ELSE NoContact
  <2>3. /\ id \in ContactIds
        /\ IsActive(sd) <=> Touching(sd)
    BY SlotDataType, IsActiveTouching
  <2>4. seen' = [seen EXCEPT ![id] = IF IsActive(sd) THEN "touch" ELSE "lift"]
    BY <2>1, <2>3 DEF IntrContact
  <2>5. \A s \in Slots : tid[s] = id => slot = s
    BY <2>3, ResolveSlotTracked, ValuesAssumption DEF TInv, IInv, NoContact
  <2>6. /\ TypeOK /\ TrackedUnique /\ TrackedMeansTouching
        /\ Slots \subseteq Nat /\ NoContact \notin ContactIds
    BY ValuesAssumption, SlotMaxAssumption DEF TInv, IInv, Slots, NoContact
  <2>7. CASE slot = NoContact
    <3>1. tid' = tid
      BY <2>1, <2>7 DEF IntrContact
    <3>2. \A s \in Slots : tid[s] # id
      BY <2>5, <2>6, <2>7 DEF NoContact
    <3>3. TrackedUnique'
      BY <3>1, <2>6 DEF TrackedUnique
    <3>4. TrackedMeansTouching'
      BY <2>4, <2>6, <3>1, <3>2 DEF TrackedMeansTouching, TypeOK
    <3>. QED  BY <1>1, <3>3, <3>4 DEF TInv
  <2>8. CASE slot # NoContact
    <3>1. tid' = [tid EXCEPT ![slot] = newId]
      BY <2>1, <2>8 DEF IntrContact
    <3>2. slot \in Slots
      BY <2>8, ResolveSlotType DEF TInv, IInv
    <3>3. \A s \in Slots : s # slot => tid[s] # id
      BY <2>5
    <3>4. TrackedUnique'
      BY <2>6, <3>1, <3>2, <3>3 DEF TrackedUnique, TypeOK
    <3>5. TrackedMeansTouching'
      BY <2>3, <2>4, <2>6, <3>1, <3>2, <3>3 DEF TrackedMeansTouching, TypeOK
    <3>. QED  BY <1>1, <3>4, <3>5 DEF TInv
  <2>. QED  BY <2>7, <2>8
<1>3. CASE ~\E r \in ContactData : IntrContact(r)
  <2>1. UNCHANGED <<tid, seen>>
    BY <1>3 DEF Next, IntrIgnore, IntrStart, IntrFinish, vars
  <2>. QED
    BY <1>1, <2>1 DEF TInv, TrackedUnique, TrackedMeansTouching
<1>. QED  BY <1>2, <1>3

\* Release handling (imt_intr with evdev's slot allocator): for every
\* profile, a slot tracks a contact id only while the last contact row
\* decoded with that id was active: a lift or a palm rejection always
\* releases its slot, even under slot overflow and frames split over
\* reports.
THEOREM TrackedMeansTouchingHolds == Spec => []TrackedMeansTouching
<1>1. Init => TInv
  BY InitTInv
<1>2. TInv /\ [Next]_vars => TInv'
  BY NextTInv
<1>3. TInv => TrackedMeansTouching
  BY DEF TInv
<1>. QED  BY <1>1, <1>2, <1>3, PTL DEF Spec
=============================================================================
