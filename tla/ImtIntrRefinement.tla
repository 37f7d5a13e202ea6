------------------------- MODULE ImtIntrRefinement -------------------------
(***************************************************************************)
(* Proof that the imt_intr model implements the hybrid delivery machine    *)
(* of HybridFrame under the mapping of ImtIntr (HF): frameTotal is the     *)
(* frame's count, and inside the contact loop the contacts of the current  *)
(* call count as already taken.  IntrStart is the abstract report step;    *)
(* the contact steps, the exit and a foreign report are stutters.          *)
(***************************************************************************)
EXTENDS ImtIntr_proofs

\* The entry of imt_intr is one step of the frame machine: Begin for a
\* non-zero Contact Count, Continue for a zero one while contacts remain,
\* and nothing for a zero one while idle.
LEMMA StartRefines ==
  ASSUME IInv, NEW id \in ReportIds, NEW count \in 0 .. MaxCount,
         IntrStart(id, count)
  PROVE  [HF!Next]_HF!vars
<1>1. /\ intr = "idle" /\ intr' = "loop" /\ cont' = 0
      /\ nconts_todo' = NewTodo(count)
      /\ cont_count' = ContsThisReport(NewTodo(count))
      /\ frameTotal' = IF count # 0 THEN count ELSE frameTotal
      /\ frameDone' = IF count # 0 THEN 0 ELSE frameDone
  BY DEF IntrStart
<1>3. /\ nconts_todo \in Nat /\ frameDone \in Nat
      /\ NewTodo(count) \in Nat /\ ContsThisReport(NewTodo(count)) \in Nat
  BY NContsAssumption DEF IInv, TypeOK, NewTodo, ContsThisReport, MinOf
<1>2. /\ AbsTodo = nconts_todo /\ AbsDone = frameDone
      /\ AbsTodo' = NewTodo(count) - ContsThisReport(NewTodo(count))
      /\ AbsDone' = frameDone' + ContsThisReport(NewTodo(count))
  BY <1>1, <1>3 DEF AbsTodo, AbsDone
<1>4. CASE count # 0
  <2>1. NewTodo(count) = count /\ count \in 1 .. MaxCount
    BY <1>4, MaxCountAssumption DEF NewTodo
  <2>2. HF!Begin(count)
    BY <1>1, <1>3, <1>4, <2>1
    DEF HF!Begin, HF!Taken, ContsThisReport, MinOf, AbsTodo, AbsDone
  <2>. QED  BY <2>1, <2>2 DEF HF!Next
<1>5. CASE count = 0 /\ nconts_todo > 0
  <2>1. NewTodo(count) = nconts_todo
    BY <1>5 DEF NewTodo
  <2>2. HF!Continue
    BY <1>1, <1>3, <1>5, <2>1
    DEF HF!Continue, HF!Draining, HF!Taken, ContsThisReport, MinOf,
        AbsTodo, AbsDone
  <2>. QED  BY <2>2 DEF HF!Next
<1>6. CASE count = 0 /\ nconts_todo = 0
  <2>1. NewTodo(count) = 0 /\ ContsThisReport(0) = 0
    BY <1>6, NContsAssumption DEF NewTodo, ContsThisReport, MinOf
  <2>. QED  BY <1>1, <1>2, <1>3, <1>6, <2>1 DEF HF!vars
<1>. QED  BY <1>3, <1>4, <1>5, <1>6

\* One contact of the loop takes nothing more of the frame.
LEMMA ContactRefines ==
  ASSUME IInv, NEW r \in ContactData, IntrContact(r)
  PROVE  UNCHANGED HF!vars
<1>1. /\ intr = "loop" /\ intr' = "loop" /\ cont' = cont + 1
      /\ frameDone' = frameDone + 1
      /\ UNCHANGED <<nconts_todo, cont_count, frameTotal>>
  BY DEF IntrContact
<1>2. cont \in Nat /\ cont_count \in Nat /\ frameDone \in Nat
  BY DEF IInv, TypeOK
<1>. QED  BY <1>1, <1>2 DEF HF!vars, AbsTodo, AbsDone

\* The exit of imt_intr subtracts what the entry already took.
LEMMA FinishRefines ==
  ASSUME IInv, IntrFinish
  PROVE  UNCHANGED HF!vars
<1>1. /\ intr = "loop" /\ intr' = "idle" /\ cont = cont_count
      /\ nconts_todo' = nconts_todo - cont_count
      /\ UNCHANGED <<frameTotal, frameDone>>
  BY DEF IntrFinish
<1>2. frameDone \in Nat /\ cont_count \in Nat
  BY DEF IInv, TypeOK
<1>. QED  BY <1>1, <1>2 DEF HF!vars, AbsTodo, AbsDone

\* Every step of imt_intr is a step of the frame machine or a stutter.
LEMMA NextRefines == IInv /\ [Next]_vars => [HF!Next]_HF!vars
<1> SUFFICES ASSUME IInv, [Next]_vars PROVE [HF!Next]_HF!vars
  OBVIOUS
<1>1. CASE \E id \in ReportIds : IntrIgnore(id)
  BY <1>1 DEF IntrIgnore, HF!vars, AbsTodo, AbsDone
<1>2. CASE \E id \in ReportIds, count \in 0 .. MaxCount : IntrStart(id, count)
  BY <1>2, StartRefines
<1>3. CASE \E r \in ContactData : IntrContact(r)
  BY <1>3, ContactRefines
<1>4. CASE IntrFinish
  BY <1>4, FinishRefines
<1>5. CASE UNCHANGED vars
  BY <1>5 DEF vars, HF!vars, AbsTodo, AbsDone
<1>. QED  BY <1>1, <1>2, <1>3, <1>4, <1>5 DEF Next

(* Refinement (imt_intr against spec section 4.6): every behaviour of the *)
(* decoder, seen through the mapping HF, is a behaviour of the hybrid     *)
(* delivery machine, for every profile and report stream.                 *)
THEOREM HybridFrameRefinedHolds == Spec => HybridFrameRefined
<1>1. Init => HF!Init
  BY DEF Init, HF!Init, AbsTodo, AbsDone
<1>2. IInv /\ [Next]_vars => [HF!Next]_HF!vars
  BY NextRefines
<1>. QED  BY <1>1, <1>2, IInvHolds, PTL DEF Spec, HybridFrameRefined, HF!Spec
=============================================================================
