--------------------------- MODULE InFlightProofs ---------------------------
(***************************************************************************)
(* Proofs about InFlight, for every finite set of calls, every cap and     *)
(* every number of limiter tokens.                                         *)
(***************************************************************************)
EXTENDS InFlight, FiniteSetTheorems, TLAPS

\* The counter stays in 0..MaxInFlight only together with the conservation
\* law: that a release does not overflow it takes a holder.  And the holders
\* are known to be what they are only through the phases.
IndInv == TypeOK /\ SlotConservation /\ PhaseInv

LEMMA HoldersFinite == IsFiniteSet(Holders)
  BY InFlightAssumption, FS_Subset DEF Holders

\* A thread that enters the slotted phases adds one holder ...
LEMMA HolderEnters ==
  ASSUME NEW c \in Calls, worker \in [Calls -> Workers],
         worker[c] \notin Slotted,
         NEW phase \in Slotted, worker' = [worker EXCEPT ![c] = phase]
  PROVE  /\ Holders' = Holders \cup {c}
         /\ c \notin Holders
         /\ Cardinality(Holders') = Cardinality(Holders) + 1
  <1>1. Holders' = Holders \cup {c} /\ c \notin Holders
    BY DEF Holders
  <1> QED
    BY <1>1, HoldersFinite, FS_AddElement

\* ... one that leaves them removes one ...
LEMMA HolderLeaves ==
  ASSUME NEW c \in Calls, worker \in [Calls -> Workers],
         worker[c] \in Slotted,
         NEW phase, phase \notin Slotted, worker' = [worker EXCEPT ![c] = phase]
  PROVE  /\ Holders' = Holders \ {c}
         /\ c \in Holders
         /\ Cardinality(Holders') = Cardinality(Holders) - 1
  <1>1. Holders' = Holders \ {c} /\ c \in Holders
    BY DEF Holders
  <1> QED
    BY <1>1, HoldersFinite, FS_RemoveElement

\* ... and every other step of a thread keeps the holders.
LEMMA HolderStays ==
  ASSUME NEW c \in Calls, worker \in [Calls -> Workers],
         NEW phase, phase \in Slotted <=> worker[c] \in Slotted,
         worker' = [worker EXCEPT ![c] = phase]
  PROVE  Holders' = Holders
  BY DEF Holders

-----------------------------------------------------------------------------
LEMMA IndInvInit == Init => IndInv
  <1> SUFFICES ASSUME Init PROVE IndInv
    OBVIOUS
  <1>1. Holders = {}
    BY DEF Init, Holders, Slotted
  <1>2. Cardinality(Holders) = 0
    BY <1>1, FS_EmptySet
  <1>3. TypeOK /\ PhaseInv
    BY InFlightAssumption
    DEF Init, TypeOK, PhaseInv, Handlers, Workers, Idle, Slotted, PreCheck, Verdicts, Outcomes
  <1> QED
    BY <1>2, <1>3, InFlightAssumption DEF Init, IndInv, SlotConservation

\* The phases: one step per actor, each touching one call or all of them.
LEMMA PhaseInvNext == TypeOK /\ PhaseInv /\ [Next]_vars => PhaseInv'
  <1> SUFFICES ASSUME TypeOK, PhaseInv, [Next]_vars PROVE PhaseInv'
    OBVIOUS
  <1> USE DEF TypeOK, PhaseInv, PreCheck, Idle
  <1>1. ASSUME NEW c \in Calls, LoopStep(c) PROVE PhaseInv'
    <2>1. CASE Start(c)   BY <2>1 DEF Start
    <2>2. CASE RunSync(c) BY <2>2 DEF RunSync
    <2>3. CASE Detach(c)  BY <2>3 DEF Detach
    <2>4. CASE Deliver(c) BY <2>4 DEF Deliver, AsToolError
    <2> QED               BY <1>1, <2>1, <2>2, <2>3, <2>4 DEF LoopStep
  <1>2. ASSUME NEW c \in Calls, ThreadStep(c) PROVE PhaseInv'
    <2>1. CASE PickUp(c)         BY <2>1 DEF PickUp, Goto
    <2>2. CASE Acquire(c)        BY <2>2 DEF Acquire, Goto, End
    <2>3. CASE Estimate(c)       BY <2>3 DEF Estimate, Goto, End
    <2>4. CASE CheckCancelled(c) BY <2>4 DEF CheckCancelled, Goto, End
    <2>5. CASE Submit(c)         BY <2>5 DEF Submit, Goto, End
    <2>6. CASE EngineEnd(c)      BY <2>6 DEF EngineEnd, Goto, End
    <2>7. CASE GiveUp(c)         BY <2>7 DEF GiveUp, Goto, End
    <2>8. CASE Release(c)        BY <2>8 DEF Release, Goto
    <2> QED
      BY <1>2, <2>1, <2>2, <2>3, <2>4, <2>5, <2>6, <2>7, <2>8 DEF ThreadStep
  <1>3. ASSUME NEW c \in Calls, Cancel(c) PROVE PhaseInv'
    BY <1>3 DEF Cancel
  <1>4. ASSUME NEW c \in Calls, WarehouseEnds(c) PROVE PhaseInv'
    BY <1>4 DEF WarehouseEnds
  <1>5. CASE Restart
    BY <1>5 DEF Restart
  <1>6. CASE UNCHANGED vars
    BY <1>6 DEF vars
  <1> QED
    BY <1>1, <1>2, <1>3, <1>4, <1>5, <1>6 DEF Next

\* The slots: a thread takes one when it enters the slotted phases and gives
\* one back when it leaves them; no other step touches counter or holders.
LEMMA SlotsNext == IndInv /\ [Next]_vars => TypeOK' /\ SlotConservation'
  <1> SUFFICES ASSUME IndInv, [Next]_vars PROVE TypeOK' /\ SlotConservation'
    OBVIOUS
  <1> USE InFlightAssumption
  <1>0. Cardinality(Holders) \in Nat
    BY HoldersFinite, FS_CardinalityType
  <1>t. TypeOK /\ PhaseInv /\ SlotConservation
    BY DEF IndInv
  <1>1. ASSUME NEW c \in Calls, LoopStep(c) PROVE TypeOK' /\ SlotConservation'
    <2>1. TypeOK'
      BY <1>1, <1>t DEF LoopStep, Start, RunSync, Detach, Deliver, AsToolError, TypeOK,
         Handlers, Workers, Idle, Verdicts, Outcomes
    <2>2. Holders' = Holders
      <3>1. CASE Start(c)
        BY <3>1, <1>t, HolderStays DEF Start, TypeOK, Idle, Slotted
      <3>2. CASE RunSync(c)
        BY <3>2, <1>t, HolderStays DEF RunSync, TypeOK, PhaseInv, Slotted
      <3>3. CASE Detach(c) \/ Deliver(c)
        BY <3>3 DEF Detach, Deliver, Holders
      <3> QED
        BY <1>1, <3>1, <3>2, <3>3 DEF LoopStep
    <2> QED
      BY <1>1, <1>t, <2>1, <2>2 DEF LoopStep, Start, RunSync, Detach, Deliver, SlotConservation
  <1>2. ASSUME NEW c \in Calls, ThreadStep(c) PROVE TypeOK' /\ SlotConservation'
    <2> USE <1>t
    <2>1. CASE Acquire(c) /\ free > 0
      <3>1. worker' = [worker EXCEPT ![c] = "estimating"] /\ free' = free - 1
        BY <2>1 DEF Acquire, Goto, TypeOK
      <3>2. Cardinality(Holders') = Cardinality(Holders) + 1
        BY <2>1, <3>1, HolderEnters DEF Acquire, TypeOK, Slotted
      <3> QED
        BY <1>0, <2>1, <3>1, <3>2
        DEF Acquire, Goto, End, TypeOK, SlotConservation, Workers, Slotted
    <2>2. CASE Release(c)
      <3>1. worker' = [worker EXCEPT ![c] = "exited"] /\ free' = free + 1
        BY <2>2 DEF Release, Goto
      <3>2. Cardinality(Holders') = Cardinality(Holders) - 1 /\ c \in Holders
        BY <2>2, <3>1, HolderLeaves DEF Release, TypeOK, Slotted
      <3>3. Cardinality(Holders') \in Nat
        BY <3>2, HoldersFinite, FS_RemoveElement, FS_CardinalityType, HolderLeaves, <3>1, <2>2
        DEF Release, TypeOK, Slotted
      <3> QED
        BY <1>0, <2>2, <3>1, <3>2, <3>3
        DEF Release, TypeOK, SlotConservation, Workers, Idle
    <2>3. CASE /\ ~(Acquire(c) /\ free > 0) /\ ~Release(c)
      <3>1. TypeOK'
        BY <1>2, <2>3 DEF ThreadStep, PickUp, Acquire, Estimate, CheckCancelled, Submit, EngineEnd,
           GiveUp, Goto, End, TypeOK, Workers, Slotted, Idle, Verdicts
      <3>2. /\ free' = free
            /\ \E phase \in Workers : /\ worker' = [worker EXCEPT ![c] = phase]
                                      /\ phase \in Slotted <=> worker[c] \in Slotted
        BY <1>2, <2>3 DEF ThreadStep, PickUp, Acquire, Estimate, CheckCancelled, Submit, EngineEnd,
           GiveUp, Goto, End, TypeOK, Workers, Slotted, Idle
      <3>3. Holders' = Holders
        BY <3>2, HolderStays DEF TypeOK
      <3> QED
        BY <3>1, <3>2, <3>3 DEF SlotConservation
    <2> QED
      BY <2>1, <2>2, <2>3
  <1>3. ASSUME NEW c \in Calls, Cancel(c) \/ WarehouseEnds(c)
        PROVE  TypeOK' /\ SlotConservation'
    BY <1>3, <1>t DEF Cancel, WarehouseEnds, TypeOK, SlotConservation, Holders
  <1>4. CASE Restart
    <2>1. Holders' = {}
      BY <1>4 DEF Restart, Holders, Slotted
    <2>2. Cardinality(Holders') = 0
      BY <2>1, FS_EmptySet
    <2> QED
      BY <1>4, <1>t, <2>2
      DEF Restart, TypeOK, SlotConservation, Handlers, Workers, Idle, Verdicts, Outcomes
  <1>5. CASE UNCHANGED vars
    BY <1>5, <1>t DEF vars, TypeOK, SlotConservation, Holders
  <1> QED
    BY <1>1, <1>2, <1>3, <1>4, <1>5 DEF Next

LEMMA Inductive == Spec => []IndInv
  <1>1. IndInv /\ [Next]_vars => IndInv'
    BY SlotsNext, PhaseInvNext DEF IndInv
  <1> QED
    BY IndInvInit, <1>1, PTL DEF Spec

-----------------------------------------------------------------------------
\* Every variable keeps its type; in particular the semaphore never goes below
\* zero and its release never raises for passing the initial value.
THEOREM TypeCorrect == Spec => []TypeOK
  <1>1. IndInv => TypeOK
    BY DEF IndInv
  <1> QED
    BY Inductive, <1>1, PTL

\* Every slot is free or held by a thread in the guarded body, however cancels,
\* failures and restarts interleave (server.py:154-174).
THEOREM SlotsConserved == Spec => []SlotConservation
  <1>1. IndInv => SlotConservation
    BY DEF IndInv
  <1> QED
    BY Inductive, <1>1, PTL

\* The hook at run_query_bounded.py:250 is enough: a call cancelled before it
\* never has a statement at the warehouse.
THEOREM EarlyCancelSafe == Spec => []EarlyCancelNeverBills
  <1> DEFINE Early == IndInv /\ EarlyCancelNeverBills
  <1>1. Init => EarlyCancelNeverBills
    BY DEF Init, EarlyCancelNeverBills
  <1>2. Early /\ [Next]_vars => EarlyCancelNeverBills'
    <2> SUFFICES ASSUME Early, [Next]_vars PROVE EarlyCancelNeverBills'
      OBVIOUS
    <2> USE DEF IndInv, TypeOK, PhaseInv, EarlyCancelNeverBills, PreCheck
    <2>1. ASSUME NEW c \in Calls, LoopStep(c) PROVE EarlyCancelNeverBills'
      BY <2>1 DEF LoopStep, Start, RunSync, Detach, Deliver, Idle
    <2>2. ASSUME NEW c \in Calls, Cancel(c) \/ WarehouseEnds(c) PROVE EarlyCancelNeverBills'
      BY <2>2 DEF Cancel, WarehouseEnds
    <2>3. ASSUME NEW c \in Calls, ThreadStep(c) PROVE EarlyCancelNeverBills'
      <3>1. CASE PickUp(c) \/ Acquire(c) \/ Estimate(c) \/ CheckCancelled(c)
        BY <3>1 DEF PickUp, Acquire, Estimate, CheckCancelled, Goto, End
      <3>2. CASE Submit(c) \/ EngineEnd(c) \/ GiveUp(c) \/ Release(c)
        BY <3>2 DEF Submit, EngineEnd, GiveUp, Release, Goto, End
      <3> QED
        BY <2>3, <3>1, <3>2 DEF ThreadStep
    <2>4. CASE Restart
      BY <2>4 DEF Restart
    <2>5. CASE UNCHANGED vars
      BY <2>5 DEF vars
    <2> QED
      BY <2>1, <2>2, <2>3, <2>4, <2>5 DEF Next
  <1> QED
    BY <1>1, <1>2, Inductive, PTL DEF Spec

\* A call recorded as a success has no statement left at the warehouse.
THEOREM SuccessIsClean == Spec => []SuccessLeavesNothingLive
  <1>1. IndInv => SuccessLeavesNothingLive
    BY DEF IndInv, PhaseInv, SuccessLeavesNothingLive
  <1> QED
    BY Inductive, <1>1, PTL

\* The outcome in a call's record is written once: only a coroutine that has
\* not returned writes it, and it returns in the same step.
THEOREM OutcomeWrittenOnce == Spec => OutcomeIsFinal
  <1>1. IndInv /\ [Next]_vars =>
        \A c \in Calls : outcome[c] # "none" => outcome'[c] \in {outcome[c], "none"}
    <2> SUFFICES ASSUME IndInv, [Next]_vars
                 PROVE \A c \in Calls : outcome[c] # "none" => outcome'[c] \in {outcome[c], "none"}
      OBVIOUS
    <2> USE DEF IndInv, TypeOK, PhaseInv
    <2>1. ASSUME NEW d \in Calls, LoopStep(d)
          PROVE  \A c \in Calls : outcome[c] # "none" => outcome'[c] \in {outcome[c], "none"}
      BY <2>1 DEF LoopStep, Start, RunSync, Detach, Deliver
    <2>2. ASSUME NEW d \in Calls, Cancel(d) \/ ThreadStep(d) \/ WarehouseEnds(d)
          PROVE  outcome' = outcome
      BY <2>2 DEF Cancel, WarehouseEnds, ThreadStep, PickUp, Acquire, Estimate, CheckCancelled,
         Submit, EngineEnd, GiveUp, Release
    <2>3. CASE Restart
      BY <2>3 DEF Restart
    <2>4. CASE UNCHANGED vars
      BY <2>4 DEF vars
    <2> QED
      BY <2>1, <2>2, <2>3, <2>4 DEF Next
  <1>2. IndInv /\ [Next]_vars =>
        [\A c \in Calls : outcome[c] # "none" => outcome'[c] \in {outcome[c], "none"}]_vars
    BY <1>1
  <1> QED
    BY Inductive, <1>2, PTL DEF Spec, OutcomeIsFinal

-----------------------------------------------------------------------------
\* A step that keeps the verdicts, or gives one other than "full" to a call
\* that had none, turns nobody away.
LEMMA NobodyRejected ==
  ASSUME NEW c \in Calls, verdict \in [Calls -> Verdicts], verdict[c] # "full",
         NEW v, v # "full", verdict' = [verdict EXCEPT ![c] = v]
  PROVE  Rejected' = Rejected
  BY DEF Rejected

\* The instance carries a copy of Cardinality; it is the same operator.
LEMMA SameCardinality == \A S : Admission!Cardinality(S) = Cardinality(S)
  BY Zenon DEF Cardinality, Admission!Cardinality

\* One step of a thread is an Enter, a Reject or a Leave of the abstract
\* admission control, or nothing to it.
LEMMA ThreadRefines ==
  ASSUME IndInv, NEW c \in Calls, ThreadStep(c)
  PROVE  Admission!Next \/ UNCHANGED Admission!vars
  <1> USE InFlightAssumption
  <1>0. TypeOK /\ PhaseInv /\ SlotConservation /\ Cardinality(Holders) \in Nat
    BY HoldersFinite, FS_CardinalityType DEF IndInv
  <1>1. CASE Acquire(c) /\ free > 0
    <2>1. worker' = [worker EXCEPT ![c] = "estimating"] /\ verdict' = verdict
      BY <1>0, <1>1 DEF Acquire, Goto, TypeOK
    <2>2. Holders' = Holders \cup {c} /\ c \notin Holders
      BY <1>0, <1>1, <2>1, HolderEnters DEF Acquire, TypeOK, Slotted
    <2>3. c \notin Rejected /\ Rejected' = Rejected
      BY <1>0, <1>1, <2>1 DEF Rejected, PhaseInv, Acquire
    <2>4. Cardinality(Holders) < MaxInFlight
      BY <1>0, <1>1 DEF TypeOK, SlotConservation
    <2>5. Admission!Enter(c)
      BY <2>2, <2>3, <2>4, SameCardinality DEF Admission!Enter
    <2> QED
      BY <2>5 DEF Admission!Next
  <1>2. CASE Acquire(c) /\ ~(free > 0)
    <2>1. /\ free = 0
          /\ worker' = [worker EXCEPT ![c] = "exited"]
          /\ verdict' = [verdict EXCEPT ![c] = "full"]
      BY <1>0, <1>2 DEF Acquire, Goto, End, TypeOK
    <2>2. Holders' = Holders /\ c \notin Holders
      BY <1>0, <1>2, <2>1, HolderStays DEF Acquire, TypeOK, Slotted, Holders
    <2>3. c \notin Rejected /\ Rejected' = Rejected \cup {c}
      BY <1>0, <1>2, <2>1 DEF Rejected, PhaseInv, Acquire, TypeOK
    <2>4. Cardinality(Holders) = MaxInFlight
      BY <1>0, <2>1 DEF SlotConservation
    <2>5. Admission!Reject(c)
      BY <2>2, <2>3, <2>4, SameCardinality DEF Admission!Reject
    <2> QED
      BY <2>5 DEF Admission!Next
  <1>3. CASE Release(c)
    <2>1. worker' = [worker EXCEPT ![c] = "exited"] /\ verdict' = verdict
      BY <1>3 DEF Release, Goto
    <2>2. Holders' = Holders \ {c} /\ c \in Holders
      BY <1>0, <1>3, <2>1, HolderLeaves DEF Release, TypeOK, Slotted
    <2>3. Admission!Leave(c)
      BY <2>1, <2>2 DEF Admission!Leave, Rejected
    <2> QED
      BY <2>3 DEF Admission!Next
  <1>4. CASE ~Acquire(c) /\ ~Release(c)
    <2>1. \E phase \in Workers : /\ worker' = [worker EXCEPT ![c] = phase]
                                 /\ phase \in Slotted <=> worker[c] \in Slotted
      BY <1>0, <1>4 DEF ThreadStep, PickUp, Estimate, CheckCancelled, Submit, EngineEnd,
         GiveUp, Goto, End, TypeOK, Workers, Slotted, Idle
    <2>2. Holders' = Holders
      BY <1>0, <2>1, HolderStays DEF TypeOK
    <2>3. /\ verdict[c] = "none"
          /\ \E v \in Verdicts : v # "full" /\ verdict' = [verdict EXCEPT ![c] = v]
      BY <1>0, <1>4 DEF ThreadStep, PickUp, Estimate, CheckCancelled, Submit, EngineEnd,
         GiveUp, Goto, End, TypeOK, PhaseInv, Verdicts
    <2>4. Rejected' = Rejected
      BY <1>0, <2>3, NobodyRejected DEF TypeOK
    <2> QED
      BY <2>2, <2>4 DEF Admission!vars
  <1> QED
    BY <1>1, <1>2, <1>3, <1>4

\* A step of the event loop changes nothing, except that a reused identity is
\* no longer that of a rejected call.
LEMMA LoopRefines ==
  ASSUME IndInv, NEW c \in Calls, LoopStep(c)
  PROVE  Admission!Next \/ UNCHANGED Admission!vars
  <1>0. TypeOK /\ PhaseInv
    BY DEF IndInv
  <1>1. CASE Start(c)
    <2>1. worker' = [worker EXCEPT ![c] = "none"] /\ verdict' = [verdict EXCEPT ![c] = "none"]
      BY <1>1 DEF Start
    <2>2. Holders' = Holders
      BY <1>0, <1>1, <2>1, HolderStays DEF Start, TypeOK, Idle, Slotted
    <2>3. CASE verdict[c] = "full"
      <3>1. c \in Rejected /\ Rejected' = Rejected \ {c}
        BY <1>0, <2>1, <2>3 DEF Rejected, TypeOK
      <3>2. Admission!Forget(c)
        BY <2>2, <3>1 DEF Admission!Forget
      <3> QED
        BY <3>2 DEF Admission!Next
    <2>4. CASE verdict[c] # "full"
      BY <1>0, <2>1, <2>2, <2>4, NobodyRejected DEF TypeOK, Admission!vars
    <2> QED
      BY <2>3, <2>4
  <1>2. CASE RunSync(c)
    <2>1. Holders' = Holders
      BY <1>0, <1>2, HolderStays DEF RunSync, TypeOK, PhaseInv, Slotted
    <2> QED
      BY <1>2, <2>1 DEF RunSync, Rejected, Admission!vars
  <1>3. CASE Detach(c) \/ Deliver(c)
    BY <1>3 DEF Detach, Deliver, Holders, Rejected, Admission!vars
  <1> QED
    BY <1>1, <1>2, <1>3 DEF LoopStep

\* The server implements the abstract admission control: a call is let in only
\* below the cap, turned away only at it, and no cancellation opens or closes a
\* place (server.py:92-174).
THEOREM RefinesAdmission == Spec => ImplementsAdmission
  <1>1. Init => Admission!Init
    BY DEF Init, Admission!Init, Holders, Rejected, Slotted
  <1>2. IndInv /\ [Next]_vars => [Admission!Next]_Admission!vars
    <2> SUFFICES ASSUME IndInv, [Next]_vars
                 PROVE Admission!Next \/ UNCHANGED Admission!vars
      OBVIOUS
    <2>1. ASSUME NEW c \in Calls, LoopStep(c) \/ ThreadStep(c)
          PROVE Admission!Next \/ UNCHANGED Admission!vars
      BY <2>1, LoopRefines, ThreadRefines
    <2>2. ASSUME NEW c \in Calls, Cancel(c) \/ WarehouseEnds(c)
          PROVE UNCHANGED Admission!vars
      BY <2>2 DEF Cancel, WarehouseEnds, Holders, Rejected, Admission!vars
    <2>3. CASE Restart
      <3>1. Admission!Restart
        BY <2>3 DEF Restart, Admission!Restart, Holders, Rejected, Slotted
      <3> QED
        BY <3>1 DEF Admission!Next
    <2>4. CASE UNCHANGED vars
      BY <2>4 DEF vars, Holders, Rejected, Admission!vars
    <2> QED
      BY <2>1, <2>2, <2>3, <2>4 DEF Next
  <1> QED
    BY Inductive, <1>1, <1>2, PTL DEF Spec, ImplementsAdmission, Admission!Spec

=============================================================================
