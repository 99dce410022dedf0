--------------------------- MODULE StaleOfedProofs ---------------------------
(***************************************************************************)
(* StaleOfed for every set of nodes, pools, DaemonSets and selectors, every *)
(* grace period and any number of faults.                                   *)
(***************************************************************************)
EXTENDS StaleOfed, TLAPS

\* An annotation is not older than the last sighting of the pool, up to the
\* fraction of a second that RFC3339 drops.
AgeInv == \A k \in Key : mark[k] >= 0 => mark[k] <= seen[k] + (Second - 1)

\* The scratch state of a sync, before and after planning.
RunInv ==
  /\ pc \in {"apply", "plan"} => run.protected = {}
  /\ ~run.ofed => run.live = {} /\ run.protected = {}

\* createOrUpdateObjs has written every DaemonSet of a live pool.
AppliedInv ==
  pc \in {"plan", "sweepShared", "sweepDS", "sweepRbac", "finish"} =>
    \A k \in desiredDaemonSetKeys(run.live) : k \in ds /\ sel[k] = run.sel

\* Planning has sorted the DaemonSets into desired, protected and stale, and
\* left a stale one only on purpose or after the grace period.
PlannedInv ==
  pc \in {"sweepShared", "sweepDS", "sweepRbac", "finish"} =>
    /\ \A k \in desiredDaemonSetKeys(run.live) : mark[k] = Unmarked
    /\ \A k \in run.protected : mark[k] # Unmarked /\ ~Intended(k)
    /\ \A k \in StaleKeys : Intended(k) \/ seen[k] >= Grace - (Second - 1)

\* After the sweep no stale DaemonSet is left.
SweptInv == pc \in {"sweepRbac", "finish"} => StaleKeys = {}

IInv == TypeOK /\ AgeInv /\ RunInv /\ AppliedInv /\ PlannedInv /\ SweptInv


-----------------------------------------------------------------------------
(***************************************************************************)
(* Type correctness.                                                        *)
(***************************************************************************)

LEMMA NextPhase ==
  ASSUME NEW x \in Int
  PROVE  x % Second \in 0 .. Second - 1
  BY TimeAssumption

LEMMA IdleType == Idle \in RunType
  BY Zenon DEF Idle, RunType

LEMMA DesiredType ==
  ASSUME NEW L \in SUBSET Pool
  PROVE  desiredDaemonSetKeys(L) \in SUBSET Key
  BY NamesAssumption DEF desiredDaemonSetKeys

LEMMA AddAfterType ==
  ASSUME timer \in {NoTimer} \cup Nat, NEW d \in Nat, AddAfter(d)
  PROVE  timer' \in Nat
  BY Zenon DEF AddAfter, NoTimer

LEMMA MarksType ==
  ASSUME TypeOK, NEW D
  PROVE  Marks(D) \in [Key -> {Unmarked, Garbled} \cup Ages]
  BY TimeAssumption DEF TypeOK, Marks, markStaleSince, Ages

LEMMA IdleRun ==
  ~Idle.ofed /\ Idle.live = {} /\ Idle.protected = {} /\ ~Idle.found
  BY Zenon DEF Idle

\* What Reconcile, the plan and the sweeps make of the scratch state.
LEMMA ReconcileRun ==
  ASSUME TypeOK, Reconcile
  PROVE  /\ run' \in RunType
         /\ run'.ofed = spec.ofed /\ run'.protected = {} /\ (~spec.ofed => run'.live = {})
<1>1. run' = [ofed |-> spec.ofed, sel |-> spec.sel,
              live |-> IF spec.ofed THEN ofedNodePools(spec.sel) ELSE {},
              protected |-> {}, next |-> 0, found |-> FALSE]
  BY Zenon DEF Reconcile, Idle
<1>2. spec.ofed \in BOOLEAN /\ spec.sel \in SUBSET Entry
  BY SelectorAssumption, Zenon DEF TypeOK
<1>3. ofedNodePools(spec.sel) \in SUBSET Pool
  BY Zenon DEF ofedNodePools
<1>4. QED
  BY <1>1, <1>2, <1>3 DEF RunType

LEMMA PlanRun ==
  ASSUME TypeOK, planStaleRetention
  PROVE  /\ run' \in RunType
         /\ run'.ofed = run.ofed /\ run'.sel = run.sel /\ run'.live = run.live
         /\ run'.protected = {k \in ds \ desiredDaemonSetKeys(run.live) :
                                deferralRemaining(k, run.sel, run.live) > 0}
         /\ run'.protected # {} => run'.next \in 1 .. Grace
<1> DEFINE P == {k \in ds \ desiredDaemonSetKeys(run.live) :
                   deferralRemaining(k, run.sel, run.live) > 0}
<1>1. PICK d \in 0 .. Grace :
        /\ IsNextDeadline(d, P, run.sel, run.live)
        /\ run' = [run EXCEPT !.protected = P, !.next = d]
  BY Zenon DEF planStaleRetention
<1>2. run \in RunType /\ P \in SUBSET Key /\ d \in Nat
  BY TimeAssumption DEF TypeOK, RunOK
<1>3. /\ run' \in RunType /\ run'.protected = P /\ run'.next = d
      /\ run'.ofed = run.ofed /\ run'.sel = run.sel /\ run'.live = run.live
  BY <1>1, <1>2, Zenon DEF RunType
<1>4. P # {} => d > 0
  BY <1>1, Zenon DEF IsNextDeadline
<1>5. QED
  BY <1>3, <1>4, TimeAssumption

LEMMA SweepRun ==
  ASSUME TypeOK, sweepShared \/ sweepDS \/ sweepRbac
  PROVE  /\ run' \in RunType
         /\ run'.ofed = run.ofed /\ run'.sel = run.sel /\ run'.live = run.live
         /\ run'.protected = run.protected /\ run'.next = run.next
<1>1. PICK f \in BOOLEAN : run' = [run EXCEPT !.found = f]
  <2>1. run.found \in BOOLEAN
    BY Zenon DEF TypeOK, RunOK, RunType
  <2>2. QED
    BY <2>1, Zenon DEF TypeOK, sweepShared, sweepDS, sweepRbac
<1>2. QED
  BY <1>1, Zenon DEF TypeOK, RunOK, RunType

LEMMA RunTyped ==
  ASSUME TypeOK, [Next]_vars
  PROVE  RunOK'
<1>0. RunOK
  BY Zenon DEF TypeOK
<1>1. CASE pc' = "idle" /\ run' = Idle
  BY <1>1, IdleType, IdleRun, Zenon DEF RunOK
<1>2. CASE UNCHANGED <<pc, run>>
  BY <1>0, <1>2, Zenon DEF RunOK
<1>3. CASE Reconcile
  BY <1>3, ReconcileRun, Zenon DEF RunOK, Reconcile
<1>4. CASE createOrUpdateObjs
  BY <1>0, <1>4, Zenon DEF RunOK, createOrUpdateObjs
<1>5. CASE planStaleRetention
  BY <1>0, <1>5, PlanRun, Zenon DEF RunOK, planStaleRetention
<1>6. CASE sweepShared \/ sweepDS \/ sweepRbac
  BY <1>0, <1>6, SweepRun, Zenon DEF RunOK, sweepShared, sweepDS, sweepRbac
<1>7. CASE NotReady \/ Ready \/ ReconcileFails \/ createOrUpdateFails \/ planFails
           \/ sweepFails \/ OperatorRestarts
  BY <1>1, <1>7, Zenon DEF NotReady, Ready, ReconcileFails, createOrUpdateFails, planFails,
                    sweepFails, OperatorRestarts, Abort
<1>8. CASE (\E k \in Key : AnnotationGarbled(k)) \/ Cluster \/ TimerFires \/ Tick
  BY <1>2, <1>8, Zenon DEF AnnotationGarbled, Cluster, NodeChanges, PolicyChanges, TimerFires, Tick
<1>9. CASE UNCHANGED vars
  BY <1>2, <1>9, Zenon DEF vars
<1>10. QED
  BY <1>3, <1>4, <1>5, <1>6, <1>7, <1>8, <1>9, Zenon DEF Next, Worker, Fault

\* Every state of the model is well typed: the age of an annotation stays
\* between 0 and the grace period, and a sync defers removals only for a
\* policy with ofedDriver, with a deadline within the grace period.
THEOREM TypeCorrect == Spec => []TypeOK
<1>1. Init => TypeOK
  BY TimeAssumption, NamesAssumption, IdleType, IdleRun
     DEF Init, TypeOK, RunOK, Ages, PC, Unmarked, NoTimer
<1>2. TypeOK /\ [Next]_vars => TypeOK'
  <2> SUFFICES ASSUME TypeOK, [Next]_vars PROVE TypeOK'
    BY Zenon
  <2>0. RunOK' /\ run \in RunType
    BY RunTyped, Zenon DEF TypeOK, RunOK
  <2> USE <2>0, TimeAssumption DEF TypeOK, PC, cluster, objects
  <2>1. CASE Reconcile
    BY <2>1, Zenon DEF Reconcile
  <2>2. CASE createOrUpdateObjs
    BY <2>2, DesiredType DEF createOrUpdateObjs, Write, NotifyOwner, RunType, Ages
  <2>3. CASE planStaleRetention
    <3>1. mark' \in [Key -> {Unmarked, Garbled} \cup Ages]
      BY <2>3, MarksType, Zenon DEF planStaleRetention
    <3>2. seen' \in [Key -> Ages]
      BY <2>3 DEF planStaleRetention, Seen, Ages
    <3>4. queued' \in BOOLEAN
      BY <2>3, Zenon DEF planStaleRetention, NotifyOwner
    <3>5. QED
      BY <2>3, <3>1, <3>2, <3>4, Zenon DEF planStaleRetention
  <2>4. CASE sweepShared \/ sweepRbac
    BY <2>4, Zenon DEF sweepShared, sweepRbac
  <2>5. CASE sweepDS
    BY <2>5, Zenon DEF sweepDS, Delete, StaleKeys, NotifyOwner
  <2>6. CASE NotReady
    BY <2>6, AddAfterType, Zenon DEF NotReady
  <2>7. CASE Ready
    BY <2>7, AddAfterType, Zenon DEF Ready, requeueForStates, RunType
  <2>8. CASE ReconcileFails
    BY <2>8, AddAfterType DEF ReconcileFails, Abort
  <2>9. CASE createOrUpdateFails
    <3>1. PICK D \in SUBSET desiredDaemonSetKeys(run.live) : Write(D)
      BY <2>9, Zenon DEF createOrUpdateFails
    <3>2. D \in SUBSET Key /\ run.sel \in SUBSET Entry
      BY DesiredType, Zenon DEF RunType
    <3>3. ds' \in SUBSET Key /\ sel' \in [Key -> SUBSET Entry]
      BY <3>1, <3>2, Zenon DEF Write
    <3>4. mark' \in [Key -> {Unmarked, Garbled} \cup Ages] /\ seen' \in [Key -> Ages]
      BY <3>1 DEF Write, Ages
    <3>5. queued' \in BOOLEAN /\ shared' \in BOOLEAN /\ rbac' \in BOOLEAN
      BY <2>9, Zenon DEF createOrUpdateFails, NotifyOwner
    <3>6. QED
      BY <2>9, <3>3, <3>4, <3>5, AddAfterType DEF createOrUpdateFails, Abort
  <2>10. CASE planFails
    BY <2>10, AddAfterType
       DEF planFails, Abort, Marks, Seen, markStaleSince, NotifyOwner, Ages
  <2>11. CASE sweepFails
    BY <2>11, AddAfterType DEF sweepFails, Abort, Delete, NotifyOwner
  <2>12. CASE OperatorRestarts
    BY <2>12 DEF OperatorRestarts
  <2>13. ASSUME NEW k \in Key, AnnotationGarbled(k) PROVE TypeOK'
    BY <2>13 DEF AnnotationGarbled
  <2>14. ASSUME NEW n \in Node, NEW p \in Pool \cup {NoPool}, NodeChanges(n, p)
         PROVE  TypeOK'
    BY <2>14, Zenon DEF NodeChanges
  <2>15. ASSUME NEW o \in BOOLEAN, NEW s \in Selectors, PolicyChanges(o, s)
         PROVE  TypeOK'
    BY <2>15, Zenon DEF PolicyChanges
  <2>16. CASE TimerFires
    BY <2>16, Zenon DEF TimerFires
  <2>17. CASE Tick
    <3>1. phase' \in 0 .. Second - 1
      BY <2>17, NextPhase DEF Tick
    <3>2. QED
      BY <2>17, <3>1 DEF Tick, Older, Ages, NoTimer, Unmarked, Garbled
  <2>18. CASE UNCHANGED vars
    BY <2>18, Zenon DEF vars
  <2>19. QED
    BY <2>1, <2>2, <2>3, <2>4, <2>5, <2>6, <2>7, <2>8, <2>9, <2>10, <2>11, <2>12,
       <2>13, <2>14, <2>15, <2>16, <2>17, <2>18, Zenon
       DEF Next, Worker, Fault, Cluster
<1>3. QED
  BY <1>1, <1>2, PTL DEF Spec

-----------------------------------------------------------------------------
(***************************************************************************)
(* The inductive invariant, one conjunct at a time.                         *)
(***************************************************************************)

\* A step that changes neither annotations nor sightings, or both together
\* in one of the ways the code does.
LEMMA AgeStep ==
  ASSUME TypeOK, AgeInv, [Next]_vars
  PROVE  AgeInv'
<1> USE TimeAssumption DEF TypeOK, AgeInv, Ages, Unmarked, Garbled
<1>1. ASSUME NEW D, Write(D) PROVE AgeInv'
  BY <1>1 DEF Write
<1>2. ASSUME NEW D, mark' = Marks(D), seen' = Seen(D) PROVE AgeInv'
  BY <1>2 DEF Marks, Seen, markStaleSince
<1>3. ASSUME NEW D, Delete(D) PROVE AgeInv'
  BY <1>3 DEF Delete
<1>4. CASE UNCHANGED <<mark, seen>>
  BY <1>4, Zenon
<1>5. CASE createOrUpdateObjs \/ createOrUpdateFails
  BY <1>1, <1>5, Zenon DEF createOrUpdateObjs, createOrUpdateFails
<1>6. CASE planStaleRetention \/ planFails
  BY <1>2, <1>6, Zenon DEF planStaleRetention, planFails
<1>7. CASE sweepDS \/ sweepFails
  BY <1>3, <1>7, Zenon DEF sweepDS, sweepFails
<1>8. CASE Reconcile \/ sweepShared \/ sweepRbac \/ NotReady \/ Ready \/ ReconcileFails
           \/ OperatorRestarts \/ TimerFires
  BY <1>4, <1>8, Zenon DEF Reconcile, sweepShared, sweepRbac, NotReady, Ready,
                    ReconcileFails, OperatorRestarts, TimerFires, objects
<1>9. CASE \E k \in Key : AnnotationGarbled(k)
  BY <1>9 DEF AnnotationGarbled
<1>10. CASE Cluster
  BY <1>4, <1>10, Zenon DEF Cluster, NodeChanges, PolicyChanges, objects
<1>11. CASE Tick
  BY <1>11 DEF Tick, Older
<1>12. CASE UNCHANGED vars
  BY <1>4, <1>12, Zenon DEF vars
<1>13. QED
  BY <1>5, <1>6, <1>7, <1>8, <1>9, <1>10, <1>11, <1>12, Zenon DEF Next, Worker, Fault

LEMMA RunStep ==
  ASSUME TypeOK, RunInv, [Next]_vars
  PROVE  RunInv'
<1> USE DEF RunInv
<1>1. CASE pc' = "idle" /\ run' = Idle
  BY <1>1, IdleRun, Zenon
<1>2. CASE UNCHANGED <<pc, run>>
  BY <1>2, Zenon
<1>3. CASE Reconcile
  BY <1>3, ReconcileRun, Zenon DEF Reconcile
<1>4. CASE createOrUpdateObjs
  BY <1>4, Zenon DEF createOrUpdateObjs
<1>5. CASE planStaleRetention
  BY <1>5, PlanRun, Zenon DEF planStaleRetention, TypeOK, RunOK
<1>6. CASE sweepShared \/ sweepDS \/ sweepRbac
  BY <1>6, SweepRun, Zenon DEF sweepShared, sweepDS, sweepRbac
<1>7. CASE NotReady \/ Ready \/ ReconcileFails \/ createOrUpdateFails \/ planFails
           \/ sweepFails \/ OperatorRestarts
  BY <1>1, <1>7, Zenon DEF NotReady, Ready, ReconcileFails, createOrUpdateFails, planFails,
                    sweepFails, OperatorRestarts, Abort
<1>8. CASE (\E k \in Key : AnnotationGarbled(k)) \/ Cluster \/ TimerFires \/ Tick
  BY <1>2, <1>8, Zenon DEF AnnotationGarbled, Cluster, NodeChanges, PolicyChanges, TimerFires, Tick
<1>9. CASE UNCHANGED vars
  BY <1>2, <1>9, Zenon DEF vars
<1>10. QED
  BY <1>3, <1>4, <1>5, <1>6, <1>7, <1>8, <1>9, Zenon DEF Next, Worker, Fault

LEMMA AppliedStep ==
  ASSUME TypeOK, AppliedInv, [Next]_vars
  PROVE  AppliedInv'
<1> USE DEF AppliedInv, desiredDaemonSetKeys
<1>1. CASE pc' \in {"idle", "apply"}
  BY <1>1, Zenon
<1>2. CASE UNCHANGED <<pc, run, ds, sel>>
  BY <1>2, Zenon
<1>3. CASE Reconcile
  <2>1. run'.live = {} \/ pc' = "apply"
    BY <1>3, Zenon DEF Reconcile, Idle
  <2>2. QED
    BY <1>1, <2>1, Zenon
<1>4. CASE createOrUpdateObjs
  BY <1>4, DesiredType, Zenon DEF createOrUpdateObjs, Write, TypeOK, RunOK, RunType
<1>5. CASE planStaleRetention
  BY <1>5, PlanRun, Zenon DEF planStaleRetention
<1>6. CASE sweepShared \/ sweepRbac
  BY <1>6, SweepRun, Zenon DEF sweepShared, sweepRbac
<1>7. CASE sweepDS
  <2>1. \A k \in desiredDaemonSetKeys(run.live) : k \in Key /\ k \notin StaleKeys
    BY DesiredType, Zenon DEF StaleKeys, TypeOK, RunOK, RunType
  <2>2. \A k \in desiredDaemonSetKeys(run.live) : k \in ds' /\ sel'[k] = run.sel
    BY <1>7, <2>1, Zenon DEF sweepDS, Delete
  <2>3. QED
    BY <1>7, <2>2, SweepRun, Zenon
<1>8. CASE NotReady \/ Ready \/ ReconcileFails \/ createOrUpdateFails \/ planFails
           \/ sweepFails \/ OperatorRestarts
  BY <1>1, <1>8, Zenon DEF NotReady, Ready, ReconcileFails, createOrUpdateFails, planFails,
                    sweepFails, OperatorRestarts, Abort
<1>9. CASE (\E k \in Key : AnnotationGarbled(k)) \/ Cluster \/ TimerFires \/ Tick
  BY <1>2, <1>9, Zenon DEF AnnotationGarbled, Cluster, NodeChanges, PolicyChanges, TimerFires,
                    Tick, objects
<1>10. CASE UNCHANGED vars
  BY <1>2, <1>10, Zenon DEF vars
<1>11. QED
  BY <1>3, <1>4, <1>5, <1>6, <1>7, <1>8, <1>9, <1>10, Zenon DEF Next, Worker, Fault

\* A plan protects what has grace left and leaves the rest for a reason.
LEMMA PlanSorts ==
  ASSUME TypeOK, AgeInv, RunInv, AppliedInv, planStaleRetention
  PROVE  PlannedInv'
<1> USE TimeAssumption DEF TypeOK
<1>1. run.ofed /\ run'.ofed
  BY PlanRun, Zenon DEF RunOK, planStaleRetention
<1>2. ds' = ds /\ sel' = sel /\ mark' = Marks(ds) /\ seen' = Seen(ds)
  BY Zenon DEF planStaleRetention
<1>3. \A k \in desiredDaemonSetKeys(run.live) : k \in Key /\ k \in ds
  BY DesiredType, Zenon DEF AppliedInv, planStaleRetention, RunOK, RunType
<1>4. \A k \in desiredDaemonSetKeys(run'.live) : mark'[k] = Unmarked
  BY <1>2, <1>3, PlanRun, Zenon DEF Marks
<1>5. ASSUME NEW k \in Key PROVE Intended(k)' <=> Unwanted(k, run.sel, run.live)
  BY <1>1, <1>2, <1>5, PlanRun, NamesAssumption, Zenon
     DEF Intended, Covered, Unwanted, ofedSelectorRetargeted
<1>6. ASSUME NEW k \in run'.protected PROVE mark'[k] # Unmarked /\ ~Intended(k)'
  <2>1. /\ k \in ds /\ k \in Key /\ k \notin desiredDaemonSetKeys(run.live)
        /\ deferralRemaining(k, run.sel, run.live) > 0
    BY <1>6, PlanRun, Zenon
  <2>2. ~Unwanted(k, run.sel, run.live)
    BY <2>1 DEF deferralRemaining
  <2>3. mark'[k] = markStaleSince(k)
    BY <1>2, <2>1, <2>2, Zenon DEF Marks
  <2>4. mark'[k] >= 0
    BY <2>1, <2>3 DEF markStaleSince
  <2>5. QED
    BY <1>5, <2>1, <2>2, <2>4 DEF Unmarked
<1>7. ASSUME NEW k \in StaleKeys' PROVE Intended(k)' \/ seen'[k] >= Grace - (Second - 1)
  <2>1. /\ k \in ds /\ k \in Key /\ k \notin desiredDaemonSetKeys(run.live)
        /\ ~(deferralRemaining(k, run.sel, run.live) > 0)
    BY <1>2, <1>7, PlanRun, Zenon DEF StaleKeys, desiredDaemonSetKeys
  <2>2. CASE Unwanted(k, run.sel, run.live)
    BY <1>5, <2>1, <2>2, Zenon
  <2>3. CASE ~Unwanted(k, run.sel, run.live)
    <3>1. ~(Grace - StaleAge(k) > 0)
      BY <2>1, <2>3, Zenon DEF deferralRemaining
    <3>2. mark[k] >= Grace
      BY <2>1, <3>1 DEF StaleAge, Ages, Unmarked, Garbled
    <3>3. seen[k] >= Grace - (Second - 1)
      BY <2>1, <3>2 DEF AgeInv, Ages, Unmarked, Garbled
    <3>4. seen'[k] = seen[k]
      BY <1>2, <2>1, Zenon DEF Seen
    <3>5. QED
      BY <3>3, <3>4, Zenon
  <2>4. QED
    BY <2>2, <2>3, Zenon
<1>8. QED
  BY <1>4, <1>6, <1>7, Zenon DEF PlannedInv

LEMMA SweepEmptiesStale ==
  ASSUME TypeOK, sweepDS
  PROVE  /\ StaleKeys' = {}
         /\ \A k \in Key \ StaleKeys : sel'[k] = sel[k] /\ mark'[k] = mark[k]
<1>1. StaleKeys' = {}
  BY SweepRun, Zenon DEF StaleKeys, sweepDS, Delete, desiredDaemonSetKeys
<1>2. \A k \in Key \ StaleKeys : sel'[k] = sel[k] /\ mark'[k] = mark[k]
  BY Zenon DEF sweepDS, Delete
<1>3. QED
  BY <1>1, <1>2, Zenon

LEMMA PlannedStep ==
  ASSUME TypeOK, AgeInv, RunInv, AppliedInv, PlannedInv, [Next]_vars
  PROVE  PlannedInv'
<1>1. CASE pc' \in {"idle", "apply", "plan"}
  BY <1>1, Zenon DEF PlannedInv
<1>2. CASE UNCHANGED <<pc, run, ds, sel, mark, seen>>
  BY <1>2, Zenon DEF PlannedInv, StaleKeys, desiredDaemonSetKeys, Intended, Covered
<1>3. CASE Reconcile
  <2>1. CASE spec.ofed
    BY <1>1, <1>3, <2>1, Zenon DEF Reconcile
  <2>2. CASE ~spec.ofed
    <3>1. ~run'.ofed /\ run'.live = {} /\ run'.protected = {}
      BY <1>3, <2>2, ReconcileRun, Zenon
    <3>2. QED
      BY <3>1, Zenon DEF PlannedInv, Intended, desiredDaemonSetKeys
  <2>3. QED
    BY <2>1, <2>2, Zenon
<1>4. CASE createOrUpdateObjs
  BY <1>1, <1>4, Zenon DEF createOrUpdateObjs
<1>5. CASE planStaleRetention
  BY <1>5, PlanSorts, Zenon
<1>6. CASE sweepShared \/ sweepRbac
  BY <1>6, SweepRun, Zenon
     DEF sweepShared, sweepRbac, PlannedInv, StaleKeys, desiredDaemonSetKeys, Intended, Covered
<1>7. CASE sweepDS
  <2>1. PlannedInv!2
    BY <1>7, Zenon DEF sweepDS, PlannedInv
  <2>2. \A k \in desiredDaemonSetKeys(run.live) : k \in Key \ StaleKeys
    BY DesiredType, Zenon DEF StaleKeys, TypeOK, RunOK, RunType
  <2>3. \A k \in desiredDaemonSetKeys(run'.live) : mark'[k] = Unmarked
    BY <1>7, <2>1, <2>2, SweepRun, SweepEmptiesStale, Zenon
  <2>4. ASSUME NEW k \in run'.protected PROVE mark'[k] # Unmarked /\ ~Intended(k)'
    <3>1. k \in run.protected /\ k \in Key \ StaleKeys
      BY <1>7, <2>4, SweepRun, Zenon DEF StaleKeys, TypeOK, RunOK, RunType
    <3>2. mark[k] # Unmarked /\ ~Intended(k)
      BY <2>1, <3>1, Zenon
    <3>3. QED
      BY <1>7, <3>1, <3>2, SweepRun, SweepEmptiesStale, Zenon DEF Intended, Covered
  <2>5. QED
    BY <1>7, <2>3, <2>4, SweepEmptiesStale, Zenon DEF PlannedInv
<1>8. CASE NotReady \/ Ready \/ ReconcileFails \/ createOrUpdateFails \/ planFails
           \/ sweepFails \/ OperatorRestarts
  BY <1>1, <1>8, Zenon DEF NotReady, Ready, ReconcileFails, createOrUpdateFails, planFails,
                    sweepFails, OperatorRestarts, Abort
<1>9. ASSUME NEW x \in Key, AnnotationGarbled(x) PROVE PlannedInv'
  <2> SUFFICES ASSUME pc \in {"sweepShared", "sweepDS", "sweepRbac", "finish"} PROVE PlannedInv'
    BY <1>9, Zenon DEF AnnotationGarbled, PlannedInv
  <2>1. PlannedInv!2
    BY Zenon DEF PlannedInv
  <2>2. \A k \in Key : mark'[k] = IF k = x THEN Garbled ELSE mark[k]
    BY <1>9, Zenon DEF AnnotationGarbled, TypeOK
  <2>3. \A k \in desiredDaemonSetKeys(run.live) : k \in Key /\ k # x
    BY <1>9, <2>1, DesiredType DEF AnnotationGarbled, TypeOK, RunOK, RunType, Unmarked
  <2>4. \A k \in run.protected : k \in Key /\ mark'[k] # Unmarked
    BY <2>1, <2>2 DEF TypeOK, RunOK, RunType, Unmarked, Garbled
  <2>5. QED
    BY <1>9, <2>1, <2>2, <2>3, <2>4, Zenon
       DEF AnnotationGarbled, PlannedInv, StaleKeys, desiredDaemonSetKeys, Intended, Covered
<1>10. CASE Cluster \/ TimerFires
  BY <1>2, <1>10, Zenon DEF Cluster, NodeChanges, PolicyChanges, TimerFires, objects
<1>11. CASE Tick
  <2> SUFFICES ASSUME pc \in {"sweepShared", "sweepDS", "sweepRbac", "finish"} PROVE PlannedInv'
    BY <1>11, Zenon DEF Tick, PlannedInv
  <2>1. PlannedInv!2
    BY Zenon DEF PlannedInv
  <2>2. \A k \in Key : (mark'[k] = Unmarked <=> mark[k] = Unmarked) /\ seen'[k] >= seen[k]
    BY <1>11, TimeAssumption DEF Tick, Older, TypeOK, Ages, Unmarked, Garbled
  <2>3. /\ desiredDaemonSetKeys(run.live) \subseteq Key /\ run.protected \subseteq Key
        /\ StaleKeys \subseteq Key
    BY DesiredType, Zenon DEF TypeOK, RunOK, RunType, StaleKeys
  <2>4. \A k \in StaleKeys : Intended(k) \/ seen'[k] >= Grace - (Second - 1)
    <3> SUFFICES ASSUME NEW k \in StaleKeys, ~Intended(k)
                 PROVE  seen'[k] >= Grace - (Second - 1)
      BY Zenon
    <3>1. seen[k] >= Grace - (Second - 1) /\ seen[k] \in Ages
      BY <2>1, <2>3, Zenon DEF TypeOK
    <3>2. seen'[k] = Older(seen[k])
      BY <1>11, <2>3, Zenon DEF Tick
    <3>3. QED
      BY <3>1, <3>2, TimeAssumption DEF Older, Ages
  <2>5. QED
    BY <1>11, <2>1, <2>2, <2>3, <2>4, Zenon
       DEF Tick, PlannedInv, StaleKeys, desiredDaemonSetKeys, Intended, Covered
<1>12. CASE UNCHANGED vars
  BY <1>2, <1>12, Zenon DEF vars
<1>13. QED
  BY <1>3, <1>4, <1>5, <1>6, <1>7, <1>8, <1>9, <1>10, <1>11, <1>12, Zenon
     DEF Next, Worker, Fault

LEMMA SweptStep ==
  ASSUME TypeOK, SweptInv, [Next]_vars
  PROVE  SweptInv'
<1> USE DEF SweptInv, StaleKeys, desiredDaemonSetKeys
<1>1. CASE pc' \notin {"sweepRbac", "finish"}
  BY <1>1, Zenon
<1>2. CASE UNCHANGED <<pc, run, ds>>
  BY <1>2, Zenon
<1>3. CASE sweepDS \/ sweepRbac
  BY <1>3, SweepEmptiesStale, SweepRun, Zenon DEF sweepRbac
<1>4. CASE Reconcile \/ createOrUpdateObjs \/ planStaleRetention \/ sweepShared
  BY <1>1, <1>4, Zenon DEF Reconcile, createOrUpdateObjs, planStaleRetention, sweepShared
<1>5. CASE NotReady \/ Ready \/ ReconcileFails \/ createOrUpdateFails \/ planFails
           \/ sweepFails \/ OperatorRestarts
  BY <1>1, <1>5, Zenon DEF NotReady, Ready, ReconcileFails, createOrUpdateFails, planFails,
                    sweepFails, OperatorRestarts, Abort
<1>6. CASE (\E k \in Key : AnnotationGarbled(k)) \/ Cluster \/ TimerFires \/ Tick
  BY <1>2, <1>6, Zenon DEF AnnotationGarbled, Cluster, NodeChanges, PolicyChanges, TimerFires,
                    Tick, objects
<1>7. CASE UNCHANGED vars
  BY <1>2, <1>7, Zenon DEF vars
<1>8. QED
  BY <1>3, <1>4, <1>5, <1>6, <1>7, Zenon DEF Next, Worker, Fault

-----------------------------------------------------------------------------
(***************************************************************************)
(* The theorems.                                                            *)
(***************************************************************************)

LEMMA Inductive == Spec => []IInv
<1>1. Init => IInv
  <2> SUFFICES ASSUME Init PROVE IInv
    BY Zenon
  <2>1. TypeOK
    BY TimeAssumption, NamesAssumption, IdleType, IdleRun
       DEF Init, TypeOK, RunOK, Ages, PC, Unmarked, NoTimer
  <2>2. AgeInv
    BY DEF Init, AgeInv, Unmarked
  <2>3. RunInv /\ AppliedInv /\ PlannedInv /\ SweptInv
    BY IdleRun, Zenon DEF Init, RunInv, AppliedInv, PlannedInv, SweptInv
  <2>4. QED
    BY <2>1, <2>2, <2>3, Zenon DEF IInv
<1>2. IInv /\ TypeOK' /\ [Next]_vars => IInv'
  BY AgeStep, RunStep, AppliedStep, PlannedStep, SweptStep, Zenon DEF IInv
<1>3. QED
  BY <1>1, <1>2, TypeCorrect, PTL DEF Spec

\* For every instance: a DaemonSet that a sync deletes without the policy
\* asking for it belongs to a pool that planning has not seen with eligible
\* nodes for the grace period, up to the rounding of the annotation.
THEOREM GracePeriodKept == Spec => ReapedOnlyAfterGrace
<1>1. ASSUME IInv, [Next]_vars, NEW k \in ds \ ds'
      PROVE  Intended(k) \/ seen[k] >= Grace - (Second - 1)
  <2>1. CASE sweepDS \/ sweepFails
    <3>1. k \in StaleKeys /\ pc \in {"sweepShared", "sweepDS", "sweepRbac"}
      BY <1>1, <2>1, Zenon DEF sweepDS, sweepFails, Delete
    <3>2. QED
      BY <1>1, <3>1, Zenon DEF IInv, PlannedInv
  <2>2. CASE createOrUpdateObjs \/ createOrUpdateFails
    BY <1>1, <2>2, Zenon DEF createOrUpdateObjs, createOrUpdateFails, Write
  <2>3. CASE UNCHANGED ds
    BY <1>1, <2>3, Zenon
  <2>4. QED
    BY <1>1, <2>1, <2>2, <2>3, Zenon
       DEF Next, Worker, Fault, Cluster, Reconcile, planStaleRetention, sweepShared,
           sweepRbac, NotReady, Ready, ReconcileFails, planFails, OperatorRestarts,
           AnnotationGarbled, NodeChanges, PolicyChanges, TimerFires, Tick, objects, vars
<1>2. IInv /\ [Next]_vars =>
        [\A k \in ds \ ds' : Intended(k) \/ seen[k] >= Grace - (Second - 1)]_vars
  BY <1>1, Zenon
<1>3. QED
  BY <1>2, Inductive, PTL DEF Spec, ReapedOnlyAfterGrace

\* For every instance: a completed sync leaves behind the DaemonSets it
\* rendered and the deferred ones, and nothing else.
THEOREM SyncConverges == Spec => []SyncLeavesOnlyWanted
<1>1. IInv => SyncLeavesOnlyWanted
  BY Zenon DEF IInv, AppliedInv, PlannedInv, SweptInv, StaleKeys, SyncLeavesOnlyWanted
<1>2. QED
  BY <1>1, Inductive, PTL

\* For every instance: while a DaemonSet carries a stale-since annotation
\* and the worker is idle, a request or a timer is pending, so that somebody
\* comes back to end the deferral.
THEOREM DeferralRevisited == Spec => []DeferralHasWakeUp
<1>1. Init => DeferralHasWakeUp
  BY Zenon DEF Init, DeferralHasWakeUp
<1>2. IInv /\ DeferralHasWakeUp /\ [Next]_vars => DeferralHasWakeUp'
  <2> SUFFICES ASSUME IInv, DeferralHasWakeUp, [Next]_vars
               PROVE  DeferralHasWakeUp'
    BY Zenon
  <2> USE DEF DeferralHasWakeUp
  <2>1. CASE pc' # "idle"
    BY <2>1, Zenon
  <2>2. CASE UNCHANGED <<pc, ds, mark, queued, timer>>
    BY <2>2, Zenon
  <2>3. CASE Reconcile \/ createOrUpdateObjs \/ planStaleRetention
             \/ sweepShared \/ sweepDS \/ sweepRbac
    BY <2>1, <2>3, Zenon
       DEF Reconcile, createOrUpdateObjs, planStaleRetention, sweepShared, sweepDS, sweepRbac
  <2>4. ASSUME NEW d \in Nat, AddAfter(d) PROVE timer' # NoTimer
    BY <2>4, AddAfterType DEF IInv, TypeOK, NoTimer
  <2>5. CASE NotReady \/ ReconcileFails \/ createOrUpdateFails \/ planFails \/ sweepFails
    BY <2>4, <2>5, TimeAssumption, Zenon
       DEF NotReady, ReconcileFails, createOrUpdateFails, planFails, sweepFails, Abort
  <2>6. CASE Ready
    <3> SUFFICES ASSUME NEW k \in ds, mark[k] # Unmarked PROVE timer' # NoTimer
      BY <2>6, Zenon DEF Ready, objects
    <3>1. k \in run.protected
      BY <2>6, Zenon DEF Ready, IInv, PlannedInv, SweptInv, StaleKeys
    <3>2. run.next > 0 /\ run.next \in Nat
      BY <3>1 DEF IInv, TypeOK, RunOK
    <3>3. QED
      BY <2>4, <2>6, <3>2, Zenon DEF Ready, requeueForStates
  <2>7. CASE OperatorRestarts \/ TimerFires \/ Cluster \/ \E k \in Key : AnnotationGarbled(k)
    BY <2>7, Zenon DEF OperatorRestarts, TimerFires, Cluster, NodeChanges, PolicyChanges,
                AnnotationGarbled
  <2>8. CASE Tick
    <3>1. \A k \in ds : mark'[k] # Unmarked => mark[k] # Unmarked
      BY <2>8, TimeAssumption DEF Tick, Older, IInv, TypeOK, Ages, Unmarked, Garbled
    <3>2. timer # NoTimer => timer' # NoTimer
      BY <2>8 DEF Tick, IInv, TypeOK, NoTimer
    <3>3. QED
      BY <2>8, <3>1, <3>2, Zenon DEF Tick
  <2>9. CASE UNCHANGED vars
    BY <2>2, <2>9, Zenon DEF vars
  <2>10. QED
    BY <2>3, <2>5, <2>6, <2>7, <2>8, <2>9, Zenon DEF Next, Worker, Fault
<1>3. QED
  BY <1>1, <1>2, Inductive, PTL DEF Spec

\* The roles and bindings go after the DaemonSets: they are there as long as
\* one is.
RbacInv == rbac \/ ds = {}

\* The ServiceAccount and the ConfigMap go before them: as long as no call
\* failed and no operator crashed, they are there for every DaemonSet, except
\* within a sweep that is about to delete all of them.
SharedInv ==
  faults = 0 =>
    /\ run.protected \subseteq ds
    /\ shared \/ ds = {} \/ (pc = "sweepDS" /\ run.live = {} /\ run.protected = {})

LEMMA RbacStep ==
  ASSUME IInv, RbacInv, [Next]_vars
  PROVE  RbacInv'
<1> USE DEF RbacInv
<1>1. CASE UNCHANGED <<rbac, ds>>
  BY <1>1, Zenon
<1>2. CASE createOrUpdateObjs
  <2>1. run.live = {} => desiredDaemonSetKeys(run.live) = {}
    BY Zenon DEF desiredDaemonSetKeys
  <2>2. QED
    BY <1>2, <2>1, Zenon DEF createOrUpdateObjs, Write
<1>3. CASE createOrUpdateFails
  <2>1. PICK D \in SUBSET desiredDaemonSetKeys(run.live) :
          /\ Write(D)
          /\ rbac' \in {rbac, TRUE}
          /\ D # {} \/ shared' # shared => shared' /\ rbac'
    BY <1>3, Zenon DEF createOrUpdateFails
  <2>2. CASE rbac' = TRUE
    BY <2>2, Zenon
  <2>3. CASE rbac' = rbac /\ D = {}
    BY <2>1, <2>3, Zenon DEF Write
  <2>4. QED
    BY <2>1, <2>2, <2>3, Zenon
<1>4. CASE sweepDS \/ sweepFails
  BY <1>4, Zenon DEF sweepDS, sweepFails, Delete
<1>5. CASE sweepRbac
  <2>1. ~KeepShared => ds = {}
    <3>1. StaleKeys = {}
      BY <1>5, Zenon DEF sweepRbac, IInv, SweptInv
    <3>2. QED
      BY <3>1, Zenon DEF KeepShared, StaleKeys, desiredDaemonSetKeys
  <2>2. QED
    BY <1>5, <2>1, Zenon DEF sweepRbac
<1>6. QED
  BY <1>1, <1>2, <1>3, <1>4, <1>5, Zenon
     DEF Next, Worker, Fault, Cluster, Reconcile, planStaleRetention, sweepShared, NotReady,
         Ready, ReconcileFails, planFails, OperatorRestarts, AnnotationGarbled, NodeChanges,
         PolicyChanges, TimerFires, Tick, objects, vars

LEMMA SharedStep ==
  ASSUME IInv, SharedInv, [Next]_vars
  PROVE  SharedInv'
<1>0. faults \in Nat /\ ds \subseteq Key
  BY TimeAssumption DEF IInv, TypeOK
<1>1. CASE UNCHANGED <<faults, run, ds, shared, pc>>
  BY <1>1, Zenon DEF SharedInv
<1>2. CASE faults' = faults + 1
  BY <1>0, <1>2 DEF SharedInv
<1>3. CASE Reconcile \/ NotReady \/ Ready
  <2>1. run'.protected = {} /\ UNCHANGED <<faults, ds, shared>>
    BY <1>3, ReconcileRun, IdleRun, Zenon DEF Reconcile, NotReady, Ready, objects, IInv
  <2>2. pc # "sweepDS"
    BY <1>3, Zenon DEF Reconcile, NotReady, Ready
  <2>3. QED
    BY <2>1, <2>2, Zenon DEF SharedInv
<1>4. CASE createOrUpdateObjs
  <2>1. /\ ds' = ds \cup desiredDaemonSetKeys(run.live) /\ shared' = (shared \/ run.live # {})
        /\ pc = "apply" /\ UNCHANGED <<run, faults>>
    BY <1>4, Zenon DEF createOrUpdateObjs, Write
  <2>2. run.live = {} => desiredDaemonSetKeys(run.live) = {}
    BY Zenon DEF desiredDaemonSetKeys
  <2>3. QED
    BY <2>1, <2>2, Zenon DEF SharedInv
<1>5. CASE planStaleRetention
  <2>1. run'.protected \subseteq ds /\ run'.live = run.live
    BY <1>5, PlanRun, Zenon DEF IInv
  <2>2. QED
    BY <1>5, <2>1, Zenon DEF planStaleRetention, SharedInv
<1>6. CASE sweepShared \/ sweepRbac
  <2>1. run'.live = run.live /\ run'.protected = run.protected
    BY <1>6, SweepRun, Zenon DEF IInv
  <2>2. CASE sweepShared
    BY <2>1, <2>2, Zenon DEF sweepShared, KeepShared, SharedInv
  <2>3. CASE sweepRbac
    BY <2>1, <2>3, Zenon DEF sweepRbac, SharedInv
  <2>4. QED
    BY <1>6, <2>2, <2>3, Zenon
<1>7. CASE sweepDS
  <2>1. ds' = ds \ StaleKeys /\ UNCHANGED <<shared, faults>>
    BY <1>7, Zenon DEF sweepDS, Delete
  <2>2. run'.protected = run.protected
    BY <1>7, SweepRun, Zenon DEF IInv
  <2>3. run.live = {} /\ run.protected = {} => ds' = {}
    BY <2>1, Zenon DEF StaleKeys, desiredDaemonSetKeys
  <2>4. run.protected \subseteq ds => run.protected \subseteq ds'
    BY <2>1, Zenon DEF StaleKeys
  <2>5. QED
    BY <2>1, <2>2, <2>3, <2>4, Zenon DEF SharedInv
<1>8. CASE ReconcileFails \/ createOrUpdateFails \/ planFails \/ sweepFails \/ OperatorRestarts
           \/ \E k \in Key : AnnotationGarbled(k)
  BY <1>2, <1>8, Zenon DEF ReconcileFails, createOrUpdateFails, planFails, sweepFails, OperatorRestarts,
                    AnnotationGarbled, Abort
<1>9. CASE Cluster \/ TimerFires \/ Tick
  BY <1>1, <1>9, Zenon DEF Cluster, NodeChanges, PolicyChanges, TimerFires, Tick, objects
<1>10. CASE UNCHANGED vars
  BY <1>1, <1>10, Zenon DEF vars
<1>11. QED
  BY <1>3, <1>4, <1>5, <1>6, <1>7, <1>8, <1>9, <1>10, Zenon DEF Next, Worker, Fault

\* For every instance: as long as no call failed and no operator crashed, a
\* DaemonSet that a sync keeps although it did not render it has the shared
\* objects its pods need to restart (sweepShared deletes its part of them only
\* ahead of the last DaemonSet, sweepRbac the other only after it).
THEOREM RetainedKeepShared == Spec => []FaultFreeRetainedCanRestart
<1>1. Init => RbacInv /\ SharedInv
  BY IdleRun, Zenon DEF Init, RbacInv, SharedInv
<1>2. RbacInv /\ SharedInv => FaultFreeRetainedCanRestart
  BY Zenon DEF RbacInv, SharedInv, FaultFreeRetainedCanRestart, RetainedCanRestart
<1>3. QED
  BY <1>1, <1>2, RbacStep, SharedStep, Inductive, PTL DEF Spec

=============================================================================
