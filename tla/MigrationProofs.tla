--------------------------- MODULE MigrationProofs ---------------------------
(***************************************************************************)
(* Migration, and Upgrade with it, for every set of nodes and policies and  *)
(* any number of edits, faults and restarts.                                *)
(***************************************************************************)
EXTENDS Migration, TLAPS

\* A pod without the label is on the list of the backfill or came later.
BackfillInv ==
  mig \in {"backfill", "done"} =>
    \A n \in Node : pod[n] # NoPod /\ ~pod[n].labelled => n \in late \/ (mig = "backfill" /\ n \in todo)

\* A pod of the single DaemonSet is on the list to be marked, is marked, or
\* came later; there are no orphans before the DaemonSet is deleted.
MarkInv ==
  /\ single => \A n \in Node : pod[n].ds # "orphan"
  /\ mig = "mark" => \A n \in Node : pod[n].ds = "single" => n \in todo \cup requested \cup unmarked

-----------------------------------------------------------------------------
(***************************************************************************)
(* Type correctness.                                                        *)
(***************************************************************************)

LEMMA SecondOfPair == \A n, o : <<n, o>>[2] = o
  OBVIOUS

LEMMA NoPodType == NoPod \in PodType /\ NoPod.owner = None /\ NoPod.ds = "none" /\ ~NoPod.labelled
  BY Zenon DEF NoPod, PodType

LEMMA IdleType == Idle \in WorkType /\ Idle.pc = "idle"
  BY Zenon DEF Idle, WorkType, Upgrades

LEMMA WantsType ==
  ASSUME NEW n \in Node
  PROVE  Wants(n) \in {None, Ncp, Home[n]} /\ Wants(n) \in Owner \cup {None}
  BY UpgradeAssumption, Zenon DEF Wants, Owner

LEMMA NewPodType ==
  ASSUME NEW o \in Owner \cup {None}, template \in BOOLEAN
  PROVE  NewPod(o) \in PodType /\ NewPod(o).owner = o
  BY Zenon DEF NewPod, PodType

\* What the library does to one node.
LEMMA ApplyEffect ==
  ASSUME TypeOK, NEW o \in Owner, NEW n \in Node, ApplyState(o, n)
  PROVE  /\ label' \in [Node -> State] /\ \A m \in Node : label[m] # "" => label'[m] # ""
         /\ pod' \in [Node -> PodType] /\ \A m \in Node : pod'[m] \in {pod[m], NoPod}
         /\ nm' \subseteq (IF requestor THEN Node \X Owner ELSE {})
         /\ requested' \subseteq requested
<1> USE NoPodType DEF TypeOK, State
<1>1. CASE label[n] \in {"", "done"}
  BY <1>1, Zenon DEF ApplyState
<1>2. CASE label[n] = "required"
  <2>1. /\ label' = [label EXCEPT ![n] = "maintenance"] /\ nm' = IF requestor THEN nm \cup {<<n, o>>} ELSE nm
        /\ requested' = requested \ {n} /\ pod' = pod
    BY <1>2, Zenon DEF ApplyState
  <2>2. <<n, o>> \in Node \X Owner
    BY Zenon
  <2>3. nm' \subseteq (IF requestor THEN Node \X Owner ELSE {})
    BY <2>1, <2>2, Zenon
  <2>4. QED
    BY <2>1, <2>3, Zenon
<1>3. CASE label[n] = "maintenance"
  BY <1>3, Zenon DEF ApplyState
<1>4. CASE label[n] = "restart" /\ (pod[n].ds = "orphan" \/ ~pod[n].current)
  BY <1>4, Zenon DEF ApplyState
<1>5. CASE label[n] = "restart" /\ ~(pod[n].ds = "orphan" \/ ~pod[n].current)
  BY <1>5, Zenon DEF ApplyState
<1>6. QED
  BY <1>1, <1>2, <1>3, <1>4, <1>5, Zenon

LEMMA OutdatedType ==
  ASSUME TypeOK, NEW o \in Owner
  PROVE  /\ Outdated(o) \in [Node -> PodType]
         /\ \A n \in Node :
              /\ Outdated(o)[n].owner = pod[n].owner /\ Outdated(o)[n].ds = pod[n].ds
              /\ Outdated(o)[n].labelled = pod[n].labelled
              /\ pod[n] = NoPod => Outdated(o)[n] = NoPod
  BY NoPodType, UpgradeAssumption, Zenon DEF Outdated, TypeOK, PodType

LEMMA OrphanedType ==
  ASSUME TypeOK, NEW n \in Node
  PROVE  /\ Orphaned(n) \in PodType /\ Orphaned(n).owner = pod[n].owner
         /\ Orphaned(n).ds = "orphan" => pod[n].ds \in {"single", "orphan"}
  BY Zenon DEF Orphaned, TypeOK, PodType

LEMMA CountType ==
  ASSUME TypeOK
  PROVE  /\ edits < setup.edits => edits + 1 \in 0 .. setup.edits
         /\ faults < setup.faults => faults + 1 \in 0 .. setup.faults
  BY MigrationAssumption DEF TypeOK

LEMMA OnwardType ==
  ASSUME TypeOK
  PROVE  Onward \in WorkType /\ Onward.pc \in {"list", "next", "stale"} /\ [Onward EXCEPT !.again = TRUE] \in WorkType
         /\ [Onward EXCEPT !.again = TRUE].pc \in {"list", "next", "stale"}
  BY Zenon DEF Onward, TypeOK, WorkType

LEMMA InitType == Init => TypeOK
<1> SUFFICES ASSUME Init PROVE TypeOK
  BY Zenon
<1>1. setup \in Setups /\ conf = setup.conf /\ cache = conf /\ edits = 0 /\ faults = 0
  BY Zenon DEF Init
<1>2. conf \in [Owner -> Upgrades] /\ Exclusive(conf) /\ edits \in 0 .. setup.edits /\ faults \in 0 .. setup.faults
  BY <1>1, MigrationAssumption
<1>3. single \in BOOLEAN /\ template \in BOOLEAN /\ requestor \in BOOLEAN /\ queue \in BOOLEAN
  BY Zenon DEF Init
<1>4. pod \in [Node -> PodType]
  BY <1>3, NoPodType, WantsType, NewPodType, Zenon DEF Init
<1>5. QED
  BY <1>1, <1>2, <1>3, <1>4, IdleType, Zenon DEF Init, TypeOK, State

\* The steps of a pass that leave the cluster alone are typed if the new work is.
LEMMA WorkStepType ==
  ASSUME TypeOK, Working, UNCHANGED <<fleet, cluster, setup, migration, edits>>, mig = "done",
         faults' \in 0 .. setup.faults, queue' \in BOOLEAN,
         managers' \subseteq NodePolicy, lost' \subseteq NodePolicy,
         work' \in WorkType, work'.pc \in {"apply", "unlabel"} => work'.who \in Owner
  PROVE  TypeOK'
  BY Zenon DEF TypeOK, Working, fleet, cluster, migration, history

LEMMA FailType ==
  ASSUME Fail
  PROVE  queue' \in BOOLEAN /\ work' \in WorkType /\ work'.pc \notin {"apply", "unlabel"}
  BY IdleType, Zenon DEF Fail

LEMMA CleanupFailsType ==
  ASSUME TypeOK, CleanupFails
  PROVE  queue' \in BOOLEAN /\ work' \in WorkType /\ work'.pc \notin {"apply", "unlabel"}
  BY FailType, OnwardType, Zenon DEF CleanupFails, TypeOK

LEMMA StepType ==
  ASSUME TypeOK, mig = "done", Reconcile \/ Step, UNCHANGED <<setup, migration, edits, faults>>
  PROVE  TypeOK'
<1> USE DEF memory
<1>0. faults' \in 0 .. setup.faults /\ Ncp \in Owner /\ NodePolicy \subseteq Owner
  BY Zenon DEF TypeOK, Owner
<1>1. CASE Reconcile
  <2>1. work' \in WorkType /\ work'.pc = "cluster"
    BY <1>1, IdleType, Zenon DEF Reconcile, WorkType
  <2>2. queue' \in BOOLEAN /\ UNCHANGED <<fleet, cluster, memory>> /\ Working
    BY <1>1, Zenon DEF Reconcile
  <2>3. QED
    BY <1>0, <2>1, <2>2, WorkStepType, Zenon DEF TypeOK
<1>2. CASE reconcileClusterPolicyUpgrade
  <2>1. UNCHANGED <<fleet, cluster, managers>> /\ Working /\ lost' \subseteq NodePolicy
    <3>1. HandedOver \subseteq NodePolicy
      BY UpgradeAssumption, Zenon DEF HandedOver, getNodesManagedByNNPsWithOFED, Owner
    <3>2. lost' = lost \/ lost' = lost \cup HandedOver
      BY <1>2, Zenon DEF reconcileClusterPolicyUpgrade
    <3>3. lost' \subseteq NodePolicy
      BY <3>1, <3>2, Zenon DEF TypeOK
    <3>4. QED
      BY <1>2, <3>3, Zenon DEF reconcileClusterPolicyUpgrade
  <2>2. CASE Fail
    BY <1>0, <2>1, <2>2, FailType, WorkStepType, Zenon DEF TypeOK
  <2>3. CASE ~Fail
    <3>1. /\ queue' = queue
          /\ \/ work' = [work EXCEPT !.pc = "unlabel", !.who = Ncp,
                                      !.nodes = Node \ getNodesManagedByNNPsWithOFED]
             \/ work' = [work EXCEPT !.pc = "apply", !.who = Ncp, !.nodes = Pods(Ncp), !.again = TRUE]
      BY <1>2, <2>3, Zenon DEF reconcileClusterPolicyUpgrade
    <3>2. Pods(Ncp) \subseteq Node
      BY Zenon DEF Pods
    <3>3. work' \in WorkType /\ work'.who \in Owner
      <4>1. work \in WorkType /\ cache \in [Owner -> Upgrades]
        BY Zenon DEF TypeOK
      <4>2. CASE work' = [work EXCEPT !.pc = "apply", !.who = Ncp, !.nodes = Pods(Ncp), !.again = TRUE]
        BY <1>0, <3>2, <4>1, <4>2, Zenon DEF WorkType
      <4>3. CASE work' = [work EXCEPT !.pc = "unlabel", !.who = Ncp,
                                      !.nodes = Node \ getNodesManagedByNNPsWithOFED]
        BY <1>0, <4>1, <4>3, Zenon DEF WorkType
      <4>4. QED
        BY <3>1, <4>2, <4>3, Zenon
    <3>4. QED
      BY <1>0, <2>1, <3>1, <3>3, WorkStepType, Zenon DEF TypeOK
  <2>4. QED
    BY <2>2, <2>3, Zenon
<1>3. ASSUME NEW n \in Node, apply(n) PROVE TypeOK'
  <2>1. ApplyState(work.who, n) /\ work.who \in Owner /\ Working /\ UNCHANGED <<queue, memory>>
    BY <1>3, Zenon DEF apply, TypeOK
  <2>2. work' \in WorkType /\ work'.who = work.who
    BY <1>3, Zenon DEF apply, TypeOK, WorkType
  <2>3. drained' \subseteq nm' /\ UNCHANGED <<conf, cache, requestor>>
    BY <2>1, Zenon DEF Working
  <2>4. requested' \subseteq Node
    BY <2>1, ApplyEffect, Zenon DEF TypeOK
  <2>5. QED
    BY <2>1, <2>2, <2>3, <2>4, ApplyEffect, Zenon DEF TypeOK, migration, history
<1>4. CASE applied
  BY <1>0, <1>4, OnwardType, WorkStepType, Zenon DEF applied, TypeOK
<1>5. ASSUME NEW n \in Node, removeUpgradeStateLabelFromNodes(n) PROVE TypeOK'
  <2>1. UNCHANGED <<fleet, nm, memory>> /\ Working
    BY <1>5, Zenon DEF removeUpgradeStateLabelFromNodes
  <2>2. drained' \subseteq nm' /\ UNCHANGED <<conf, cache, requestor>>
    BY <2>1, Zenon DEF Working
  <2>3. label' \in [Node -> State]
    BY <1>5, Zenon DEF removeUpgradeStateLabelFromNodes, TypeOK, State
  <2>4. queue' \in BOOLEAN /\ work' \in WorkType /\ (work'.pc \in {"apply", "unlabel"} => work'.who \in Owner)
    <3>1. CASE CleanupFails
      BY <3>1, CleanupFailsType, Zenon
    <3>2. CASE work' = [work EXCEPT !.nodes = @ \ {n}] /\ UNCHANGED queue
      BY <1>5, <3>2, Zenon DEF removeUpgradeStateLabelFromNodes, TypeOK, WorkType
    <3>3. QED
      BY <1>5, <3>1, <3>2, Zenon DEF removeUpgradeStateLabelFromNodes
  <2>5. QED
    BY <2>1, <2>2, <2>3, <2>4, Zenon DEF TypeOK, fleet, migration, history
<1>6. CASE cleanupNodeMaintenanceObjects
  <2>1. /\ UNCHANGED <<fleet, label, queue>> /\ Working /\ work' = Onward
        /\ nm' \subseteq nm /\ managers' \subseteq managers
        /\ lost' \subseteq lost \cup {work.who} /\ (work.who = Ncp => lost' = lost) /\ work.who \in Owner
    BY <1>6, Zenon DEF cleanupNodeMaintenanceObjects, TypeOK
  <2>2. drained' \subseteq nm' /\ UNCHANGED <<conf, cache, requestor>>
    BY <2>1, Zenon DEF Working
  <2>3. lost' \subseteq NodePolicy
    BY <2>1, Zenon DEF TypeOK, Owner
  <2>4. QED
    BY <2>1, <2>2, <2>3, OnwardType, Zenon DEF TypeOK, fleet, migration, history
<1>7. CASE reconcileNodePolicyUpgrades
  <2>1. work' \in WorkType /\ work'.pc = "next"
    BY <1>7, Zenon DEF reconcileNodePolicyUpgrades, TypeOK, WorkType
  <2>2. QED
    BY <1>0, <1>7, <2>1, WorkStepType, Zenon DEF reconcileNodePolicyUpgrades, TypeOK
<1>8. CASE policiesDone
  <2>1. work' \in WorkType /\ work'.pc = "stale"
    BY <1>8, Zenon DEF policiesDone, Stale, TypeOK, WorkType
  <2>2. QED
    BY <1>0, <1>8, <2>1, WorkStepType, Zenon DEF policiesDone, TypeOK
<1>9. CASE passEnds
  <2>1. queue' \in BOOLEAN
    BY <1>9, Zenon DEF passEnds
  <2>2. QED
    BY <1>0, <1>9, <2>1, IdleType, WorkStepType, Zenon DEF passEnds, TypeOK
<1>10. ASSUME NEW p \in NodePolicy, cleanupNodePolicyUpgradeResources(p), Working,
              UNCHANGED <<fleet, cluster, memory, queue>>
       PROVE  TypeOK'
  <2>1. Pods(p) \subseteq Node
    BY Zenon DEF Pods
  <2>2. work' \in WorkType /\ work'.who \in Owner
    BY <1>0, <1>10, <2>1, Zenon DEF cleanupNodePolicyUpgradeResources, TypeOK, WorkType
  <2>3. QED
    BY <1>0, <1>10, <2>2, WorkStepType, Zenon DEF TypeOK
<1>11. ASSUME NEW p \in NodePolicy, staleManager(p) PROVE TypeOK'
  BY <1>10, <1>11, Zenon DEF staleManager
<1>12. ASSUME NEW p \in NodePolicy, nextPolicy(p) PROVE TypeOK'
  <2>1. UNCHANGED <<fleet, cluster>> /\ Working /\ work.pc = "next"
    BY <1>12, Zenon DEF nextPolicy
  <2>2. CASE cleanupNodePolicyUpgradeResources(p) /\ UNCHANGED <<queue, memory>>
    BY <1>10, <2>1, <2>2, Zenon
  <2>3. CASE work' = [work EXCEPT !.todo = @ \ {p}] /\ UNCHANGED <<queue, memory>>
    <3>1. work' \in WorkType /\ work'.pc = "next"
      BY <2>1, <2>3, Zenon DEF TypeOK, WorkType
    <3>2. QED
      BY <1>0, <2>1, <2>3, <3>1, WorkStepType, Zenon DEF TypeOK
  <2>4. CASE /\ managers' = managers \cup {p} /\ lost' = lost \ {p}
             /\ \/ Fail
                \/ /\ work' = [work EXCEPT !.pc = "apply", !.who = p, !.todo = @ \ {p},
                                            !.nodes = Pods(p), !.again = TRUE]
                   /\ UNCHANGED queue
    <3>1. managers' \subseteq NodePolicy /\ lost' \subseteq NodePolicy
      BY <2>4, Zenon DEF TypeOK
    <3>2. CASE Fail
      BY <1>0, <2>1, <3>1, <3>2, FailType, WorkStepType, Zenon
    <3>3. CASE ~Fail
      <4>1. Pods(p) \subseteq Node
        BY Zenon DEF Pods
      <4>2. work' \in WorkType /\ work'.who \in Owner
        <5>1. work \in WorkType
          BY Zenon DEF TypeOK
        <5>2. work' = [work EXCEPT !.pc = "apply", !.who = p, !.todo = @ \ {p}, !.nodes = Pods(p), !.again = TRUE]
          BY <2>4, <3>3, Zenon
        <5>3. QED
          BY <1>0, <4>1, <5>1, <5>2, Zenon DEF WorkType
      <4>3. QED
        BY <1>0, <2>1, <2>4, <3>1, <3>3, <4>2, WorkStepType, Zenon DEF TypeOK
    <3>4. QED
      BY <3>2, <3>3, Zenon
  <2>5. QED
    BY <1>12, <2>2, <2>3, <2>4, Zenon DEF nextPolicy
<1>13. QED
  BY <1>1, <1>2, <1>3, <1>4, <1>5, <1>6, <1>7, <1>8, <1>9, <1>11, <1>12, Zenon DEF Step

LEMMA NextType == TypeOK /\ [Next]_vars => TypeOK'
<1> SUFFICES ASSUME TypeOK, [Next]_vars PROVE TypeOK'
  BY Zenon
<1> USE DEF fleet, cluster, memory, history, migration, upgrades
<1>1. CASE UNCHANGED vars
  BY <1>1, Zenon DEF vars, TypeOK
<1>2. CASE handleSingleMofedDS \/ handleMissingDSOwnerLabelOnPods \/ Start
  BY <1>2, Zenon DEF handleSingleMofedDS, handleMissingDSOwnerLabelOnPods, Start, OldPods, Listed, TypeOK
<1>3. CASE deleteSingleMofedDS
  <2>1. pod' \in [Node -> PodType]
    BY <1>3, OrphanedType, Zenon DEF deleteSingleMofedDS
  <2>2. QED
    BY <1>3, <2>1, Zenon DEF deleteSingleMofedDS, TypeOK
<1>4. ASSUME NEW n \in Node, markNodesAsUpgradeRequested(n) PROVE TypeOK'
  BY <1>4, Zenon DEF markNodesAsUpgradeRequested, TypeOK
<1>5. ASSUME NEW n \in Node, backfill(n) PROVE TypeOK'
  <2>1. pod' \in [Node -> PodType]
    BY <1>5, ZenonT(60) DEF backfill, TypeOK, PodType
  <2>2. QED
    BY <1>5, <2>1, Zenon DEF backfill, TypeOK
<1>6. CASE Worker
  BY <1>6, StepType, Zenon DEF Worker
<1>7. CASE observe
  <2>1. cache' \in {cache, conf} /\ queue' \in BOOLEAN
    BY <1>7, Zenon DEF observe
  <2>2. QED
    BY <1>7, <2>1, Zenon DEF observe, TypeOK
<1>8. CASE templateUpdated \/ \E o \in Owner : driverChanges(o)
  <2>1. /\ pod' \in [Node -> PodType] /\ queue' \in BOOLEAN /\ template' \in BOOLEAN
        /\ edits' \in 0 .. setup.edits
    <3>1. PICK o \in Owner : pod' = Outdated(o)
      BY <1>8, Zenon DEF templateUpdated, driverChanges, Owner
    <3>2. edits' \in 0 .. setup.edits
      BY <1>8, CountType, Zenon DEF templateUpdated, driverChanges, Edited, TypeOK
    <3>3. queue' \in BOOLEAN /\ template' \in BOOLEAN
      BY <1>8, Zenon DEF templateUpdated, driverChanges, TypeOK
    <3>4. QED
      BY <3>1, <3>2, <3>3, OutdatedType, Zenon
  <2>2. /\ UNCHANGED <<conf, cache, requested, cluster, drained, requestor, memory, work>>
        /\ UNCHANGED <<setup, mig, todo, single, history, faults>>
    BY <1>8, Zenon DEF templateUpdated, driverChanges
  <2>3. QED
    BY <2>1, <2>2, Zenon DEF TypeOK
<1>9. CASE operatorRestarts
  <2>1. faults' \in 0 .. setup.faults /\ queue' \in BOOLEAN
    BY <1>9, CountType, Zenon DEF operatorRestarts, Fault
  <2>2. QED
    BY <1>9, <2>1, IdleType, Zenon DEF operatorRestarts, TypeOK
<1>10. CASE listFails
  <2>1. faults' \in 0 .. setup.faults /\ Ncp \in Owner /\ mig = "done"
    BY <1>10, CountType, Zenon DEF listFails, Fault, Owner, TypeOK
  <2>2. work' \in WorkType /\ work'.who \in Owner
    BY <1>10, <2>1, Zenon DEF listFails, TypeOK, WorkType
  <2>3. QED
    BY <1>10, <2>1, <2>2, WorkStepType, Zenon DEF listFails, TypeOK
<1>11. CASE callFails
  <2>1. faults' \in 0 .. setup.faults /\ mig = "done"
    BY <1>11, CountType, Zenon DEF callFails, Fault, TypeOK
  <2>2. CleanupFails \/ Fail
    BY <1>11, Zenon DEF callFails
  <2>3. QED
    BY <1>11, <2>1, <2>2, CleanupFailsType, FailType, WorkStepType, Zenon DEF callFails, TypeOK
<1>12. ASSUME NEW n \in Node, podCreated(n) PROVE TypeOK'
  <2>1. pod' \in [Node -> PodType] /\ queue' \in BOOLEAN /\ unmarked' \subseteq Node /\ late' \subseteq Node
    BY <1>12, WantsType, NewPodType, Zenon DEF podCreated, TypeOK
  <2>2. QED
    BY <1>12, <2>1, Zenon DEF podCreated, TypeOK
<1>13. ASSUME NEW n \in Node, podRemoved(n) \/ podLost(n) PROVE TypeOK'
  <2>1. /\ pod' \in [Node -> PodType] /\ queue' \in BOOLEAN /\ unmarked' \subseteq Node /\ late' \subseteq Node
        /\ faults' \in 0 .. setup.faults
    BY <1>13, NoPodType, CountType, Zenon DEF podRemoved, podLost, PodGoes, Fault, TypeOK
  <2>2. QED
    BY <1>13, <2>1, Zenon DEF podRemoved, podLost, PodGoes, TypeOK
<1>14. ASSUME NEW x \in nm, nodeDrained(x) PROVE TypeOK'
  BY <1>14, Zenon DEF nodeDrained, TypeOK
<1>15. ASSUME NEW o \in Owner, NEW c \in Upgrades, userEdits(o, c) PROVE TypeOK'
  <2>1. conf' \in [Owner -> Upgrades] /\ Exclusive(conf') /\ edits' \in 0 .. setup.edits
    BY <1>15, CountType, Zenon DEF userEdits, Edited, TypeOK
  <2>2. QED
    BY <1>15, <2>1, Zenon DEF userEdits, TypeOK
<1>16. QED
  BY <1>1, <1>2, <1>3, <1>4, <1>5, <1>6, <1>7, <1>8, <1>9, <1>10, <1>11, <1>12, <1>13, <1>14, <1>15, Zenon
     DEF Next, Migrate, DaemonSetController

\* Every state is well typed; only one kind of policy has a driver, in-place
\* upgrades leave no NodeMaintenance objects, and no pass of the upgrade
\* controller is under way before the migration is done.
THEOREM TypeCorrect == Spec => []TypeOK
  BY InitType, NextType, PTL DEF Spec


-----------------------------------------------------------------------------
(***************************************************************************)
(* The migration.                                                           *)
(***************************************************************************)

\* What a step of the worker does to the pods and the annotations.
LEMMA WorkerPods ==
  ASSUME TypeOK, Worker \/ listFails \/ callFails
  PROVE  /\ \A n \in Node : pod'[n] \in {pod[n], NoPod}
         /\ requested' \subseteq requested /\ mig = "done"
         /\ UNCHANGED <<mig, todo, single, template, unmarked, late>>
<1> USE DEF fleet, migration, history
<1>1. CASE \E n \in Node : apply(n) /\ Worker
  <2>1. PICK n \in Node : apply(n) /\ Worker
    BY <1>1, Zenon
  <2>2. ApplyState(work.who, n) /\ work.who \in Owner /\ mig = "done"
    BY <2>1, Zenon DEF apply, TypeOK
  <2>3. QED
    BY <2>1, <2>2, ApplyEffect, Zenon DEF Worker
<1>2. CASE UNCHANGED fleet /\ (Worker \/ listFails \/ callFails)
  BY <1>2, Zenon DEF Worker, listFails, callFails, TypeOK
<1>3. QED
  BY <1>1, <1>2, Zenon
     DEF Worker, Reconcile, Step, reconcileClusterPolicyUpgrade, applied, cleanupNodeMaintenanceObjects,
         reconcileNodePolicyUpgrades, policiesDone, passEnds, removeUpgradeStateLabelFromNodes, nextPolicy,
         staleManager, listFails, callFails

LEMMA BackfillKept ==
  ASSUME BackfillInv, UNCHANGED <<mig, todo, late>>,
         \A n \in Node : pod'[n] # NoPod /\ ~pod'[n].labelled => pod[n] # NoPod /\ ~pod[n].labelled
  PROVE  BackfillInv'
  BY Zenon DEF BackfillInv

LEMMA NextBackfill == TypeOK /\ BackfillInv /\ [Next]_vars => BackfillInv'
<1> SUFFICES ASSUME TypeOK, BackfillInv, [Next]_vars PROVE BackfillInv'
  BY Zenon
<1> USE DEF fleet, history, migration, upgrades
<1>1. CASE UNCHANGED <<pod, mig, todo, late>>
  BY <1>1, BackfillKept, Zenon
<1>2. CASE handleSingleMofedDS \/ deleteSingleMofedDS \/ operatorRestarts
  <2>1. mig' \notin {"backfill", "done"}
    BY <1>2, Zenon DEF handleSingleMofedDS, deleteSingleMofedDS, operatorRestarts
  <2>2. QED
    BY <2>1, Zenon DEF BackfillInv
<1>3. CASE handleMissingDSOwnerLabelOnPods
  BY <1>3, Zenon DEF handleMissingDSOwnerLabelOnPods, Listed, BackfillInv
<1>4. ASSUME NEW n \in Node, markNodesAsUpgradeRequested(n) PROVE BackfillInv'
  BY <1>4, Zenon DEF markNodesAsUpgradeRequested, BackfillInv
<1>5. ASSUME NEW n \in Node, backfill(n) PROVE BackfillInv'
  <2>1. mig = "backfill" /\ mig' = mig /\ late' = late /\ todo' = todo \ {n}
    BY <1>5, Zenon DEF backfill
  <2>2. \A m \in Node : m # n => pod'[m] = pod[m]
    BY <1>5, Zenon DEF backfill, TypeOK
  <2>3. pod'[n] = NoPod \/ n \in late \/ pod'[n].labelled
    BY <1>5, Zenon DEF backfill, TypeOK, PodType
  <2>4. QED
    BY <2>1, <2>2, <2>3, Zenon DEF BackfillInv
<1>6. CASE Start
  BY <1>6, Zenon DEF Start, BackfillInv
<1>7. CASE Worker \/ listFails \/ callFails
  BY <1>7, WorkerPods, BackfillKept, Zenon
<1>8. CASE templateUpdated \/ \E o \in Owner : driverChanges(o)
  <2>1. PICK o \in Owner : pod' = Outdated(o)
    BY <1>8, Zenon DEF templateUpdated, driverChanges, Owner
  <2>2. UNCHANGED <<mig, todo, late>>
    BY <1>8, Zenon DEF templateUpdated, driverChanges
  <2>3. ASSUME NEW n \in Node, pod'[n] # NoPod, ~pod'[n].labelled
        PROVE  pod[n] # NoPod /\ ~pod[n].labelled
    <3>1. Outdated(o)[n].labelled = pod[n].labelled /\ (pod[n] = NoPod => Outdated(o)[n] = NoPod)
      BY OutdatedType, Zenon
    <3>2. QED
      BY <2>1, <2>3, <3>1, Zenon
  <2>4. QED
    BY <2>2, <2>3, BackfillKept, Zenon
<1>9. ASSUME NEW n \in Node, podCreated(n) PROVE BackfillInv'
  <2>1. /\ UNCHANGED <<mig, todo>> /\ late \subseteq late'
        /\ mig \in {"backfill", "done"} /\ ~pod'[n].labelled => n \in late'
        /\ \A m \in Node : m # n => pod'[m] = pod[m]
    BY <1>9, Zenon DEF podCreated, TypeOK
  <2>2. QED
    BY <2>1, Zenon DEF BackfillInv
<1>10. ASSUME NEW n \in Node, PodGoes(n) PROVE BackfillInv'
  <2>1. /\ UNCHANGED <<mig, todo>> /\ late' = late \ {n} /\ pod'[n] = NoPod
        /\ \A m \in Node : m # n => pod'[m] = pod[m]
    BY <1>10, Zenon DEF PodGoes, TypeOK
  <2>2. QED
    BY <2>1, Zenon DEF BackfillInv
<1>11. QED
  BY <1>1, <1>2, <1>3, <1>4, <1>5, <1>6, <1>7, <1>8, <1>9, <1>10, Zenon
     DEF Next, Migrate, DaemonSetController, vars, observe, podRemoved, podLost, nodeDrained, userEdits

\* Once the gate is open, every driver pod has the ds-owner label but for those
\* that an old template produced after the migration had listed the pods:
\* restarts, pods that come and go, and policies that change while it runs
\* included.
THEOREM MigrationLabels == Spec => []MigratedPodsLabelled
<1>1. Init => BackfillInv
  BY Zenon DEF Init, BackfillInv
<1>2. BackfillInv => MigratedPodsLabelled
  BY Zenon DEF BackfillInv, MigratedPodsLabelled
<1>3. QED
  BY <1>1, <1>2, InitType, NextType, NextBackfill, PTL DEF Spec

LEMMA MarkKept ==
  ASSUME MarkInv, UNCHANGED <<mig, todo, single, unmarked>>, requested' = requested \/ mig # "mark",
         \A n \in Node : pod'[n].ds \in {pod[n].ds, "none"}
  PROVE  MarkInv'
  BY Zenon DEF MarkInv

LEMMA NextMark == TypeOK /\ MarkInv /\ [Next]_vars => MarkInv'
<1> SUFFICES ASSUME TypeOK, MarkInv, [Next]_vars PROVE MarkInv'
  BY Zenon
<1> USE DEF fleet, history, migration, upgrades
<1>1. CASE UNCHANGED <<pod, requested, mig, todo, single, unmarked>>
  BY <1>1, MarkKept, Zenon
<1>2. CASE handleSingleMofedDS
  BY <1>2, Zenon DEF handleSingleMofedDS, OldPods, MarkInv
<1>3. CASE deleteSingleMofedDS \/ handleMissingDSOwnerLabelOnPods \/ Start \/ operatorRestarts
  BY <1>3 DEF deleteSingleMofedDS, handleMissingDSOwnerLabelOnPods, Start, operatorRestarts, MarkInv
<1>4. ASSUME NEW n \in Node, markNodesAsUpgradeRequested(n) PROVE MarkInv'
  BY <1>4, Zenon DEF markNodesAsUpgradeRequested, MarkInv
<1>5. ASSUME NEW n \in Node, backfill(n) PROVE MarkInv'
  <2>1. mig = "backfill" /\ UNCHANGED <<mig, single>>
    BY <1>5, Zenon DEF backfill
  <2>2. \A m \in Node : pod'[m].ds = pod[m].ds
    BY <1>5, Zenon DEF backfill, TypeOK, PodType
  <2>3. QED
    BY <2>1, <2>2, Zenon DEF MarkInv
<1>6. CASE Worker \/ listFails \/ callFails
  BY <1>6, WorkerPods, MarkKept, NoPodType, Zenon
<1>7. CASE templateUpdated \/ \E o \in Owner : driverChanges(o)
  <2>1. PICK o \in Owner : pod' = Outdated(o)
    BY <1>7, Zenon DEF templateUpdated, driverChanges, Owner
  <2>2. UNCHANGED <<requested, mig, todo, single, unmarked>>
    BY <1>7, Zenon DEF templateUpdated, driverChanges
  <2>3. QED
    BY <2>1, <2>2, OutdatedType, MarkKept, Zenon
<1>8. ASSUME NEW n \in Node, podCreated(n) PROVE MarkInv'
  <2>1. /\ UNCHANGED <<requested, mig, todo, single>> /\ unmarked \subseteq unmarked'
        /\ pod'[n].ds = "single" /\ mig = "mark" => n \in unmarked'
        /\ pod'[n].ds # "orphan"
        /\ \A m \in Node : m # n => pod'[m] = pod[m]
    BY <1>8, Zenon DEF podCreated, NewPod, TypeOK
  <2>2. QED
    BY <2>1, Zenon DEF MarkInv
<1>9. ASSUME NEW n \in Node, PodGoes(n) PROVE MarkInv'
  <2>1. /\ UNCHANGED <<requested, mig, todo, single>> /\ unmarked' = unmarked \ {n} /\ pod'[n].ds = "none"
        /\ \A m \in Node : m # n => pod'[m] = pod[m]
    BY <1>9, NoPodType, Zenon DEF PodGoes, TypeOK
  <2>2. QED
    BY <2>1, Zenon DEF MarkInv
<1>10. QED
  BY <1>1, <1>2, <1>3, <1>4, <1>5, <1>6, <1>7, <1>8, <1>9, Zenon
     DEF Next, Migrate, DaemonSetController, vars, observe, podRemoved, podLost, nodeDrained, userEdits

\* The single DaemonSet of an old release is deleted only when every pod that it
\* leaves behind is marked for an upgrade, but for pods that came after the
\* migration had listed them; however often the migration starts over.
THEOREM OrphansMarked == Spec => OrphansRequested
<1>1. Init => MarkInv
  <2> SUFFICES ASSUME Init PROVE MarkInv
    BY Zenon
  <2>1. \A n \in Node : pod[n].ds # "orphan"
    BY NoPodType, Zenon DEF Init, NewPod
  <2>2. QED
    BY <2>1, Zenon DEF Init, MarkInv
<1>2. TypeOK /\ MarkInv /\ [Next]_vars =>
        [single /\ ~single' => \A n \in Node : pod'[n].ds = "orphan" => n \in requested' \cup unmarked]_vars
  <2> SUFFICES ASSUME TypeOK, MarkInv, Next, single, ~single', NEW n \in Node, pod'[n].ds = "orphan"
               PROVE  n \in requested' \cup unmarked
    BY Zenon DEF vars
  <2>1. deleteSingleMofedDS
    BY WorkerPods, Zenon
       DEF Next, Migrate, DaemonSetController, handleSingleMofedDS, handleMissingDSOwnerLabelOnPods, Start,
           markNodesAsUpgradeRequested, backfill, observe, templateUpdated, operatorRestarts, podCreated,
           podRemoved, podLost, PodGoes, nodeDrained, driverChanges, userEdits, migration
  <2>2. mig = "mark" /\ todo = {} /\ requested' = requested /\ pod'[n] = Orphaned(n)
    BY <2>1, Zenon DEF deleteSingleMofedDS
  <2>3. pod[n].ds = "single"
    BY <2>2, OrphanedType, Zenon DEF MarkInv
  <2>4. QED
    BY <2>2, <2>3, Zenon DEF MarkInv
<1>3. QED
  BY <1>1, <1>2, InitType, NextType, NextMark, PTL DEF Spec, OrphansRequested

-----------------------------------------------------------------------------
(***************************************************************************)
(* The upgrade controller rests only when it has nothing to do.             *)
(***************************************************************************)

\* The last loop deals with policies that do not upgrade.
StaleInv == work.loop = "stale" => \A p \in work.todo : work.view[p] # "auto"

\* Where a pass is in its loops.  It upgrades only for policies that have a
\* manager, and is repeated then.
LoopInv ==
  /\ work.pc \in {"list", "next", "stale"} => work.loop = work.pc
  /\ work.pc \in {"idle", "cluster"} => work.loop = "list"
  /\ work.pc = "apply" => work.again /\ (work.who # Ncp => work.who \in managers)

\* The NodeMaintenance objects of a node policy are in the care of its manager.
CareInv == \A x \in nm : x[2] # Ncp => x[2] \in managers \cup lost

\* The pass under way has everything before it, or will be repeated.
Due == work.pc # "idle" /\ (work.again \/ work.pc = "cluster")

\* It has yet to list the node policies.
Unlisted == work.pc # "idle" /\ work.loop = "list"

\* What a pass still owes if nothing has asked for another one since it began:
\* to the cluster policy and to each node policy that upgrades,
ClusterRest == ~queue /\ cache[Ncp] = "auto" => Due

ViewRest == ~queue /\ work.loop # "list" => work.view = cache

AutoRest ==
  ~queue => \A p \in NodePolicy : cache[p] = "auto" =>
    Due \/ Unlisted \/ (work.loop = "next" /\ p \in work.todo)

\* to each manager, which is kept or cleaned up after,
ManagerRest ==
  ~queue => \A p \in managers :
    \/ Due \/ Unlisted \/ work.loop = "next"
    \/ work.loop = "stale" /\ (p \in work.todo \/ (work.pc = "unlabel" /\ work.who = p))

\* to each NodeMaintenance object of the cluster policy that the informers
\* show, and to each node on which they show an upgrade state.
ObjectRest ==
  ~queue => \A x \in nm \cap seen.nm : x[2] = Ncp =>
    Due \/ (work.pc = "unlabel" /\ work.who = Ncp)

StateRest ==
  ~queue => \A n \in Node : label[n] # "" /\ seen.label[n] # "" =>
    \/ Due \/ (work.pc = "unlabel" /\ work.who = Ncp /\ n \in work.nodes)
    \/ Home[n] \in managers \cup lost /\ HasOfed(cache[Home[n]])

RestInv == ClusterRest /\ ViewRest /\ AutoRest /\ ManagerRest /\ ObjectRest /\ StateRest

LEMMA QueuedRests ==
  ASSUME queue
  PROVE  RestInv
  BY Zenon DEF RestInv, ClusterRest, ViewRest, AutoRest, ManagerRest, ObjectRest, StateRest

LEMMA DueRests ==
  ASSUME Due, ViewRest
  PROVE  RestInv
  BY Zenon DEF RestInv, ClusterRest, AutoRest, ManagerRest, ObjectRest, StateRest

\* A pass that will be repeated goes on.
LEMMA AgainRests ==
  ASSUME RestInv, UNCHANGED cache, ~queue' => ~queue, work'.again, work'.pc # "idle",
         work'.loop # "list" => work.loop # "list" /\ work'.view = work.view
  PROVE  RestInv'
<1>1. Due'
  BY Zenon DEF Due
<1>2. ViewRest'
  BY Zenon DEF RestInv, ViewRest
<1>3. QED
  BY <1>1, <1>2, DueRests, PTL

LEMMA OnwardFields ==
  ASSUME TypeOK
  PROVE  /\ Onward.pc = work.loop /\ Onward.loop = work.loop /\ Onward.view = work.view
         /\ Onward.todo = work.todo /\ Onward.again = work.again /\ Onward.pc # "idle"
         /\ [Onward EXCEPT !.again = TRUE].pc = work.loop /\ [Onward EXCEPT !.again = TRUE].loop = work.loop
         /\ [Onward EXCEPT !.again = TRUE].view = work.view /\ [Onward EXCEPT !.again = TRUE].again
  BY Zenon DEF Onward, TypeOK, WorkType

LEMMA FailsRest ==
  ASSUME TypeOK, RestInv, UNCHANGED cache, Fail \/ CleanupFails
  PROVE  RestInv'
<1>1. CASE queue'
  BY <1>1, QueuedRests, PTL
<1>2. CASE ~queue'
  <2>1. work' = [Onward EXCEPT !.again = TRUE] /\ queue' = queue
    BY <1>2, Zenon DEF Fail, CleanupFails
  <2>2. QED
    BY <2>1, OnwardFields, AgainRests, Zenon DEF TypeOK, WorkType
<1>3. QED
  BY <1>1, <1>2, Zenon

\* The steps that neither queue nor touch what the upgrade controller works on.
LEMMA RestKept ==
  ASSUME LoopInv, CareInv, RestInv, UNCHANGED <<queue, work, cache, managers, lost, nm, label, seen>>
  PROVE  LoopInv' /\ CareInv' /\ RestInv'
<1>1. LoopInv' /\ CareInv' /\ (Due => Due') /\ (Unlisted => Unlisted')
  BY Zenon DEF LoopInv, CareInv, Due, Unlisted
<1>2. ClusterRest' /\ ViewRest' /\ AutoRest'
  BY <1>1, Zenon DEF RestInv, ClusterRest, ViewRest, AutoRest
<1>3. ManagerRest' /\ ObjectRest' /\ StateRest'
  BY <1>1, Zenon DEF RestInv, ManagerRest, ObjectRest, StateRest
<1>4. QED
  BY <1>1, <1>2, <1>3, Zenon DEF RestInv

LEMMA ClusterRests ==
  ASSUME TypeOK, LoopInv, RestInv, reconcileClusterPolicyUpgrade \/ listFails
  PROVE  RestInv'
<1> USE DEF cluster, Working
<1>1. work.pc = "cluster" /\ UNCHANGED <<cache, seen, label, nm, managers>>
  BY Zenon DEF reconcileClusterPolicyUpgrade, listFails, memory
<1>2. CASE Fail
  BY <1>1, <1>2, FailsRest, Zenon
<1>3. CASE /\ work' = [work EXCEPT !.pc = "apply", !.who = Ncp, !.nodes = Pods(Ncp), !.again = TRUE]
           /\ queue' = queue
  <2>1. work'.again /\ work'.pc = "apply" /\ work'.loop = work.loop /\ work'.view = work.view
    BY <1>3, Zenon DEF TypeOK, WorkType
  <2>2. QED
    BY <1>1, <1>3, <2>1, AgainRests, Zenon DEF LoopInv
<1>4. ASSUME cache[Ncp] # "auto", work'.pc = "unlabel", work'.who = Ncp, work'.loop = "list",
             \A n \in Node : label[n] # "" =>
               n \in work'.nodes \/ (Home[n] \in managers' \cup lost' /\ HasOfed(cache[Home[n]]))
      PROVE  RestInv'
  <2>1. ClusterRest' /\ ViewRest'
    BY <1>1, <1>4, Zenon DEF ClusterRest, ViewRest
  <2>2. AutoRest' /\ ManagerRest'
    BY <1>4, Zenon DEF AutoRest, ManagerRest, Unlisted
  <2>3. ObjectRest' /\ StateRest'
    BY <1>1, <1>4, Zenon DEF ObjectRest, StateRest
  <2>4. QED
    BY <2>1, <2>2, <2>3, Zenon DEF RestInv
<1>5. CASE /\ cache[Ncp] # "auto" /\ lost' = lost \cup HandedOver
           /\ work' = [work EXCEPT !.pc = "unlabel", !.who = Ncp,
                                    !.nodes = Node \ getNodesManagedByNNPsWithOFED]
  <2>1. /\ work'.pc = "unlabel" /\ work'.who = Ncp /\ work'.loop = "list"
        /\ work'.nodes = Node \ getNodesManagedByNNPsWithOFED
    BY <1>1, <1>5, Zenon DEF TypeOK, WorkType, LoopInv
  <2>2. ASSUME NEW n \in Node, label[n] # "", n \notin work'.nodes
        PROVE  Home[n] \in managers' \cup lost' /\ HasOfed(cache[Home[n]])
    BY <1>1, <1>5, <2>1, <2>2, Zenon DEF HandedOver, getNodesManagedByNNPsWithOFED
  <2>3. QED
    BY <1>4, <1>5, <2>1, <2>2, Zenon
<1>6. CASE listFails
  <2>1. /\ cache[Ncp] # "auto" /\ work'.pc = "unlabel" /\ work'.who = Ncp /\ work'.loop = "list"
        /\ work'.nodes = Node
    BY <1>6, Zenon DEF listFails, TypeOK, WorkType, LoopInv
  <2>2. QED
    BY <1>4, <2>1, Zenon
<1>7. QED
  BY <1>2, <1>3, <1>5, <1>6, Zenon DEF reconcileClusterPolicyUpgrade

LEMMA ApplyRests ==
  ASSUME TypeOK, LoopInv, RestInv, applied \/ \E n \in Node : apply(n)
  PROVE  RestInv'
<1>1. work.pc = "apply" /\ work.again /\ UNCHANGED <<cache, queue>>
  BY Zenon DEF applied, apply, Working, LoopInv
<1>2. work'.again /\ work'.pc # "idle" /\ work'.loop = work.loop /\ work'.view = work.view
  <2>1. CASE work' = Onward
    BY <1>1, <2>1, OnwardFields, Zenon
  <2>2. CASE \E n \in Node : work' = [work EXCEPT !.nodes = @ \ {n}]
    BY <1>1, <2>2, Zenon DEF TypeOK, WorkType
  <2>3. QED
    BY <2>1, <2>2, Zenon DEF applied, apply
<1>3. QED
  BY <1>1, <1>2, AgainRests, Zenon

LEMMA UnlabelRests ==
  ASSUME TypeOK, RestInv, NEW n \in Node, removeUpgradeStateLabelFromNodes(n)
  PROVE  RestInv'
<1>1. UNCHANGED <<cache, seen, nm, managers, lost>>
  BY Zenon DEF removeUpgradeStateLabelFromNodes, Working, memory
<1>2. CASE CleanupFails
  BY <1>1, <1>2, FailsRest, Zenon
<1>3. CASE /\ seen.label[n] = "" \/ seen.label[n] = label[n]
           /\ label' = [label EXCEPT ![n] = IF seen.label[n] = "" THEN @ ELSE ""]
           /\ work' = [work EXCEPT !.nodes = @ \ {n}] /\ queue' = queue
  <2>1. /\ work.pc = "unlabel" /\ work'.pc = "unlabel" /\ work'.again = work.again /\ work'.who = work.who
        /\ work'.loop = work.loop /\ work'.view = work.view /\ work'.todo = work.todo
        /\ work'.nodes = work.nodes \ {n}
    BY <1>3, Zenon DEF removeUpgradeStateLabelFromNodes, TypeOK, WorkType
  <2>2. /\ \A m \in Node : m # n => label'[m] = label[m]
        /\ label'[n] = "" \/ seen.label[n] = ""
    BY <1>3, Zenon DEF TypeOK
  <2>3. (Due => Due') /\ (Unlisted => Unlisted')
    BY <2>1, Zenon DEF Due, Unlisted
  <2>4. ClusterRest' /\ ViewRest' /\ AutoRest'
    BY <1>1, <1>3, <2>1, <2>3, Zenon DEF RestInv, ClusterRest, ViewRest, AutoRest
  <2>5. ManagerRest' /\ ObjectRest'
    BY <1>1, <1>3, <2>1, <2>3, Zenon DEF RestInv, ManagerRest, ObjectRest
  <2>6. StateRest'
    <3> SUFFICES ASSUME ~queue, NEW m \in Node, label'[m] # "", seen.label[m] # ""
                 PROVE  \/ Due' \/ (work'.pc = "unlabel" /\ work'.who = Ncp /\ m \in work'.nodes)
                        \/ Home[m] \in managers' \cup lost' /\ HasOfed(cache'[Home[m]])
      BY <1>1, <1>3, Zenon DEF StateRest
    <3>1. m # n /\ label[m] # ""
      BY <2>2, Zenon
    <3>2. \/ Due \/ (work.pc = "unlabel" /\ work.who = Ncp /\ m \in work.nodes)
          \/ Home[m] \in managers \cup lost /\ HasOfed(cache[Home[m]])
      BY <3>1, Zenon DEF RestInv, StateRest
    <3>3. QED
      BY <1>1, <2>1, <2>3, <3>1, <3>2, Zenon
  <2>7. QED
    BY <2>4, <2>5, <2>6, Zenon DEF RestInv
<1>4. QED
  BY <1>2, <1>3, Zenon DEF removeUpgradeStateLabelFromNodes

LEMMA CleanupRests ==
  ASSUME TypeOK, LoopInv, RestInv, cleanupNodeMaintenanceObjects
  PROVE  RestInv'
<1>1. /\ UNCHANGED <<cache, seen, label, queue>> /\ work' = Onward
      /\ work.pc = "unlabel" /\ work.nodes = {} /\ managers' = managers \ {work.who}
      /\ nm' \subseteq nm /\ (work.who = Ncp => \A x \in nm' : x[2] = Ncp => x \notin seen.nm)
  <2>1. requestor \/ nm = {}
    BY Zenon DEF TypeOK
  <2>2. QED
    BY <2>1, Zenon DEF cleanupNodeMaintenanceObjects, Working
<1>2. /\ work'.pc = work.loop /\ work'.pc # "idle" /\ work'.loop = work.loop /\ work'.view = work.view
      /\ work'.todo = work.todo /\ work'.again = work.again
  BY <1>1, OnwardFields, Zenon
<1>3. CASE work.again
  BY <1>1, <1>2, <1>3, AgainRests, Zenon
<1>4. CASE ~work.again
  <2>1. ~Due /\ (Unlisted => Unlisted')
    BY <1>1, <1>2, <1>4, Zenon DEF Due, Unlisted
  <2>2. ClusterRest' /\ ViewRest' /\ AutoRest'
    BY <1>1, <1>2, <2>1, Zenon DEF RestInv, ClusterRest, ViewRest, AutoRest
  <2>3. ManagerRest'
    BY <1>1, <1>2, <2>1, Zenon DEF RestInv, ManagerRest
  <2>4. ObjectRest'
    BY <1>1, <2>1, Zenon DEF RestInv, ObjectRest
  <2>5. StateRest'
    <3> SUFFICES ASSUME ~queue, NEW n \in Node, label[n] # "", seen.label[n] # ""
                 PROVE  Home[n] \in managers' \cup lost' /\ HasOfed(cache[Home[n]])
      BY <1>1, Zenon DEF StateRest
    <3>1. Home[n] \in managers \cup lost /\ HasOfed(cache[Home[n]])
      BY <1>1, <2>1, Zenon DEF RestInv, StateRest
    <3>2. Home[n] = work.who => Home[n] \in lost'
      <4>1. work.who # Ncp \/ Home[n] # work.who
        BY <3>1, UpgradeAssumption, Zenon DEF TypeOK
      <4>2. QED
        BY <4>1, Zenon DEF cleanupNodeMaintenanceObjects
    <3>3. lost \subseteq lost'
      BY Zenon DEF cleanupNodeMaintenanceObjects
    <3>4. QED
      BY <1>1, <3>1, <3>2, <3>3, Zenon
  <2>6. QED
    BY <2>2, <2>3, <2>4, <2>5, Zenon DEF RestInv
<1>5. QED
  BY <1>3, <1>4, Zenon

LEMMA ListRests ==
  ASSUME TypeOK, LoopInv, RestInv, reconcileNodePolicyUpgrades
  PROVE  RestInv'
<1>1. /\ UNCHANGED <<cache, seen, label, nm, managers, lost, queue>> /\ work.pc = "list"
      /\ work'.pc = "next" /\ work'.loop = "next" /\ work'.view = cache /\ work'.again = work.again
      /\ work'.todo = {p \in NodePolicy : cache[p] # "absent"}
  BY Zenon DEF reconcileNodePolicyUpgrades, Working, cluster, memory, TypeOK, WorkType
<1>2. Due => Due'
  BY <1>1, Zenon DEF Due
<1>3. ClusterRest' /\ ViewRest'
  BY <1>1, <1>2, Zenon DEF RestInv, ClusterRest, ViewRest
<1>4. AutoRest' /\ ManagerRest'
  BY <1>1, Zenon DEF AutoRest, ManagerRest
<1>5. ObjectRest' /\ StateRest'
  BY <1>1, <1>2, Zenon DEF RestInv, ObjectRest, StateRest
<1>6. QED
  BY <1>3, <1>4, <1>5, Zenon DEF RestInv

\* Steps of the loops over the node policies that will not be repeated: what is
\* left to do for each policy and each manager.
LEMMA LoopStep ==
  ASSUME RestInv, UNCHANGED <<cache, seen, label, nm, managers, lost, queue>>,
         work.pc \in {"next", "stale"}, work.loop = work.pc, work'.pc # "idle", ~work.again,
         work'.loop \in {"next", "stale"}, work'.view = work.view,
         ~queue => \A p \in NodePolicy : cache[p] = "auto" => work'.loop = "next" /\ p \in work'.todo,
         ~queue => \A p \in managers :
           \/ work'.loop = "next"
           \/ work'.loop = "stale" /\ (p \in work'.todo \/ (work'.pc = "unlabel" /\ work'.who = p))
  PROVE  RestInv'
<1>1. ~Due
  BY Zenon DEF Due
<1>2. ClusterRest' /\ ViewRest'
  BY <1>1, Zenon DEF RestInv, ClusterRest, ViewRest
<1>3. AutoRest' /\ ManagerRest'
  BY Zenon DEF AutoRest, ManagerRest
<1>4. ObjectRest' /\ StateRest'
  BY <1>1, Zenon DEF RestInv, ObjectRest, StateRest
<1>5. QED
  BY <1>2, <1>3, <1>4, Zenon DEF RestInv

\* In the loops over the node policies, a pass that will not be repeated has
\* still to come to what it owes.
LEMMA InLoop ==
  ASSUME RestInv, ~queue, work.pc \in {"next", "stale"}, work.loop = work.pc, ~work.again
  PROVE  /\ work.view = cache
         /\ \A p \in NodePolicy : cache[p] = "auto" => work.loop = "next" /\ p \in work.todo
         /\ \A p \in managers : work.loop = "next" \/ p \in work.todo
<1>1. ~Due /\ ~Unlisted
  BY Zenon DEF Due, Unlisted
<1>2. QED
  BY <1>1, Zenon DEF RestInv, ViewRest, AutoRest, ManagerRest

LEMMA PolicyRests ==
  ASSUME TypeOK, LoopInv, StaleInv, RestInv, NEW p \in NodePolicy, nextPolicy(p) \/ staleManager(p)
  PROVE  RestInv'
<1> USE DEF Working, cluster, memory
<1>1. /\ UNCHANGED <<cache, seen, label, nm>> /\ work.pc \in {"next", "stale"} /\ work.loop = work.pc
  BY Zenon DEF nextPolicy, staleManager, LoopInv
<1>2. CASE nextPolicy(p) /\ work.view[p] = "auto"
  <2>1. CASE Fail
    BY <1>1, <2>1, FailsRest, Zenon
  <2>2. CASE ~Fail
    <3>1. /\ queue' = queue
          /\ work' = [work EXCEPT !.pc = "apply", !.who = p, !.todo = @ \ {p}, !.nodes = Pods(p), !.again = TRUE]
      BY <1>2, <2>2, Zenon DEF nextPolicy
    <3>2. work'.again /\ work'.pc = "apply" /\ work'.loop = work.loop /\ work'.view = work.view
      BY <3>1, Zenon DEF TypeOK, WorkType
    <3>3. QED
      BY <1>1, <3>1, <3>2, AgainRests, Zenon
  <2>3. QED
    BY <2>1, <2>2, Zenon
<1>3. CASE work.view[p] # "auto"
  <2>1. /\ UNCHANGED <<managers, lost, queue>>
        /\ \/ cleanupNodePolicyUpgradeResources(p)
           \/ work' = [work EXCEPT !.todo = @ \ {p}] /\ work.pc = "next"
    BY <1>3, Zenon DEF nextPolicy, staleManager
  <2>2. /\ work'.loop = work.loop /\ work'.view = work.view /\ work'.again = work.again
        /\ work'.todo = work.todo \ {p} /\ work'.pc \in {"unlabel", "next"}
        /\ work.pc = "stale" => work'.pc = "unlabel" /\ work'.who = p
    <3>1. CASE cleanupNodePolicyUpgradeResources(p)
      BY <3>1, Zenon DEF cleanupNodePolicyUpgradeResources, TypeOK, WorkType
    <3>2. CASE work' = [work EXCEPT !.todo = @ \ {p}] /\ work.pc = "next"
      BY <3>2, Zenon DEF TypeOK, WorkType
    <3>3. QED
      BY <2>1, <3>1, <3>2, Zenon
  <2>3. CASE work.again
    BY <1>1, <2>1, <2>2, <2>3, AgainRests, Zenon
  <2>4. CASE ~work.again
    <3>1. ~queue => \A q \in NodePolicy : cache[q] = "auto" => work'.loop = "next" /\ q \in work'.todo
      BY <1>1, <1>3, <2>2, <2>4, InLoop, Zenon
    <3>2. ~queue => \A q \in managers :
            \/ work'.loop = "next"
            \/ work'.loop = "stale" /\ (q \in work'.todo \/ (work'.pc = "unlabel" /\ work'.who = q))
      BY <1>1, <2>2, <2>4, InLoop, Zenon
    <3>3. QED
      BY <1>1, <2>1, <2>2, <2>4, <3>1, <3>2, LoopStep, Zenon
  <2>5. QED
    BY <2>3, <2>4, Zenon
<1>4. QED
  <2>1. staleManager(p) => work.view[p] # "auto"
    BY <1>1, Zenon DEF staleManager, StaleInv
  <2>2. QED
    BY <1>2, <1>3, <2>1, Zenon

LEMMA LoopEndRests ==
  ASSUME TypeOK, LoopInv, RestInv, policiesDone \/ passEnds
  PROVE  RestInv'
<1> USE DEF Working, cluster, memory
<1>1. UNCHANGED <<cache, seen, label, nm, managers, lost>> /\ work.pc \in {"next", "stale"} /\ work.loop = work.pc
  BY Zenon DEF policiesDone, passEnds, LoopInv
<1>2. CASE policiesDone
  <2>1. /\ work.pc = "next" /\ work.todo = {} /\ queue' = queue /\ work'.pc = "stale" /\ work'.loop = "stale"
        /\ work'.todo = Stale /\ work'.view = work.view /\ work'.again = work.again
    BY <1>2, Zenon DEF policiesDone, TypeOK, WorkType
  <2>2. CASE work.again
    BY <1>1, <2>1, <2>2, AgainRests, Zenon
  <2>3. CASE ~work.again
    <3>1. ~queue => \A q \in NodePolicy : cache[q] # "auto"
      BY <1>1, <2>1, <2>3, InLoop, Zenon
    <3>2. ~queue => managers \subseteq Stale
      BY <1>1, <2>1, <2>3, <3>1, InLoop, Zenon DEF Stale, TypeOK
    <3>3. QED
      BY <1>1, <2>1, <2>3, <3>1, <3>2, LoopStep, Zenon
  <2>4. QED
    BY <2>2, <2>3, Zenon
<1>3. CASE passEnds
  <2>1. work.pc = "stale" /\ work.todo = {} /\ queue' = (queue \/ work.again) /\ work' = Idle
    BY <1>3, Zenon DEF passEnds
  <2>2. CASE queue'
    BY <2>2, QueuedRests, PTL
  <2>3. CASE ~queue'
    <3>1. ~queue /\ ~work.again /\ ~Due
      BY <2>1, <2>3, Zenon DEF Due
    <3>2. cache[Ncp] # "auto" /\ managers = {} /\ \A q \in NodePolicy : cache[q] # "auto"
      BY <1>1, <2>1, <3>1, InLoop, Zenon DEF RestInv, ClusterRest
    <3>3. ClusterRest' /\ AutoRest' /\ ManagerRest'
      BY <1>1, <3>2, Zenon DEF ClusterRest, AutoRest, ManagerRest
    <3>4. ViewRest'
      BY <2>1, Zenon DEF ViewRest, Idle
    <3>5. ObjectRest' /\ StateRest'
      BY <1>1, <2>1, <3>1, Zenon DEF RestInv, ObjectRest, StateRest
    <3>6. QED
      BY <3>3, <3>4, <3>5, Zenon DEF RestInv
  <2>4. QED
    BY <2>2, <2>3, Zenon
<1>4. QED
  BY <1>2, <1>3, Zenon

LEMMA IdleLoop ==
  ASSUME work' = Idle
  PROVE  LoopInv'
  BY Zenon DEF Idle, LoopInv

LEMMA OnwardLoop ==
  ASSUME TypeOK, work' = Onward \/ work' = [Onward EXCEPT !.again = TRUE]
  PROVE  LoopInv'
<1>1. work'.pc = work.loop /\ work'.loop = work.loop /\ work.loop \in {"list", "next", "stale"}
  BY OnwardFields, Zenon DEF TypeOK, WorkType
<1>2. QED
  BY <1>1, Zenon DEF LoopInv

LEMMA StepLoop ==
  ASSUME TypeOK, LoopInv, Reconcile \/ Step \/ listFails \/ callFails
  PROVE  LoopInv'
<1> USE DEF memory
<1>1. CASE work' = Idle
  BY <1>1, IdleLoop, Zenon
<1>2. CASE work' = Onward \/ work' = [Onward EXCEPT !.again = TRUE]
  BY <1>2, OnwardLoop, Zenon
<1>3. CASE Reconcile
  <2>1. work'.pc = "cluster" /\ work'.loop = "list"
    BY <1>3, Zenon DEF Reconcile, Idle
  <2>2. QED
    BY <2>1, Zenon DEF LoopInv
<1>4. CASE reconcileClusterPolicyUpgrade \/ listFails
  <2>1. CASE work' = [work EXCEPT !.pc = "apply", !.who = Ncp, !.nodes = Pods(Ncp), !.again = TRUE]
    <3>1. work'.pc = "apply" /\ work'.again /\ work'.who = Ncp
      BY <2>1, Zenon DEF TypeOK, WorkType
    <3>2. QED
      BY <3>1, Zenon DEF LoopInv
  <2>2. CASE work'.pc = "unlabel"
    BY <2>2, Zenon DEF LoopInv
  <2>3. (reconcileClusterPolicyUpgrade /\ cache[Ncp] # "auto") \/ listFails => work'.pc = "unlabel"
    BY Zenon DEF reconcileClusterPolicyUpgrade, listFails, TypeOK, WorkType
  <2>4. QED
    BY <1>1, <1>4, <2>1, <2>2, <2>3, Zenon DEF reconcileClusterPolicyUpgrade, Fail
<1>5. ASSUME NEW n \in Node, work' = [work EXCEPT !.nodes = @ \ {n}], managers' = managers PROVE LoopInv'
  <2>1. work'.pc = work.pc /\ work'.loop = work.loop /\ work'.again = work.again /\ work'.who = work.who
    BY <1>5, Zenon DEF TypeOK, WorkType
  <2>2. managers' = managers
    BY <1>5, Zenon
  <2>3. QED
    BY <2>1, <2>2, Zenon DEF LoopInv
<1>6. CASE reconcileNodePolicyUpgrades \/ policiesDone
  <2>1. work'.pc = work'.loop /\ work'.pc \in {"next", "stale"}
    BY <1>6, Zenon DEF reconcileNodePolicyUpgrades, policiesDone, TypeOK, WorkType
  <2>2. QED
    BY <2>1, Zenon DEF LoopInv
<1>7. ASSUME NEW p \in NodePolicy, cleanupNodePolicyUpgradeResources(p) PROVE LoopInv'
  <2>1. work'.pc = "unlabel"
    BY <1>7, Zenon DEF cleanupNodePolicyUpgradeResources, TypeOK, WorkType
  <2>2. QED
    BY <2>1, Zenon DEF LoopInv
<1>8. ASSUME NEW p \in NodePolicy, nextPolicy(p) PROVE LoopInv'
  <2>1. CASE work' = [work EXCEPT !.todo = @ \ {p}]
    <3>1. work'.pc = "next" /\ work'.loop = work.loop /\ work.pc = "next"
      BY <1>8, <2>1, Zenon DEF nextPolicy, TypeOK, WorkType
    <3>2. QED
      BY <3>1, Zenon DEF LoopInv
  <2>2. CASE /\ work' = [work EXCEPT !.pc = "apply", !.who = p, !.todo = @ \ {p}, !.nodes = Pods(p), !.again = TRUE]
             /\ managers' = managers \cup {p}
    <3>1. work'.pc = "apply" /\ work'.again /\ work'.who = p
      BY <2>2, Zenon DEF TypeOK, WorkType
    <3>2. p \in managers'
      BY <2>2, Zenon
    <3>3. QED
      BY <3>1, <3>2, Zenon DEF LoopInv
  <2>3. QED
    BY <1>1, <1>7, <1>8, <2>1, <2>2, Zenon DEF nextPolicy, Fail
<1>9. QED
  BY <1>1, <1>2, <1>3, <1>4, <1>5, <1>6, <1>7, <1>8, Zenon
     DEF Step, applied, apply, cleanupNodeMaintenanceObjects, passEnds, removeUpgradeStateLabelFromNodes,
         staleManager, callFails, Fail, CleanupFails

LEMMA StaleKept ==
  ASSUME StaleInv, work'.loop = work.loop, work'.view = work.view, work'.todo \subseteq work.todo
  PROVE  StaleInv'
  BY Zenon DEF StaleInv

LEMMA StepStale ==
  ASSUME TypeOK, LoopInv, StaleInv, Reconcile \/ Step \/ listFails \/ callFails
  PROVE  StaleInv'
<1> USE DEF memory
<1>1. CASE work' = Idle \/ Reconcile \/ reconcileNodePolicyUpgrades
  <2>1. CASE work' = Idle \/ Reconcile
    <3>1. work'.loop = "list"
      BY <2>1 DEF Idle, Reconcile
    <3>2. QED
      BY <3>1, Zenon DEF StaleInv
  <2>2. CASE reconcileNodePolicyUpgrades
    <3>1. work'.loop = "next"
      BY <2>2, Zenon DEF reconcileNodePolicyUpgrades, TypeOK, WorkType
    <3>2. QED
      BY <3>1, Zenon DEF StaleInv
  <2>3. QED
    BY <1>1, <2>1, <2>2, Zenon
<1>2. CASE work' = Onward \/ work' = [Onward EXCEPT !.again = TRUE]
  <2>1. work'.loop = work.loop /\ work'.view = work.view /\ work'.todo = work.todo
    BY <1>2, Zenon DEF Onward, TypeOK, WorkType
  <2>2. QED
    BY <2>1, StaleKept, Zenon
<1>3. CASE (reconcileClusterPolicyUpgrade /\ ~Fail) \/ listFails
  <2>1. work'.loop = work.loop /\ work'.view = work.view /\ work'.todo = work.todo
    BY <1>3, Zenon DEF reconcileClusterPolicyUpgrade, listFails, TypeOK, WorkType
  <2>2. QED
    BY <2>1, StaleKept, Zenon
<1>4. ASSUME NEW n \in Node, work' = [work EXCEPT !.nodes = @ \ {n}] PROVE StaleInv'
  <2>1. work'.loop = work.loop /\ work'.view = work.view /\ work'.todo = work.todo
    BY <1>4, Zenon DEF TypeOK, WorkType
  <2>2. QED
    BY <2>1, StaleKept, Zenon
<1>5. CASE policiesDone
  <2>1. work'.todo = Stale /\ work'.view = work.view
    BY <1>5, Zenon DEF policiesDone, TypeOK, WorkType
  <2>2. QED
    BY <2>1, Zenon DEF StaleInv, Stale
<1>6. ASSUME NEW p \in NodePolicy,
             \/ cleanupNodePolicyUpgradeResources(p)
             \/ work' = [work EXCEPT !.todo = @ \ {p}]
             \/ work' = [work EXCEPT !.pc = "apply", !.who = p, !.todo = @ \ {p}, !.nodes = Pods(p), !.again = TRUE]
      PROVE  StaleInv'
  <2>1. work'.loop = work.loop /\ work'.view = work.view /\ work'.todo = work.todo \ {p}
    BY <1>6, Zenon DEF cleanupNodePolicyUpgradeResources, TypeOK, WorkType
  <2>2. QED
    BY <2>1, StaleKept, Zenon
<1>7. QED
  BY <1>1, <1>2, <1>3, <1>4, <1>5, <1>6, Zenon
     DEF Step, applied, apply, cleanupNodeMaintenanceObjects, passEnds, removeUpgradeStateLabelFromNodes,
         staleManager, nextPolicy, callFails, Fail, CleanupFails

\* What the library adds to the NodeMaintenance objects is for whom it works.
LEMMA ApplyObjects ==
  ASSUME TypeOK, NEW o \in Owner, NEW n \in Node, ApplyState(o, n)
  PROVE  \A x \in nm' : x \in nm \/ x[2] = o
<1>1. nm' \subseteq nm \cup {<<n, o>>}
  <2>1. CASE label[n] \in {"", "done"} \/ label[n] = "maintenance"
    BY <2>1, Zenon DEF ApplyState
  <2>2. CASE label[n] = "required"
    BY <2>2, Zenon DEF ApplyState
  <2>3. CASE label[n] = "restart"
    BY <2>3, Zenon DEF ApplyState
  <2>4. QED
    BY <2>1, <2>2, <2>3, Zenon DEF TypeOK, State
<1>2. QED
  BY <1>1, SecondOfPair, Zenon

LEMMA StepCare ==
  ASSUME TypeOK, LoopInv, CareInv, Reconcile \/ Step \/ listFails \/ callFails
  PROVE  CareInv'
<1> USE DEF memory, cluster
<1>1. CASE nm' \subseteq nm /\ managers \cup lost \subseteq managers' \cup lost'
  BY <1>1, Zenon DEF CareInv
<1>2. ASSUME NEW n \in Node, apply(n) PROVE CareInv'
  <2>1. ApplyState(work.who, n) /\ work.who \in Owner /\ UNCHANGED <<managers, lost>> /\ work.pc = "apply"
    BY <1>2, Zenon DEF apply, TypeOK
  <2>2. \A x \in nm' : x \in nm \/ x[2] = work.who
    BY <2>1, ApplyObjects, Zenon
  <2>3. QED
    BY <2>1, <2>2, Zenon DEF CareInv, LoopInv
<1>3. CASE cleanupNodeMaintenanceObjects
  <2> DEFINE o == work.who
             left == {x \in nm : x[2] = o /\ x \notin seen.nm}
  <2>1. /\ managers' = managers \ {o} /\ lost \subseteq lost'
        /\ o # Ncp /\ left # {} => o \in lost'
        /\ \A x \in nm' : x \in nm /\ (x[2] # o \/ x \in left)
    <3>1. requestor \/ nm = {}
      BY Zenon DEF TypeOK
    <3>2. QED
      BY <1>3, <3>1, Zenon DEF cleanupNodeMaintenanceObjects
  <2>2. QED
    BY <2>1, Zenon DEF CareInv
<1>4. ASSUME NEW p \in NodePolicy, nextPolicy(p) PROVE CareInv'
  <2>1. nm' = nm /\ managers \cup lost \subseteq managers' \cup lost'
    BY <1>4, Zenon DEF nextPolicy
  <2>2. QED
    BY <1>1, <2>1, Zenon
<1>5. QED
  BY <1>1, <1>2, <1>3, <1>4, Zenon
     DEF Reconcile, Step, reconcileClusterPolicyUpgrade, applied, reconcileNodePolicyUpgrades, policiesDone,
         passEnds, removeUpgradeStateLabelFromNodes, staleManager, listFails, callFails

LEMMA StepRests ==
  ASSUME TypeOK, LoopInv, StaleInv, RestInv, Reconcile \/ Step \/ listFails \/ callFails
  PROVE  RestInv'
<1>1. CASE Reconcile
  <2>1. Due' /\ ViewRest'
    BY <1>1, Zenon DEF Reconcile, Idle, Due, ViewRest
  <2>2. QED
    BY <2>1, DueRests, PTL
<1>2. CASE callFails
  BY <1>2, FailsRest, Zenon DEF callFails, Working
<1>3. QED
  BY <1>1, <1>2, ClusterRests, ApplyRests, UnlabelRests, CleanupRests, ListRests, PolicyRests, LoopEndRests,
     Zenon DEF Step

LEMMA NextRests ==
  TypeOK /\ LoopInv /\ StaleInv /\ CareInv /\ RestInv /\ [Next]_vars => LoopInv' /\ StaleInv' /\ CareInv' /\ RestInv'
<1> SUFFICES ASSUME TypeOK, LoopInv, StaleInv, CareInv, RestInv, [Next]_vars
             PROVE  LoopInv' /\ StaleInv' /\ CareInv' /\ RestInv'
  BY Zenon
<1> USE DEF upgrades, cluster, memory
<1>1. CASE UNCHANGED <<queue, work, cache, managers, lost, nm, label, seen>>
  <2>1. StaleInv'
    BY <1>1, Zenon DEF StaleInv
  <2>2. QED
    BY <1>1, <2>1, RestKept, Zenon
<1>2. CASE Reconcile \/ Step \/ listFails \/ callFails
  BY <1>2, StepLoop, StepStale, StepCare, StepRests, Zenon
<1>3. CASE operatorRestarts
  <2>1. LoopInv' /\ StaleInv'
    BY <1>3, IdleLoop, Zenon DEF operatorRestarts, Idle, StaleInv
  <2>2. CareInv'
    BY <1>3, Zenon DEF operatorRestarts, CareInv
  <2>3. queue'
    BY <1>3, Zenon DEF operatorRestarts
  <2>4. RestInv'
    BY <2>3, QueuedRests, PTL
  <2>5. QED
    BY <2>1, <2>2, <2>4, Zenon
<1>4. CASE queue' /\ UNCHANGED <<work, managers, lost, nm>>
  <2>1. LoopInv' /\ StaleInv' /\ CareInv'
    BY <1>4, Zenon DEF LoopInv, StaleInv, CareInv
  <2>2. RestInv'
    BY <1>4, QueuedRests, PTL
  <2>3. QED
    BY <2>1, <2>2, Zenon
<1>5. QED
  BY <1>1, <1>2, <1>3, <1>4, Zenon
     DEF Next, Migrate, Worker, DaemonSetController, vars, handleSingleMofedDS, deleteSingleMofedDS,
         handleMissingDSOwnerLabelOnPods, Start, markNodesAsUpgradeRequested, backfill, observe, templateUpdated,
         podCreated, podRemoved, podLost, PodGoes, nodeDrained, driverChanges, userEdits

\* The upgrade controller does not come to rest over something to do: when no
\* pass is under way or due and the informers are up to date, no policy
\* upgrades and nothing is left of the upgrades of any, but for the node
\* policies that it lost track of; with any failures, restarts and edits.
THEOREM RestsWhenOver == Spec => []QuietUpgradesOver
<1>1. Init => LoopInv /\ StaleInv /\ CareInv /\ RestInv
  <2> SUFFICES ASSUME Init PROVE LoopInv /\ StaleInv /\ CareInv /\ RestInv
    BY Zenon
  <2>1. LoopInv /\ StaleInv /\ CareInv
    BY Zenon DEF Init, Idle, LoopInv, StaleInv, CareInv
  <2>2. RestInv
    BY QueuedRests, Zenon DEF Init
  <2>3. QED
    BY <2>1, <2>2, Zenon
<1>2. TypeOK /\ LoopInv /\ CareInv /\ RestInv => QuietUpgradesOver
  <2> SUFFICES ASSUME TypeOK, LoopInv, CareInv, RestInv, Quiet
               PROVE  /\ managers = {}
                      /\ \A o \in Owner : conf[o] # "auto"
                      /\ \A x \in nm : x[2] \in lost
                      /\ \A n \in Node : label[n] # "" => Home[n] \in lost /\ conf[Home[n]] = "manual"
    BY Zenon DEF QuietUpgradesOver
  <2>1. /\ ~queue /\ work.pc = "idle" /\ work.loop = "list" /\ cache = conf /\ seen.label = label /\ seen.nm = nm
        /\ ~Due /\ ~Unlisted
    BY Zenon DEF Quiet, LoopInv, Due, Unlisted
  <2>2. managers = {}
    BY <2>1, Zenon DEF RestInv, ManagerRest
  <2>3. \A o \in Owner : conf[o] # "auto"
    BY <2>1, Zenon DEF RestInv, ClusterRest, AutoRest, Owner
  <2>4. \A x \in nm : x[2] \in lost
    BY <2>1, <2>2, Zenon DEF RestInv, ObjectRest, CareInv
  <2>5. ASSUME NEW n \in Node, label[n] # "" PROVE Home[n] \in lost /\ conf[Home[n]] = "manual"
    <3>1. Home[n] \in lost /\ HasOfed(conf[Home[n]])
      BY <2>1, <2>2, <2>5, Zenon DEF RestInv, StateRest
    <3>2. conf[Home[n]] # "auto"
      BY <2>3, UpgradeAssumption, Zenon
    <3>3. QED
      BY <3>1, <3>2, Zenon DEF HasOfed
  <2>6. QED
    BY <2>2, <2>3, <2>4, <2>5, Zenon
<1>3. QED
  BY <1>1, <1>2, InitType, NextType, NextRests, PTL DEF Spec
=============================================================================
