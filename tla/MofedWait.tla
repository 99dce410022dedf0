------------------------------ MODULE MofedWait ------------------------------
(***************************************************************************)
(* The node label operator.mofed.wait, which keeps the device plugins off a *)
(* node until its OFED driver is ready, as the NicClusterPolicy and the     *)
(* NicNodePolicy controllers maintain it together (controllers/             *)
(* mofed_wait_labels.go, nicclusterpolicy_controller.go,                    *)
(* nicnodepolicy_controller.go).                                            *)
(*                                                                          *)
(* Each controller has one worker.  A worker lists the driver pods once and *)
(* then reads and patches the nodes one at a time, blindly: the pods, the   *)
(* nodes, the policies and the other worker move on between any two of its  *)
(* steps.                                                                   *)
(***************************************************************************)
EXTENDS Integers, FiniteSets

CONSTANTS
  Node,       \* cluster nodes
  Nic,        \* those with a Mellanox NIC
  Ncp,        \* the NicClusterPolicy
  Policy,     \* names of NicNodePolicies
  Selects,    \* the nodes each NicNodePolicy selects
  NoPod,
  Setups      \* what each policy may be edited to, and how many API errors
              \* and operator restarts there may be

ASSUME MofedAssumption ==
  /\ Nic \subseteq Node
  /\ Ncp \notin Policy
  /\ Selects \in [Policy -> SUBSET Node]
  /\ NoPod \notin Policy \cup {Ncp}
  /\ \A s \in Setups : /\ s.modes \in [Policy \cup {Ncp} -> SUBSET {"absent", "plain", "ofed"}]
                       /\ s.faults \in Nat

Owner == Policy \cup {Ncp}

VARIABLES
  setup,      \* the set-up of this behaviour
  policy,     \* each policy: absent, without ofedDriver, or with it
  dsets,      \* the policies whose driver DaemonSet exists
  pod,        \* the owner of the driver pod on a node, one per node at most
  ready,      \* nodes whose pod has mofed-container ready
  reported,   \* the same, as the DaemonSet status last told the controllers
  nodeReady,  \* nodes whose Ready condition is True
  label,      \* mofed.wait of each node, "" when it is not set
  queue,      \* policies queued for reconciliation
  work,       \* what the worker of each controller is doing
  faults

vars == <<setup, policy, dsets, pod, ready, reported, nodeReady, label, queue, work, faults>>

driver == <<dsets, pod, ready, reported>>

Thread == {"ncp", "nnp"}

Keys(t) == IF t = "ncp" THEN {Ncp} ELSE Policy

Covers(o) == IF o = Ncp THEN Node ELSE Selects[o]

\* A worker: the step it is at, the policy and how it read it, the nodes it
\* leaves to others, the patches to send, whether to requeue, and whether an
\* error is only logged.
Idle == [pc |-> "idle", key |-> Ncp, mode |-> "absent", skip |-> {},
         todo |-> [n \in Node |-> "done"], again |-> FALSE, logged |-> FALSE]

\* What a step of a worker leaves alone.
Outside == <<setup, policy, pod, ready, reported, nodeReady>>

(***************************************************************************)
(* The watches.                                                             *)
(***************************************************************************)

Existing == {q \in Policy : policy[q] # "absent"}

\* NodeLabelChangePredicate, watched by the NicNodePolicy controller only.
LabelEventsIgnored(n, v) == queue

LabelEvents(n, v) == IF label[n] # v THEN queue \cup Existing ELSE queue

(***************************************************************************)
(* Reconcile of either controller.                                          *)
(***************************************************************************)

PodsOf(o) == {n \in Node : pod[n] = o}

\* SyncState is not Ready while it deletes the DaemonSet, and while the status
\* of the DaemonSet reports fewer pods available than nodes to run on.
Synced(o) ==
  CASE policy[o] = "absent" -> TRUE
    [] policy[o] = "plain" -> o \notin dsets
    [] policy[o] = "ofed" -> /\ Covers(o) \cap Nic # {}
                             /\ Covers(o) \cap Nic \subseteq PodsOf(o) \cap reported

\* The policy is read and SyncState creates or deletes the DaemonSet.  A
\* NicNodePolicy without ofedDriver leaves the labels alone.  The pass that
\* checkNodeOverlap ends, over policies that select one node, is in Admission.
Reconcile(t, o) ==
  LET noop == t = "nnp" /\ policy[o] = "plain"
  IN  /\ work[t].pc = "idle" /\ o \in queue \cap Keys(t)
      /\ queue' = IF noop /\ ~Synced(o) THEN queue ELSE queue \ {o}
      /\ dsets' = IF policy[o] = "ofed" THEN dsets \cup {o} ELSE dsets \ {o}
      /\ work' = [work EXCEPT ![t] =
           IF noop THEN Idle
           ELSE [Idle EXCEPT !.key = o, !.mode = policy[o], !.again = ~Synced(o),
                             !.pc = IF t = "ncp" /\ policy[o] # "ofed" THEN "exclude" ELSE "list"]]
      /\ UNCHANGED <<Outside, label, faults>>

\* getNodesManagedByNNPsWithOFED.
handleMOFEDWaitLabelsNoConfig ==
  /\ work["ncp"].pc = "exclude"
  /\ work' = [work EXCEPT !["ncp"].pc = "list",
                          !["ncp"].skip = UNION {Selects[q] : q \in {p \in Policy : policy[p] = "ofed"}}]
  /\ UNCHANGED <<Outside, dsets, label, queue, faults>>

\* It fails: the pass proceeds without an exclusion.
exclusionFails ==
  /\ faults < setup.faults
  /\ faults' = faults + 1
  /\ work["ncp"].pc = "exclude"
  /\ work' = [work EXCEPT !["ncp"].pc = "list"]
  /\ UNCHANGED <<Outside, dsets, label, queue>>

\* processOFEDPodsForWaitLabels decides from the pod as it was listed and
\* the node as it is read later, before the patch.
FromPods(P) ==
  [n \in Node |-> IF n \notin P THEN "done"
                  ELSE IF n \in ready THEN "ifNodeReady" ELSE "true"]

\* handleOFEDWaitLabelsForPodsWithFallback, for a cluster policy.
WithFallback ==
  FromPods(IF PodsOf(Ncp) # {} THEN PodsOf(Ncp) ELSE {n \in Node : pod[n] # NoPod})

\* handleWaitLabelsNoConfig: leftover pods are terminating.
NoConfigAllNodes(skip) ==
  [n \in Node |-> IF n \in skip THEN "done"
                  ELSE IF pod[n] # NoPod THEN "true" ELSE "false"]

NoConfig(skip) ==
  [n \in Node |-> IF n \in skip THEN "done"
                  ELSE IF pod[n] # NoPod THEN "true"
                  ELSE IF n \in Nic THEN "false" ELSE ""]

\* clearOrphanedMOFEDWaitLabels.
ClearOrphans ==
  [n \in Node |-> IF label[n] = "true" /\ pod[n] = NoPod THEN "false" ELSE "done"]

\* The lists, and the patches they lead to.
list(t) ==
  LET w == work[t]
      mine == PodsOf(w.key)
      gone == w.mode = "absent"
  IN  /\ w.pc = "list"
      /\ work' = [work EXCEPT ![t].pc = "patch",
           ![t].todo = CASE t = "ncp" /\ w.mode = "ofed" -> WithFallback
                         [] t = "ncp" /\ w.mode # "ofed" -> NoConfig(w.skip)
                         [] t = "nnp" /\ ~gone -> FromPods(mine)
                         [] t = "nnp" /\ gone /\ mine # {} -> [n \in Node |-> IF n \in mine THEN "true" ELSE "done"]
                         [] t = "nnp" /\ gone /\ mine = {} -> ClearOrphans,
           ![t].logged = (t = "nnp" /\ gone /\ mine = {})]
      /\ UNCHANGED <<Outside, dsets, label, queue, faults>>

\* The node of a ready pod is read.
LabelValueOfContainer(n) == "false"

LabelValue(n) == IF n \in nodeReady THEN "false" ELSE "true"

processOFEDPodsForWaitLabels(t, n) ==
  /\ work[t].pc = "patch" /\ work[t].todo[n] = "ifNodeReady"
  /\ work' = [work EXCEPT ![t].todo[n] = LabelValue(n)]
  /\ UNCHANGED <<Outside, dsets, label, queue, faults>>

\* Every pass that leaves a node waiting is requeued.
NeverAgain(w, v) == w.again

Again(w, v) == w.again \/ v = "true"

setNodeLabel(t, n) ==
  LET v == work[t].todo[n]
  IN  /\ work[t].pc = "patch" /\ v \notin {"done", "ifNodeReady"}
      /\ label' = [label EXCEPT ![n] = v]
      /\ queue' = LabelEvents(n, v)
      /\ work' = [work EXCEPT ![t].todo[n] = "done", ![t].again = Again(work[t], v)]
      /\ UNCHANGED <<Outside, dsets, faults>>

\* A list, a Get or a patch fails.  The error is returned and the request
\* retried, except that handleDeletion only logs one from clearing orphans.
callFails(t) ==
  /\ faults < setup.faults
  /\ faults' = faults + 1
  /\ \/ work[t].pc = "list"
     \/ work[t].pc = "patch" /\ \E n \in Node : work[t].todo[n] # "done"
  /\ queue' = IF work[t].logged THEN queue ELSE queue \cup {work[t].key}
  /\ work' = [work EXCEPT ![t] = Idle]
  /\ UNCHANGED <<Outside, dsets, label>>

finish(t) ==
  /\ work[t].pc = "patch" /\ \A n \in Node : work[t].todo[n] = "done"
  /\ queue' = IF work[t].again THEN queue \cup {work[t].key} ELSE queue
  /\ work' = [work EXCEPT ![t] = Idle]
  /\ UNCHANGED <<Outside, dsets, label, faults>>

(***************************************************************************)
(* The cluster.                                                             *)
(***************************************************************************)

\* The webhook admits ofedDriver in the cluster policy or in node policies,
\* not in both.  A NicNodePolicy that changes also enqueues the cluster
\* policy, which need not exist.  Deleting a policy deletes its DaemonSet.
Admitted(o, m) ==
  m = "ofed" => IF o = Ncp THEN \A q \in Policy : policy[q] # "ofed"
                           ELSE policy[Ncp] # "ofed"

PolicyChanges(o, m) ==
  /\ m \in setup.modes[o] /\ m # policy[o] /\ Admitted(o, m)
  /\ policy' = [policy EXCEPT ![o] = m]
  /\ dsets' = IF m = "absent" THEN dsets \ {o} ELSE dsets
  /\ queue' = queue \cup {o, Ncp}
  /\ UNCHANGED <<setup, pod, ready, reported, nodeReady, label, work, faults>>

\* A changed DaemonSet status enqueues the policy that owns the DaemonSet.
Owned(n) == {pod[n]} \cap dsets

podStarts(n, o) ==
  /\ pod[n] = NoPod /\ o \in dsets /\ n \in Covers(o) \cap Nic
  /\ pod' = [pod EXCEPT ![n] = o]
  /\ queue' = queue \cup {o}
  /\ UNCHANGED <<setup, policy, dsets, ready, reported, nodeReady, label, work, faults>>

podGone(n) ==
  /\ pod[n] # NoPod
  /\ pod' = [pod EXCEPT ![n] = NoPod]
  /\ ready' = ready \ {n} /\ reported' = reported \ {n}
  /\ queue' = queue \cup Owned(n)
  /\ UNCHANGED <<setup, policy, dsets, nodeReady, label, work, faults>>

podReadiness(n) ==
  /\ pod[n] # NoPod
  /\ ready' = IF n \in ready THEN ready \ {n} ELSE ready \cup {n}
  /\ UNCHANGED <<setup, policy, dsets, pod, reported, nodeReady, label, queue, work, faults>>

\* The DaemonSet controller catches up; a brief flap leaves no event.
statusReported(n) ==
  /\ (n \in ready) # (n \in reported)
  /\ reported' = IF n \in ready THEN reported \cup {n} ELSE reported \ {n}
  /\ queue' = queue \cup Owned(n)
  /\ UNCHANGED <<setup, policy, dsets, pod, ready, nodeReady, label, work, faults>>

\* NodeReadyChangedPredicate, watched by both controllers.  A node that can
\* run no driver is not told apart from otherEvent.
ReadyEventsOfNnpOnly == queue \cup Existing

ReadyEvents == queue \cup Existing \cup {Ncp}

nodeReadiness(n) ==
  /\ n \in Nic
  /\ nodeReady' = IF n \in nodeReady THEN nodeReady \ {n} ELSE nodeReady \cup {n}
  /\ queue' = ReadyEvents
  /\ UNCHANGED <<setup, policy, driver, label, work, faults>>

\* Any other reason to reconcile: another state of the policy is not ready,
\* another of its objects changed, a taint changed.
otherEvent(o) ==
  /\ o = Ncp \/ policy[o] # "absent"
  /\ o \notin queue
  /\ queue' = queue \cup {o}
  /\ UNCHANGED <<setup, policy, driver, nodeReady, label, work, faults>>

\* The new leader lists the policies and the nodes: a deleted policy is not
\* among them, and a node with a NIC enqueues the cluster policy.
operatorRestarts ==
  /\ faults < setup.faults
  /\ faults' = faults + 1
  /\ work' = [t \in Thread |-> Idle]
  /\ queue' = Existing \cup {o \in {Ncp} : policy[Ncp] # "absent" \/ Nic # {}}
  /\ UNCHANGED <<setup, policy, driver, nodeReady, label>>

Init ==
  /\ setup \in Setups
  /\ policy = [o \in Owner |-> "absent"]
  /\ dsets = {} /\ pod = [n \in Node |-> NoPod]
  /\ ready = {} /\ reported = {}
  /\ nodeReady = Node
  /\ label = [n \in Node |-> ""]
  /\ queue = {o \in {Ncp} : Nic # {}}
  /\ work = [t \in Thread |-> Idle]
  /\ faults = 0

Worker(t) ==
  \/ \E o \in Owner : Reconcile(t, o)
  \/ t = "ncp" /\ handleMOFEDWaitLabelsNoConfig
  \/ list(t)
  \/ \E n \in Node : processOFEDPodsForWaitLabels(t, n) \/ setNodeLabel(t, n)
  \/ finish(t)

Fault == exclusionFails \/ operatorRestarts \/ \E t \in Thread : callFails(t)

Cluster ==
  \/ \E o \in Owner, m \in {"absent", "plain", "ofed"} : PolicyChanges(o, m)
  \/ \E n \in Node, o \in Owner : podStarts(n, o)
  \/ \E n \in Node : podGone(n) \/ podReadiness(n) \/ nodeReadiness(n)
  \/ \E o \in Owner : otherEvent(o)

Next ==
  \/ \E t \in Thread : Worker(t)
  \/ Fault
  \/ Cluster
  \/ \E n \in Node : statusReported(n)

Spec == Init /\ [][Next]_vars

\* A worker with a queued request runs, no key starves in its queue, the
\* DaemonSet status catches up, and a pod without a DaemonSet ends.
Fairness ==
  /\ \A t \in Thread : WF_vars(Worker(t))
  /\ \A q \in Policy : SF_vars(Reconcile("nnp", q))
  /\ \A n \in Nic : WF_vars(statusReported(n)) /\ WF_vars(pod[n] \notin dsets /\ podGone(n))

FairSpec == Spec /\ Fairness

-----------------------------------------------------------------------------
(***************************************************************************)
(* Properties.                                                              *)
(***************************************************************************)

Patch == {"done", "ifNodeReady", "true", "false", ""}

Types ==
  /\ setup \in Setups
  /\ policy \in [Owner -> {"absent", "plain", "ofed"}]
  /\ dsets \in SUBSET Owner
  /\ pod \in [Node -> Owner \cup {NoPod}]
  /\ ready \in SUBSET Node /\ reported \in SUBSET Node /\ nodeReady \in SUBSET Node
  /\ label \in [Node -> {"", "true", "false"}]
  /\ queue \in SUBSET Owner
  /\ work \in [Thread -> [pc : {"idle", "exclude", "list", "patch"}, key : Owner,
                          mode : {"absent", "plain", "ofed"}, skip : SUBSET Node,
                          todo : [Node -> Patch], again : BOOLEAN, logged : BOOLEAN]]
  /\ faults \in 0 .. setup.faults

\* Type correctness, and a node without a NIC never carries the label, whatever
\* either controller does: only handleWaitLabelsNoConfig goes through nodes that
\* have no driver pod and do not wait, and it labels those with a NIC alone.
TypeOK == Types /\ \A n \in Node \ Nic : label[n] = ""

\* Nothing is under way or pending that would touch a label.
Quiet == queue = {} /\ reported = ready /\ \A t \in Thread : work[t].pc = "idle"

Up(n) == n \in ready \cap nodeReady

\* The driver pod on n is one its policy still wants.
Managed(n) == pod[n] \in dsets /\ policy[pod[n]] = "ofed"

\* No policy wants a driver on n, and none is left there.
Free(n) == pod[n] = NoPod /\ \A o \in Owner : n \in Covers(o) => policy[o] # "ofed"

\* When the controllers have nothing left to do, the label of a node with a
\* managed driver tells whether the driver is up: no patch computed from a
\* stale list, by either controller, survives its being overtaken.
QuietGateMatchesDriver ==
  Quiet => \A n \in Node : Managed(n) => label[n] = (IF Up(n) THEN "false" ELSE "true")

\* And a node with a NIC that no policy wants a driver on does not wait for one.
QuietFreeNodeOpen ==
  Quiet => \A n \in Nic : Free(n) => label[n] = "false"

\* A driver whose container stays down, or whose node does, ends up closing
\* the gate for good.  The two are read at different times: if they take turns
\* in being down, a pass may see both up.
DriverDownClosesGate ==
  \A n \in Node :
    <>[](Managed(n) /\ n \notin ready) \/ <>[](Managed(n) /\ n \notin nodeReady)
      => <>[](label[n] = "true")

\* A driver that stays up ends up opening it for good.
DriverUpOpensGate ==
  \A n \in Node : <>[](Managed(n) /\ Up(n)) => <>[](label[n] = "false")

\* A node with a NIC that stays without driver is opened for good.
FreeNodeOpens ==
  \A n \in Nic : <>[]Free(n) => <>[](label[n] = "false")

\* The driver is configured in the cluster policy only.
ClusterOnly == \A q \in Policy : "ofed" \notin setup.modes[q]

\* It is configured in NicNodePolicies only, which are created and deleted but
\* never edited to go on without it, and nothing fails.
CreateDelete ==
  setup.faults = 0 /\ "ofed" \notin setup.modes[Ncp] /\ \A q \in Policy : "plain" \notin setup.modes[q]

\* A node that no policy wants a driver on does not wait for one when the
\* controllers are done, as long as the driver is configured in the cluster
\* policy or NicNodePolicies are created and deleted without a fault (where
\* ofedDriver is removed from a NicNodePolicy that stays, it may).
CreatedAndDeletedFreeNodeOpen == ClusterOnly \/ CreateDelete => QuietFreeNodeOpen

\* In the same set-ups a node with a NIC that stays without driver is opened
\* for good by handleWaitLabelsNoConfig or clearOrphanedMOFEDWaitLabels.
CreatedAndDeletedFreeNodeOpens == ClusterOnly \/ CreateDelete => FreeNodeOpens

=============================================================================
