------------------------------ MODULE Migration ------------------------------
(***************************************************************************)
(* The start of the operator, and what runs when.  A new process first      *)
(* migrates what older releases left (pkg/migrate/migrate.go) and then      *)
(* opens the gate that the cluster policy and upgrade controllers wait at.  *)
(* Two older releases matter: one with a single driver DaemonSet, which is  *)
(* deleted and leaves its pods behind, and one without the ds-owner label   *)
(* in the pod template.  DaemonSet controller, maintenance operator, users  *)
(* and faults are the environment.                                          *)
(***************************************************************************)
EXTENDS Upgrade

CONSTANT
  Setups   \* what the operator finds (old release or not, policies), how often
           \* users change a policy or a driver version, how many calls fail or
           \* restarts happen

Upgrades == {"absent", "none", "manual", "auto"}

\* Admission lets only the cluster policy or node policies have a driver.
Exclusive(c) == ~(HasOfed(c[Ncp]) /\ \E p \in NodePolicy : HasOfed(c[p]))

ASSUME MigrationAssumption ==
  \A s \in Setups : /\ s.old \in {"single", "unlabelled", "no"}
                    /\ s.conf \in [Owner -> Upgrades] /\ Exclusive(s.conf)
                    /\ s.edits \in Nat /\ s.faults \in Nat

VARIABLES
  setup,
  mig,       \* what the migration does next; "done" is the open gate
  todo,      \* nodes or pods that the migration has still to mark
  single,    \* the single DaemonSet of an old release exists
  template,  \* the pod templates of the cluster policy have the ds-owner label
  unmarked,  \* history: nodes whose pod came too late to be marked
  late,      \* history: nodes whose pod the migration did not label: it came
             \* too late, or the cluster policy had no driver then
  edits, faults

history == <<unmarked, late>>

migration == <<mig, todo, single, template, history>>

upgrades == <<conf, cache, pod, requested, label, nm, drained, seen, requestor, managers, lost, stranded, queue, work>>

vars == <<upgrades, setup, migration, edits, faults>>

(***************************************************************************)
(* The migration.                                                           *)
(***************************************************************************)

\* The pods of the single DaemonSet.
OldPodsByOwner == {n \in Node : pod[n].ds = "single" /\ pod[n].labelled}

OldPods == {n \in Node : pod[n].ds = "single"}

handleSingleMofedDS ==
  /\ mig = "start"
  /\ IF HasOfed(conf[Ncp]) /\ single
     THEN mig' = "mark" /\ todo' = OldPods /\ unmarked' = {}
     ELSE mig' = "list" /\ UNCHANGED <<todo, unmarked>>
  /\ UNCHANGED <<upgrades, setup, single, template, late, edits, faults>>

markNodesAsUpgradeRequested(n) ==
  /\ mig = "mark" /\ n \in todo
  /\ requested' = requested \cup {n}
  /\ todo' = todo \ {n}
  /\ UNCHANGED <<conf, cache, pod, label, nm, drained, seen, requestor, managers, lost, stranded, queue, work>>
  /\ UNCHANGED <<setup, mig, single, template, history, edits, faults>>

\* Where the deletion of the single DaemonSet leaves its pods.
Orphaned(n) == IF pod[n].ds = "single" THEN [pod[n] EXCEPT !.ds = "orphan"] ELSE pod[n]

deleteSingleMofedDS ==
  /\ mig = "mark" /\ todo = {}
  /\ single' = FALSE
  /\ pod' = [n \in Node |-> Orphaned(n)]
  /\ mig' = "list"
  /\ UNCHANGED <<conf, cache, requested, label, nm, drained, seen, requestor, managers, lost, stranded, queue, work>>
  /\ UNCHANGED <<setup, todo, template, history, edits, faults>>

\* The pods to backfill.
ListedOfDaemonSets == {n \in Node : pod[n].ds = "pool" /\ ~pod[n].labelled}

Listed == {n \in Node : pod[n] # NoPod /\ ~pod[n].labelled}

handleMissingDSOwnerLabelOnPods ==
  /\ mig = "list"
  /\ mig' = "backfill"
  /\ todo' = IF HasOfed(conf[Ncp]) THEN Listed ELSE {}
  /\ late' = Listed \ todo'
  /\ UNCHANGED <<upgrades, setup, single, template, unmarked, edits, faults>>

\* A pod that is gone, or another one by now, is skipped.
backfill(n) ==
  /\ mig = "backfill" /\ n \in todo
  /\ pod' = IF pod[n] = NoPod \/ n \in late THEN pod
            ELSE [pod EXCEPT ![n].labelled = TRUE]
  /\ todo' = todo \ {n}
  /\ UNCHANGED <<conf, cache, requested, label, nm, drained, seen, requestor, managers, lost, stranded, queue, work>>
  /\ UNCHANGED <<setup, mig, single, template, history, edits, faults>>

\* Start closes the channel that the controllers wait on.
Start ==
  /\ mig = "backfill" /\ todo = {}
  /\ mig' = "done"
  /\ UNCHANGED <<upgrades, setup, todo, single, template, history, edits, faults>>

(***************************************************************************)
(* Faults.                                                                  *)
(***************************************************************************)

Fault == faults < setup.faults /\ faults' = faults + 1

\* A failed migration ends the process, too.
operatorRestarts ==
  /\ Fault
  /\ mig' = "start" /\ todo' = {}
  /\ work' = Idle /\ queue' = TRUE
  /\ managers' = {} /\ lost' = lost \cup managers
  /\ cache' = conf /\ seen' = [label |-> label, nm |-> nm]
  /\ UNCHANGED <<conf, fleet, cluster, drained, stranded, requestor, setup, single, template, history, edits>>

\* A failed list of NicNodePolicies is read as an empty one, a failed cleanup
\* of a NicNodePolicy is noted, any other failure ends the pass; so does one to
\* remove the annotations of old releases, with which a pass begins.
listFails ==
  /\ Fault
  /\ work.pc = "cluster" /\ cache[Ncp] # "auto"
  /\ work' = [work EXCEPT !.pc = "unlabel", !.who = Ncp, !.nodes = Node]
  /\ UNCHANGED <<fleet, cluster, memory, queue, setup, migration, edits>> /\ Working

callFails ==
  /\ Fault
  /\ work.pc \notin {"idle", "next", "stale"}
  /\ IF work.pc = "unlabel" THEN CleanupFails ELSE Fail
  /\ UNCHANGED <<fleet, cluster, memory, setup, migration, edits>> /\ Working

(***************************************************************************)
(* Users and the cluster.                                                   *)
(***************************************************************************)

Edited == edits < setup.edits /\ edits' = edits + 1

\* A policy changes.
userEdits(o, c) ==
  /\ Edited
  /\ c # conf[o]
  /\ conf' = [conf EXCEPT ![o] = c]
  /\ Exclusive(conf')
  /\ UNCHANGED <<cache, fleet, cluster, drained, seen, requestor, memory, stranded, queue, work>>
  /\ UNCHANGED <<setup, migration, faults>>

\* The pods run an older driver than their DaemonSet now asks for.
Outdated(o) == [n \in Node |-> IF pod[n].owner = o THEN [pod[n] EXCEPT !.current = FALSE] ELSE pod[n]]

driverChanges(o) ==
  /\ Edited
  /\ HasOfed(conf[o])
  /\ pod' = Outdated(o)
  /\ queue' = TRUE
  /\ UNCHANGED <<conf, cache, requested, cluster, drained, seen, requestor, memory, stranded, work>>
  /\ UNCHANGED <<setup, migration, faults>>

\* The cluster policy controller replaces the templates of an old release.
templateUpdated ==
  /\ mig = "done" /\ ~template /\ ~single
  /\ template' = TRUE
  /\ pod' = Outdated(Ncp)
  /\ queue' = TRUE
  /\ UNCHANGED <<conf, cache, requested, cluster, drained, seen, requestor, memory, stranded, work>>
  /\ UNCHANGED <<setup, mig, todo, single, history, edits, faults>>

\* The DaemonSet controller.
NewPod(o) ==
  [owner |-> o, ds |-> IF o = Ncp /\ single THEN "single" ELSE "pool",
   labelled |-> o # Ncp \/ template, current |-> TRUE]

podCreated(n) ==
  LET p == NewPod(Wants(n))
  IN  /\ pod[n] = NoPod /\ p.owner # None
      /\ ~(p.owner = Ncp /\ setup.old = "single" /\ ~single /\ ~template)
      /\ pod' = [pod EXCEPT ![n] = p]
      /\ unmarked' = IF p.ds = "single" /\ mig = "mark" THEN unmarked \cup {n} ELSE unmarked
      /\ late' = IF ~p.labelled /\ mig \in {"backfill", "done"} THEN late \cup {n} ELSE late
      /\ queue' = TRUE
      /\ UNCHANGED <<conf, cache, requested, cluster, drained, seen, requestor, memory, stranded, work>>
      /\ UNCHANGED <<setup, mig, todo, single, template, edits, faults>>

PodGoes(n) ==
  /\ pod[n] # NoPod /\ pod[n].ds # "orphan"
  /\ pod' = [pod EXCEPT ![n] = NoPod]
  /\ unmarked' = unmarked \ {n} /\ late' = late \ {n}
  /\ queue' = TRUE
  /\ UNCHANGED <<conf, cache, requested, cluster, drained, seen, requestor, memory, stranded, work>>
  /\ UNCHANGED <<setup, mig, todo, single, template, edits>>

podRemoved(n) ==
  /\ pod[n].owner # Wants(n)
  /\ PodGoes(n)
  /\ UNCHANGED faults

\* A pod dies or is evicted by someone else.
podLost(n) ==
  /\ Fault
  /\ PodGoes(n)

\* The maintenance operator.
nodeDrained(x) ==
  /\ x \in nm \ drained
  /\ drained' = (drained \cap nm) \cup {x}
  /\ queue' = TRUE
  /\ UNCHANGED <<conf, cache, fleet, cluster, seen, requestor, memory, stranded, work>>
  /\ UNCHANGED <<setup, migration, edits, faults>>

\* The informers.
observe ==
  /\ cache # conf \/ seen # [label |-> label, nm |-> nm]
  /\ \/ cache' = conf /\ UNCHANGED seen
     \/ cache' = cache /\ seen' = [label |-> label, nm |-> nm]
  /\ <<cache, seen>>' # <<cache, seen>>
  /\ queue' = TRUE
  /\ UNCHANGED <<conf, fleet, cluster, drained, requestor, memory, stranded, work>>
  /\ UNCHANGED <<setup, migration, edits, faults>>

Init ==
  /\ setup \in Setups
  /\ conf = setup.conf /\ cache = conf
  /\ single = (setup.old = "single") /\ template = (setup.old = "no")
  /\ pod = [n \in Node |-> IF Wants(n) = None THEN NoPod ELSE NewPod(Wants(n))]
  /\ requested = {} /\ label = [n \in Node |-> ""] /\ nm = {} /\ drained = {}
  /\ seen = [label |-> label, nm |-> nm]
  /\ requestor \in BOOLEAN
  /\ managers = {} /\ lost = {} /\ stranded = {} /\ queue = TRUE /\ work = Idle
  /\ mig = "start" /\ todo = {} /\ unmarked = {} /\ late = {}
  /\ edits = 0 /\ faults = 0

Migrate ==
  \/ handleSingleMofedDS \/ deleteSingleMofedDS \/ handleMissingDSOwnerLabelOnPods \/ Start
  \/ \E n \in Node : markNodesAsUpgradeRequested(n) \/ backfill(n)

\* The upgrade controller waits for the migration.
WorkerUngated ==
  /\ Reconcile \/ Step
  /\ UNCHANGED <<setup, migration, edits, faults>>

Worker ==
  /\ mig = "done"
  /\ Reconcile \/ Step
  /\ UNCHANGED <<setup, migration, edits, faults>>

DaemonSetController(n) == podCreated(n) \/ podRemoved(n)

Next ==
  \/ Migrate \/ Worker \/ observe \/ templateUpdated
  \/ operatorRestarts \/ listFails \/ callFails
  \/ \E n \in Node : DaemonSetController(n) \/ podLost(n)
  \/ \E x \in nm : nodeDrained(x)
  \/ \E o \in Owner : driverChanges(o) \/ \E c \in Upgrades : userEdits(o, c)

Spec == Init /\ [][Next]_vars

Fairness ==
  /\ WF_vars(Migrate) /\ WF_vars(Worker) /\ WF_vars(observe) /\ WF_vars(templateUpdated)
  /\ WF_vars(\E n \in Node : DaemonSetController(n))
  /\ WF_vars(\E x \in nm : nodeDrained(x))

FairSpec == Spec /\ Fairness

-----------------------------------------------------------------------------
(***************************************************************************)
(* Properties.                                                              *)
(***************************************************************************)

State == {"", "required", "maintenance", "restart", "done"}

PodType == [owner : Owner \cup {None}, ds : {"none", "single", "pool", "orphan"}, labelled : BOOLEAN, current : BOOLEAN]

WorkType ==
  [pc : {"idle", "cluster", "apply", "unlabel", "list", "next", "stale"}, loop : {"list", "next", "stale"},
   who : Owner \cup {None}, nodes : SUBSET Node, view : [Owner -> Upgrades], todo : SUBSET NodePolicy, again : BOOLEAN]

\* Type correctness; also, NodeMaintenance objects exist in requestor mode
\* only, no pass is under way before the migration is done, and a pass that
\* upgrades or cleans up does so for a policy.
TypeOK ==
  /\ setup \in Setups /\ edits \in 0 .. setup.edits /\ faults \in 0 .. setup.faults
  /\ conf \in [Owner -> Upgrades] /\ Exclusive(conf) /\ cache \in [Owner -> Upgrades]
  /\ pod \in [Node -> PodType] /\ label \in [Node -> State]
  /\ requestor \in BOOLEAN /\ queue \in BOOLEAN
  /\ nm \subseteq (IF requestor THEN Node \X Owner ELSE {}) /\ drained \subseteq nm
  /\ managers \subseteq NodePolicy /\ lost \subseteq NodePolicy
  /\ requested \subseteq Node /\ unmarked \subseteq Node /\ late \subseteq Node
  /\ mig \in {"start", "mark", "list", "backfill", "done"} /\ todo \subseteq Node
  /\ single \in BOOLEAN /\ template \in BOOLEAN
  /\ work \in WorkType /\ (work.pc \in {"apply", "unlabel"} => work.who \in Owner)
  /\ work.pc # "idle" => mig = "done"

InProgress == {"required", "maintenance", "restart"}

\* What docs/heterogeneous-cluster-support.md says of the cleanup after the
\* cluster policy (cleanupUpgradeResources): it does not take the state of a
\* node that a node policy is upgrading automatically.
NcpCleanupScoped ==
  [][\A n \in Node :
       work.who = Ncp /\ label[n] \in InProgress /\ Home[n] \in managers /\ conf[Home[n]] = "auto" =>
         label'[n] # ""]_vars

\* Once the gate is open, every driver pod of the cluster policy carries the
\* ds-owner label, without which its upgrade stalls; but for pods that the old
\* template produced after the migration had listed the pods, and for those of
\* a cluster policy that had no driver any more when it did.
MigratedPodsLabelled ==
  mig = "done" => \A n \in Node : pod[n] # NoPod /\ ~pod[n].labelled => n \in late

\* The single DaemonSet goes only when every pod it leaves behind is marked
\* for an upgrade, restarts of the migration included; but for pods that came
\* after the migration had listed them.
OrphansRequested ==
  [][single /\ ~single' => \A n \in Node : pod'[n].ds = "orphan" => n \in requested' \cup unmarked]_vars

\* No pass is under way or due, and the informers show what there is.
Quiet ==
  work.pc = "idle" /\ ~queue /\ cache = conf /\ seen = [label |-> label, nm |-> nm]

\* The upgrade controller comes to rest only when nothing is left for it to do:
\* no policy upgrades, no manager is in memory, no node has an upgrade state
\* and no NodeMaintenance object is left, but for those that it lost track of.
QuietUpgradesOver ==
  Quiet => /\ managers = {}
           /\ \A o \in Owner : conf[o] # "auto"
           /\ \A x \in nm : x[2] \in lost
           /\ \A n \in Node : label[n] # "" => Home[n] \in lost /\ conf[Home[n]] = "manual"

Forgotten(n) == pod[n].ds = "orphan" /\ n \notin requested /\ label[n] \in {"", "done"}

Upgraded(o, n) ==
  /\ pod[n].owner = o /\ pod[n].ds = "pool" /\ pod[n].current
  /\ label[n] = "done" /\ <<n, o>> \notin nm \ stranded

\* As long as automatic upgrades are on, every node of a policy ends up with
\* the current driver and marked done; through restarts, failed calls and
\* cleanups that take its state in between.  It ends up released, too, unless
\* a cleanup took its state and left its NodeMaintenance.
UpgradeCompletes ==
  \A o \in Owner :
    <>[](conf[o] = "auto" /\ late = {} /\ \A n \in Node : ~Forgotten(n)) =>
      <>[](\A n \in Node : Wants(n) = o => Upgraded(o, n))

\* When upgrades are no longer on for a policy, its NodeMaintenance objects go
\* and the states of its nodes are cleared, unless the operator has lost track
\* of a node policy: by a restart, by cleaning up from caches that did not yet
\* show its last steps, or by leaving to it a node that the cluster policy was
\* upgrading.
RetiredPolicyReleased ==
  \A o \in Owner :
    <>[](conf[o] # "auto" /\ o \notin lost) =>
      <>[](/\ \A n \in Node : <<n, o>> \notin nm
           /\ o \in NodePolicy => \A n \in Node : Home[n] = o /\ conf[o] = "manual" => label[n] = "")

=============================================================================
