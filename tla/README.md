# Verification of the NVIDIA network operator

TLA+ models of the controllers of the network operator, checked with TLC on
small instances; their safety properties are also proved with TLAPS, for all
instances.
`PROJECT.json` maps every definition to the source lines it models.

## The system

The operator runs several controllers in one process, of which one replica is
the leader. All state that survives is in Kubernetes objects; controllers read
it (from caches, except where noted) and write it with patches or optimistic
updates. A work queue per controller holds each key once and never runs one key
twice at a time.

| Part | Module | What makes it hard |
|---|---|---|
| Driver DaemonSets (`pkg/state/state_ofed.go`, `state_skel.go`) | `StaleOfed`, `StaleOfedProofs` | nodes come and go during a sync; partial failure; a deadline that only an annotation remembers |
| `mofed.wait` labels (`controllers/mofed_wait_labels.go`, both policy controllers) | `MofedWait`, `MofedWaitProofs` | two controllers patch the same nodes blindly from old lists |
| Drain (`controllers/drain_controller.go`, `pkg/drain`) | `Drain`, `DrainProofs` | handshake with three outside parties; two passes over one node; optimistic locks |
| All other components of a policy, state manager, status and conditions (`pkg/state`, `controllers/conditions.go`, `nic_policy_helpers.go`) | `Components`, `PolicySync`, `PolicyPromise`, `PolicyRefinement`, `PolicySyncProofs`, `PolicyPromiseProofs` | specs change in mid-pass; policies share components; reports are refused |
| Secondary networks (`controllers/*network_controller.go`, `pkg/state/state_*_network.go`) | `Network`, `NetworkProofs` | an object follows a namespace that only an annotation remembers |
| Upgrade controller (`controllers/upgrade_controller.go`) | `Upgrade` | managers in memory; cleanup for one policy while another upgrades |
| Migration (`pkg/migrate`) | `Migration` (extends `Upgrade`), `MigrationProofs` | restarts between steps; the upgrade depends on what was migrated |
| Webhooks and overlap (`api/v1alpha1/validator`, `pkg/policyoverlap`, node policy controller) | `Admission`, `AdmissionProofs` | admissions race; labels change later |

The parts meet in the objects. The driver DaemonSets that `StaleOfed` manages
run the pods whose readiness `MofedWait` turns into labels and whose updates
`Upgrade` orders; what `Admission` establishes (a section belongs to the
cluster policy or to node policies) is what `MofedWait` and `Migration` assume
of the policies they start from, and what keeps the sweeps in `PolicySync`
apart. `Migration` composes the start-up with the upgrade controller, the
DaemonSet controller and the maintenance operator.

The `MC` module next to each of them holds its instances. Where several
set-ups ask the same question, a behaviour starts by choosing one (`Setups`),
each with its own bounds on edits and faults.

## Modules

### StaleOfed: deferred removal of driver DaemonSets

One policy. `node` is the pool each node is eligible for, `spec` the policy,
`ds`, `sel`, `mark`, `shared` and `rbac` the objects in the cluster, `queued` and
`timer` the work queue, `pc` and `run` the reconcile under way. A reconcile is
`Reconcile` (read policy and pools), `createOrUpdateObjs`,
`planStaleRetention`, `sweepShared` (ServiceAccount and ConfigMap), `sweepDS`,
`sweepRbac` (roles and bindings) and `Ready` or `NotReady`; each
of the writing steps has a variant that fails part way. Time is relative: ages
and remaining delays instead of a clock, saturating at `Grace`, so the clock
needs no bound. `seen` is a history variable for the grace property.

- `SyncLeavesOnlyWanted`: a completed sync leaves DaemonSets it rendered,
  unmarked, and deferred ones, marked and still covered by the selector.
- `ReapedOnlyAfterGrace`: a DaemonSet goes without policy intent only after
  the grace period, less the second that RFC3339 rounds away.
- `DeferralHasWakeUp`: an idle operator never holds a deferred DaemonSet
  without a queued request or a running timer.
- `RetainedCanRestart`: a deferred DaemonSet has its shared objects. It holds
  without faults (`FaultFreeRetainedCanRestart`).
- `RetiredPoolReaped` (liveness): a pool that stays empty loses its DaemonSet.

`TypeOK` also says of the pass under way that it renders, plans and defers only
with ofedDriver, and that with a deferred DaemonSet comes a deadline within the
grace period.

`stale` has one node that moves between two pools, a DaemonSet of an older
release, one that pins no pool, two selectors, and one API error, restart or
garbled annotation (faults only with rendered DaemonSets and the empty selector,
`FaultsOfRendered`; no step of the worker, the timer or the clock is cut off by
it). `stale_shared` shows a departure from
`docs/heterogeneous-cluster-support.md`: see Findings. Grace is 2 ticks and a
second 2 (1 in `stale_shared`), which is enough for an annotation to be rounded
and for a deadline to fall between two syncs.

### MofedWait: the mofed.wait label

Each of two workers, `ncp` and `nnp`, reads a policy, lists driver pods, and
patches nodes one by one (`Reconcile`, `handleMOFEDWaitLabelsNoConfig`,
`list`, `setNodeLabel`, `finish`). The node of a ready pod is read before it is
patched (`processOFEDPodsForWaitLabels`), so its readiness may be old by then. Pods, DaemonSet status, node readiness and
policies change in between; watches and predicates decide what is queued.

- `TypeOK` has a meaning of its own here: a node without a NIC is never labelled.
- `QuietGateMatchesDriver`: when nothing is pending, the label of a node with
  a driver pod says whether that driver is ready.
- `QuietFreeNodeOpen`: when nothing is pending, a node without driver does not
  wait.
- `DriverDownClosesGate`, `DriverUpOpensGate`, `FreeNodeOpens`: the same as
  liveness, when the driver stays down, stays up, or stays away.

`mofed` checks them for node policies that are created and deleted, for the
cluster policy with one fault, and for node policies that are edited, with one
fault. For the last, nodes without a driver are left out
(`CreatedAndDeletedFreeNodeOpen`, `CreatedAndDeletedFreeNodeOpens`):
`mofed_removed` shows why. A race over a label is between the two workers and
one node, so one node with one node policy, next to one without a NIC, has
every pair of racing patches; two nodes with two policies exceed what TLC can
finish.

### Drain: the drain handshake

One node. The SR-IOV daemon writes `request`, the controller answers in
`current` and works through the NodeMaintenance object `nm`, which other
requestors may share. Node and node state events have different keys, so
there are two passes, each `Reconcile` (read the node), `choose` (read the
node state), `checkForExistingNodeMaintenance`, then create, reuse or join and
`handleNodeDrainOrReboot`, or delete or leave and `handleNodeIdle`. All reads
go to the API server (`main.go` gives this controller a client without a
cache). `fresh` stands for resource versions. The daemon, the maintenance
operator, the other requestors and the orchestrator are external: the
maintenance operator is assumed to keep an object whose deletion is requested
until its list of additional requestors is empty.

- `CompleteMeansDrained`: while the daemon relies on a completed drain the
  node is drained.
- `IdleMeansReleased`: once the daemon is told that the node is idle, this
  controller holds no NodeMaintenance, but for one whose deletion is under way.
- `QuietRequestAnswered`: when no pass is under way or due, the node state answers
  what the node asks for; events of the NodeMaintenance do not reach the node, so
  a pass that has to wait must ask for another.
- `OthersKeepTheirPlace`: nobody else's entry on the list is lost.
- `DrainCompletes`, `IdleNodeReleased` (liveness): a request is answered; an
  idle node is given back.

`config` is the set-up, fixed at the start: is the object's name the shared
one, and is this the only node of the cluster (a reboot is then answered
without a drain). `drain` passes for all four set-ups under
`Turnaround = "afterRemoval"`: the daemon reacts only after the passes under
way have ended, and asks again only when nothing of the last drain is left. The
code does not enforce this. `drain_reuse` drops the second half of the
assumption and shows what happens then. `drain_cancelled` is a finding of its
own. One other requestor, two requests of its own and one fault reach every
combination of owner, list and deletion.

### Components, PolicySync, PolicyPromise: the other components of a policy

`Components` is the table of the eleven states besides the driver: the kinds of
objects each renders and in which order, those that are left without the optional
ones (none is optional in a `Fixed` one), which kinds it watches, whether node policies have it too and whether it waits for a CRD.

`PolicySync` runs them. Numbers of specs stand for uid and generation: a
policy's edits are numbered, and every object carries the number of the spec it
was rendered from. There is one worker per controller; a pass is `Reconcile`
(read the cached policy), `Sync` per component, `createOrUpdateObjs` (one object
per step, merged into what is there by `mergeObjects`),
`deleteStateRelatedObjects` for a section that is off, `getSyncState` (one object
read per step, until one is missing or not ready), and `updatePolicyCRStatus`, with the conditions and the optimistic lock. Faults:
a call fails, a status update fails, the operator restarts, someone deletes an
object. The cluster stores and deletes policies, delivers events, collects
garbage, reports DaemonSet status (possibly of a former generation), changes pods
and installs the CRD that one component waits for.

`PolicyPromise` is the abstract specification. It knows no passes, caches or
workers: a policy's specs are acted on in order, only objects of a policy's own
are created, changed or removed for it, and readiness of a spec is claimed only
when all of its components are in place.

- `PromiseKept`: PolicySync implements PolicyPromise, under the refinement mapping
  of `PolicyRefinement`.
- `QuietStatusTruthful`: when nothing is pending for a policy, its objects are
  those of the latest spec and its status says so, unless the report of a ready
  pass was lost (`unsaid`; the code does not repeat it).
- `SettlesReady` (liveness): a valid policy whose DaemonSets stay up ends up
  deployed and reported ready for good.

`policy_sync` takes each component alone in the cluster policy through two edits
and every mode (with a fault for one of each shape: a DaemonSet only, a
Deployment, an optional ConfigMap), a policy deleted and created again with a
fault, two components in one policy, and one component in the cluster policy and
a node policy. Components meet only in the aggregation of their results and
policies only in the sweep, so pairs are enough. Behaviours end when edits and
faults are used up, which is why the deadlock check is off, here and below.

### Network: secondary networks

One network of one of the three kinds, which differ in what `Kinds` says: whether
the definition follows the namespace of the network, which namespace is rendered
when it has none, whether a failed report is retried and what it reports. `cr` is the stored network, `cache`
the controller's copy, `nad` the NetworkAttachmentDefinition in each namespace,
`seen` what the cache shows of them. A pass is `Reconcile`, then `follow`
(clean up the namespace noted in the annotation when the spec names another),
`apply`, `check`, `note` (write the annotation), `get` (look up the link) and
`report`. Users create, edit, move and delete; namespaces come and go.

- `QuietNetworkDeployed`: a network at rest has its definition where and as the
  spec says, and its status says so.
- `FormerNadsGone`: no definition is left behind in a former namespace, except
  where the note of it was refused and the network moved on (`leftover`): the
  code then has no record of it.
- `NetworkSettles` (liveness): a network whose namespace exists is deployed and
  reported ready for good, and of a deleted one nothing stays.

`network` has two namespaces, three edits (create, move, move back or delete) and
one fault; three edits only without a fault or a change of configuration
(`Bounded`). A definition is left behind by one move, so two namespaces show it.

### Upgrade and Migration

`Upgrade` is one pass of the upgrade controller: `Reconcile`, the cluster policy's
upgrade or its cleanup, then node policies one by one, then the cleanup for the
managers whose policy is gone or no longer upgrades. The library that moves a node
through its states is external; `BuildState` and `ApplyState` stand for what the
controller relies on: states go required, maintenance, restart, done, a state
cannot be built while a DaemonSet lacks pods, and in requestor mode a node is
drained through a NodeMaintenance object. How many nodes upgrade at a time is
left out: every node may.

`Migration` extends it with the start-up migration of the driver DaemonSets of
two older releases (one DaemonSet for all pools; pods without owner label), the
gate at which the controllers wait for it, the DaemonSet controller and the
maintenance operator.

- `MigratedPodsLabelled`: once the gate is open every driver pod carries the owner
  label, except one that appeared after the list was taken, or that was passed over
  because the cluster policy had no driver then (`late`).
- `OrphansRequested` (action property): the single DaemonSet goes only when each
  pod it leaves behind is marked for an upgrade, restarts included, except one
  that appeared after the list was taken (`unmarked`).
- `NcpCleanupScoped` (action property): the cleanup after the cluster policy leaves
  the nodes alone that a node policy is upgrading. The documentation says so; it
  does not hold, see Findings.
- `UpgradeCompletes` (liveness): upgrades finish and give back their NodeMaintenance
  objects, those that a cleanup has thrown back included. It excepts pods without
  owner label (`late`) and requests that were dropped (`Forgotten`), and of the
  objects those whose label went first (`stranded`); see Limits.
- `RetiredPolicyReleased` (liveness): a policy that no longer upgrades gives back
  the labels and NodeMaintenance objects of its nodes, unless the controller lost
  track of them (`lost`; see Limits).
- `QuietUpgradesOver`: the controller comes to rest only when no policy upgrades, no
  manager is left in memory, and no node state or NodeMaintenance object is left but
  of policies in `lost`.

`migration` has two nodes of two node policies, with and without requestor mode. Of the old
releases, both meet one fault, and the single DaemonSet one edit; of the current one,
node policies meet an edit and a fault or two edits, and a cluster policy that
upgrades two edits, so that it can be replaced by node policies in mid-upgrade
(in-place upgrades only, `HandoverInPlace`, to keep the run small).
The cleanup for one policy can harm a node of another: two of each are enough.
`upgrade_disturbed` takes one of these set-ups, two node policies with an edit and
a fault.

### Admission: conflicting policies

A request is validated against the webhook's cache and stored later, so two may
pass each other. `ncp`, `nnp` and `labels` are stored, `cache` and `news` the
informers; the node policy controller checks for overlap (`checkNodeOverlap`)
before it syncs, and the DaemonSets it deploys select nodes. A list, the set-up for
the driver (`setupOFEDCatalogFails`) or the sync may fail. `misled` records that
a request was stored that had been admitted without knowing all there was: the
list failed, the cache was behind, another request was on its way, or the
cluster policy looked at was one that the operator ignores.

- `SectionsExclusive`, `SelectorsDisjoint`: unless misled (and, for selectors,
  unless nodes were relabelled), a section is configured by the cluster policy or
  by node policies, and no node is selected by two.
- `OverlapReported` (liveness): after the last change, each node in an overlap has
  a policy that reports it.
- `OverlapResolves` (liveness): after the last change, if there is no overlap, every
  policy is deployed as written and ready, whatever was reported before.
- `QuietPoliciesInForce`: when nothing is left to do, no node is selected by two
  policies, and every policy is deployed as written and ready; a policy that finds an
  overlap is retried until it is gone.

`admission` has two nodes, two node policies and the cluster policy, and six
set-ups: racing requests, widened selectors with a fault, one and two relabellings,
and both kinds of policies with and without an ignored cluster policy. A conflict is
between two policies over one node or section.

## Findings

Five runs end in a counterexample, each against a sentence of the repository
that `PROJECT.json` quotes.

| Run | What the code does |
|---|---|
| `stale_shared` | A failed deletion removes the shared objects and not the DaemonSet; when the policy is edited back while the pool is empty, the DaemonSet is kept without the objects its pods need to restart. |
| `mofed_removed` | `ofedDriver` is removed from a node policy while its pod restarts: a pass in flight writes `true` after the cluster controller's last pass wrote `false`, and the node waits with no driver until some other event. |
| `drain_cancelled` | A request taken back during the drain is not recognised, because nothing writes the state `Draining`; the node stays cordoned. |
| `drain_reuse` | A drain asked for while the last object is being removed is answered from that object, and the node is uncordoned after the answer. |
| `upgrade_disturbed` | When the node policies cannot be listed, the cleanup after the cluster policy goes on without them and takes the upgrade state off a node that a node policy is upgrading; its upgrade starts over. |

## Fairness

Workers with a queued request run, and no key starves (the queue is first in
first out): strong fairness per policy where one worker serves several keys,
weak fairness for the steps of a pass. Events reach the informers, timers fire
and the clock ticks. Of the cluster: the DaemonSet controller reports status,
creates pods and ends those whose DaemonSet is gone; garbage is collected; the
maintenance operator drains and uncordons. Pods need not become ready, nor users
act: where a liveness property needs that, it says so on its left-hand side.
Other requestors of a drain release what they hold; they ask at most `MaxAsks`
times, since one that comes and goes for ever can starve a request. Faults are
never fair.

## Proofs

Every safety property that a passing run checks is also a theorem, for all values
of the constants: any nodes, policies, namespaces and requestors, any number of
edits and faults, any set-ups. Each theorem is `Spec => []P`, `Spec => A` for an
action property, or, for the refinement, `Spec => PromiseKept`. What the proofs
assume is the named ASSUME of each model (the kinds of the constants: names of
different things differ, bounds are naturals) and, in three theorems, a condition
of their own, given below. Each proof rests on an inductive invariant; those of
MofedWait, Drain, Network and Migration were model-checked on instances like those
of the runs before they were proved.

| Module | Theorem | States |
|---|---|---|
| `StaleOfedProofs` | `TypeCorrect`, `GracePeriodKept`, `SyncConverges`, `DeferralRevisited`, `RetainedKeepShared` | `TypeOK`, `ReapedOnlyAfterGrace`, `SyncLeavesOnlyWanted`, `DeferralHasWakeUp`, `FaultFreeRetainedCanRestart` |
| `MofedWaitProofs` | `TypeCorrect`, `GateMatchesDriver`, `FreeNodesOpen`, `NodePolicyGate` | `TypeOK`, `QuietGateMatchesDriver`, `CreatedAndDeletedFreeNodeOpen`, and one of its own |
| `DrainProofs` | `TypeCorrect`, `PlacesKept`, `CompleteIsDrained`, `IdleIsReleased`, `NothingForgotten` | `TypeOK`, `OthersKeepTheirPlace`, `CompleteMeansDrained`, `IdleMeansReleased`, `QuietRequestAnswered` |
| `PolicySyncProofs` | `TypeCorrect` | `TypeOK` |
| `PolicyPromiseProofs` | `PromiseImplemented`, `StatusTruthfulWhenQuiet` | `PromiseKept`, `QuietStatusTruthful` |
| `NetworkProofs` | `TypeCorrect`, `DeployedWhenQuiet`, `NoFormerNads` | `TypeOK`, `QuietNetworkDeployed`, `FormerNadsGone` |
| `MigrationProofs` | `TypeCorrect`, `MigrationLabels`, `OrphansMarked`, `RestsWhenOver` | `TypeOK`, `MigratedPodsLabelled`, `OrphansRequested`, `QuietUpgradesOver` |
| `AdmissionProofs` | `TypeCorrect`, `SectionsStayApart`, `SelectorsStayApart`, `InForceWhenQuiet`, `ServedDisjointWhenQuiet` | `TypeOK`, `SectionsExclusive`, `SelectorsDisjoint`, `QuietPoliciesInForce`, and one of its own |

### StaleOfed

A rendered DaemonSet pins its pool, a second is no longer than the grace period.
`IInv` adds to the type: an annotation is no older than the last sighting of the
pool, up to a second (`AgeInv`); what the scratch state holds in each phase
(`RunInv`); every live pool is applied after the apply step (`AppliedInv`);
planning has sorted the DaemonSets into desired, protected and stale
(`PlannedInv`); the sweep leaves none stale (`SweptInv`). The grace property
alone is not inductive: the deletion happens two steps after the decision, and
the decision rests on an annotation written syncs before. `SharedInv` says that,
without faults, the shared objects exist while any DaemonSet does, except within
a sweep that is about to delete them all; `RbacInv` says that the roles, which go
after the DaemonSets, exist while any DaemonSet does, faults or not.

### MofedWait

A label is right at rest because of what every earlier step left pending, so the
invariants say what is owed. `OwnerInv`, per policy: if its next pass is not due
and it has no pass under way, its drivers are up and its nodes are open; a pass
under way has still to look at every node that is not, or has asked for another
pass. `FreeInv`, per node: if nobody wants a driver there and the cluster
policy's next pass is not due, the node is open, or the pass opens it, or the
other worker clears the label (`Clears`). `KeyInv`, `PodInv`, `HostInv`, `DsInv`,
`NcpInv` and `NnpInv` say what the passes have read and where pods are.

`GateMatchesDriver` assumes `OneKind`: a set-up has the driver in the cluster
policy or in node policies, as the webhook wants it. Without it the theorem is
false (see Limits); `NodePolicyGate` is what holds of node policies' drivers
regardless. `FreeNodesOpen` is about set-ups with the driver in the cluster
policy, or with node policies that are created and deleted without faults:
`mofed_removed` is the counterexample beyond them.

### Drain

`PlacesKept` needs the optimistic lock only: an object whose version a pass still
has is the one it read (`FreshInv`). `CompleteIsDrained` assumes
`Turnaround = "afterRemoval"`, as the run does, and `HoldInv`: the request does not
change under a pass, so a pass is on the branch that fits it; nobody deletes our
object while we ask; what a pass read of an object that we hold is still so; the
answer is given, and stands, only while we hold the ready object.

`IdleIsReleased` assumes that the daemon takes no request back (`drain_cancelled` is
the counterexample otherwise) and reacts after the passes under way have ended, but
not that it waits for the removal. `ReleaseInv`: the claim is given up before the
node is said to be idle, and what a pass read is enough to give it up, because
nobody makes us hold an object while we do not ask. `NothingForgotten` holds for any
daemon. `PendingInv`: the request is answered, or some pass is queued or on the
branch that the present request calls for; two passes may be wrong about the
request, but its last change queued one that is not.

### PolicySync

`PolicySyncProofs` proves the invariant and `PolicyPromiseProofs` uses it. `Inv` is the type with `PassInv` (the components a pass found ready are in place,
and so are the objects applied so far, except those that others took since) and
`TakenInv` (an object that others took is gone or was deployed again for the same
spec). With it the initial state and every step of PolicySync map to an initial
state, a step or a stutter of PolicyPromise; the refinement mapping keeps of a
spec the objects it asks for, of an object the spec it was deployed for, and of
a status which spec it is about and whether it says ready.
`StatusTruthfulWhenQuiet` adds `SinceInv`: what has not changed since the pass
under way, or the last one, began, unless an event for the policy is pending. The
objects are checked one by one, so it needs `CheckInv`: a DaemonSet that the check
has been over is still up, unless an event is pending.

### Network

`DeployInv`: a pass works from what the cache shows, or another one follows
(`CacheInv`); what it wrote is there, or an event is due (`WrittenInv`); the last
pass left the network deployed and reported (`Outcome`). `FormerInv` adds that a
copy whose note differs from the stored one has itself moved (`AnnotInv`), that
the former definition goes before the new one is written (`MovedInv`), and that
every definition of the network is the noted one, one about to be noted, or left
over (`NadInv`). `FormerNadsGone` alone is not inductive, since between the write
and the note the new definition is the one nobody has a record of.

### Migration

`BackfillInv` and `MarkInv` say of each pod that it is on the list still to be
done, is done, or came after the list, which survives restarts because a restart
starts the list over.

`RestsWhenOver` is the half of `RetiredPolicyReleased` that needs no fairness: nothing
left behind is without a wake-up. `RestInv` says what the pass under way still owes
if nothing has asked for another one since it began: it works from what the cache
shows, has yet to come to each policy that upgrades and to each manager without
one, and repeats itself if it met any. It needs `CareInv` (a node policy's objects
belong to a manager, or are lost track of), `LoopInv` (where the pass is in its
two loops) and `StaleInv` (the second loop cleans up only for managers whose policy,
as the pass read it, does not upgrade).

### Admission

`PendingInv`: a request that was admitted knowing all that is stored still fits,
whatever has been stored or deleted since. The lemmas `NoOverlap` and
`OverlapMeaning` show that the overlap check finds nothing only if no two policies
select one node. `CheckedInv`: two policies that passed their check and have not been
queued since select different nodes. `InstInv` and `DeployedInv` tie the
DaemonSets to the policies that were checked. `StatusInv`: a policy without work and
without news says it is ready, because the status of a good pass is refused only
if the policy changed under it, and then news is due. Together they give
`InForceWhenQuiet`, and with the pods where the DaemonSets want them,
`ServedDisjointWhenQuiet`: no node has the pods of two policies.

### Only model-checked

- Every liveness property: `RetiredPoolReaped`, `DriverDownClosesGate`,
  `DriverUpOpensGate`, `CreatedAndDeletedFreeNodeOpens`, `DrainCompletes`,
  `IdleNodeReleased`, `SettlesReady`, `NetworkSettles`, `UpgradeCompletes`,
  `RetiredPolicyReleased`, `OverlapReported`, `OverlapResolves`. Fairness is out of
  the prover's reach.
- What the five runs under Findings refute is not a theorem: `RetainedCanRestart`
  with faults, `QuietFreeNodeOpen` in every set-up, `CompleteMeansDrained` for a
  daemon that does not wait for the removal, `NcpCleanupScoped` with a failed list.

## Limits

Of the models:

- Reads of cached objects are taken as current in StaleOfed and MofedWait;
  the steps between a read and a write give most of the same staleness.
  PolicySync, Network, Migration and Admission have caches of their own.
- Two node policies that select one node are not told apart from others in
  MofedWait, whose runs have one; that the controller stops such policies before
  they sync is modelled in Admission.
- The container's readiness and the node's are read at two moments. Drivers
  that alternate between the two can pass for ready; the liveness properties
  are stated for each of them apart.
- A pass of the drain controller that outlasts the daemon's work
  (`Turnaround = "any"`) is not part of a run. Nothing in the code excludes it:
  such a pass may create the NodeMaintenance after the other pass undrained
  the node, or delete, by name, one that another requestor has created since.
- In Drain the node and its node state exist throughout; a pass over a missing
  one returns at once. A missing annotation is initialised by a blind patch;
  whether the daemon repeats a request overwritten by it is not decided here. The
  annotation `NodeStateDrainAnnotation`, which is initialised and never looked at,
  is left out, and so are values of the annotations that neither side writes.
- In `Components` one kind, `Support`, stands for ServiceAccounts, roles, CRDs and
  Services, so it has one place in the order of `GetSupportedGVKs`, which in the
  code has ServiceAccounts first and the rest after the DaemonSets. No
  property of PolicySync depends on that order; where it matters, for the driver,
  StaleOfed has both places.

Departures of the code that the properties except, or that no run shows:

- Labels: clearing the labels of a deleted node policy is tried once, its error is
  only logged, and after a restart nobody reconciles the deleted name; the node
  keeps waiting. Handing ofedDriver from a node policy to the cluster policy can
  leave a stale `true` if a pod starts and becomes ready within one pass; no set-up
  of the runs does it, and `GateMatchesDriver` excludes it (`OneKind`).
- Status: a node policy in overlap reports no states, and its Ready condition is
  then True (`nicclusterpolicyconditions.go:38`). Deployments are never checked for
  readiness. A report lost after a ready pass is not repeated.
- Networks: a definition whose namespace could not be noted stays until the network
  is deleted. A ready network may keep the reason of an earlier error. Two networks of
  one name and different kinds in one namespace take the definition from each other.
  A network without namespace gets no link, and a HostDeviceNetwork without one is
  never ready.
- Upgrades: managers are in memory, so after a restart, or a cleanup from a cache
  that lags, resources of a retired node policy stay (`lost`). So does the state of a
  node that the cluster policy was upgrading when a node policy without automatic
  upgrades took it over before the next pass: the cluster policy's cleanup leaves
  the node alone, and the node policy has no manager to clean up. A cleanup that fails
  half way leaves a NodeMaintenance behind (`stranded`). An orphaned pod's request
  is forgotten when upgrades are switched off midway (`Forgotten`). When node
  policies cannot be listed the cluster policy's cleanup clears their nodes too
  (`upgrade_disturbed`).
  A policy whose state cannot be built blocks those behind it.
- Admission: a conflict of sections that raced past the webhook is not looked for
  again. The webhook uses the first cluster policy of the list, which may be an
  ignored one. At run time any overlap stops every node policy that is reconciled,
  and a policy that is ready is not reconciled when another comes to overlap it. An
  edit that removes one of several overlaps is refused.

## Not modelled

- Driver image tags (`pkg/docadriverimages`). Both controllers share one provider, so
  one policy's `SetImageSpec` may replace the tags between the other's
  `SetImageSpec` and `TagExists`, and may clear the spec between the nil check
  of `retrieveTags` and its lock. What is chosen is the image of the driver pod, which
  no module here has as state; it needs a module with its own instance, see Plan.
- Proxy and trusted CA settings and the hash of the configuration: rendered text, and
  a retry loop around a list from a cache.
- How a node pool is read off node labels, tolerations, templates: rendering.
- Format checks of single fields and `skipValidations` in the webhooks.
- In the upgrade, the limit on parallel upgrades (in the library) and the removal of
  annotations of older releases; in the migration, Whereabouts objects and the switch
  that turns it off.
- Cluster policies of another name than the operator's, beyond their place in the
  webhook's list: they are marked ignored once.
- Start-up wiring, API types, generated code, release tools.

## Plan

1. `DocaImages`: the shared provider between the two controllers.
2. Node pools and tolerations as operators against reference definitions.
