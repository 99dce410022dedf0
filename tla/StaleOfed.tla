------------------------------ MODULE StaleOfed ------------------------------
(***************************************************************************)
(* The OFED driver state of one policy (NicClusterPolicy or NicNodePolicy): *)
(* one driver DaemonSet per node pool, and the deferred removal of a        *)
(* DaemonSet whose pool has no eligible node (pkg/state/state_ofed.go,      *)
(* state_skel.go, manager.go; the reconcile queue as controller-runtime     *)
(* drives it).                                                              *)
(*                                                                          *)
(* Time is relative: the stale-since annotation is represented by its age   *)
(* and a delayed requeue by the time it has left, in clock ticks.  Ages     *)
(* saturate at Grace, the only value the code compares them with, so the    *)
(* model needs no bound on the clock.                                       *)
(***************************************************************************)
EXTENDS Integers, FiniteSets

CONSTANTS
  Node,         \* cluster nodes
  Pool,         \* node pools: OS name, OS version and kernel
  NoPool,       \* "in no pool": an ineligible node, an unpinned DaemonSet
  Key,          \* names of OFED DaemonSets
  KeyPool,      \* the pool pinned by the nodeSelector of a DaemonSet
  RenderedKey,  \* the DaemonSet the manifest renders for a pool
  Entry,        \* key=value pairs of a policy's nodeSelector
  NodeLabels,   \* the entries a node carries
  PoolLabels,   \* the entries that the NFD labels of a pool amount to
  Selectors,    \* the nodeSelectors users write
  Grace,        \* staleOFEDGracePeriod, in ticks
  Second,       \* ticks per second, the resolution of the annotation
  Requeue,      \* RequeueTimeSeconds, in ticks
  MaxFaults     \* API errors, operator crashes and garbled annotations

ASSUME TimeAssumption ==
  /\ Grace \in Nat /\ Second \in Nat \ {0} /\ Second <= Grace
  /\ Requeue \in Nat
  /\ MaxFaults \in Nat

ASSUME NamesAssumption ==
  /\ NoPool \notin Pool
  /\ KeyPool \in [Key -> Pool \cup {NoPool}]
  /\ RenderedKey \in [Pool -> Key]
  /\ \A p \in Pool : KeyPool[RenderedKey[p]] = p

ASSUME SelectorAssumption ==
  /\ NodeLabels \in [Node -> SUBSET Entry]
  /\ PoolLabels \in [Pool -> SUBSET Entry]
  /\ Selectors \subseteq SUBSET Entry
  /\ {} \in Selectors

Unmarked == -1     \* no stale-since annotation
Garbled  == -2     \* a stale-since annotation that does not parse
NoTimer  == -1

VARIABLES
  node,     \* the pool each node is eligible for: labelled, untainted, Ready
  spec,     \* the policy: is ofedDriver set, and its nodeSelector
  ds,       \* DaemonSets of this policy that exist
  sel,      \* the policy nodeSelector each one was rendered with
  mark,     \* age of its stale-since annotation
  shared,   \* ServiceAccount and init ConfigMap of the state exist
  rbac,     \* its roles and bindings exist
  phase,    \* ticks since the clock last passed a whole second
  queued,   \* the policy is in the work queue
  timer,    \* time left on its delayed requeue
  pc,       \* what the reconcile worker does next
  run,      \* the scratch state of the running reconcile
  faults,   \* faults so far
  seen      \* history: time since planning last saw the pool of a
            \* DaemonSet with eligible nodes

vars == <<node, spec, ds, sel, mark, shared, rbac, phase, queued, timer,
          pc, run, faults, seen>>

cluster == <<node, spec>>
objects == <<ds, sel, mark, shared, rbac>>

Idle == [ofed |-> FALSE, sel |-> {}, live |-> {}, protected |-> {},
         next |-> 0, found |-> FALSE]

PC == {"idle", "apply", "plan", "sweepShared", "sweepDS", "sweepRbac", "finish"}

(***************************************************************************)
(* Pools, names and selectors.                                              *)
(***************************************************************************)

\* setupOFEDCatalog lists the nodes the policy selects; the label and taint
\* filters keep the eligible ones, and the pools are theirs.
ofedNodePools(s) ==
  {p \in Pool : \E n \in Node : node[n] = p /\ s \subseteq NodeLabels[n] \cup PoolLabels[p]}

desiredDaemonSetKeys(live) == {RenderedKey[p] : p \in live}

\* The rendered nodeSelector is the policy's laid over the pool's labels.
ofedSelectorRetargeted(k, s) ==
  ~(s \subseteq sel[k] \cup PoolLabels[KeyPool[k]])

\* The early returns of deferralRemaining that leave a DaemonSet to the
\* stale cleanup at once: policy intent, or no pool to wait for.
Unwanted(k, s, live) ==
  \/ KeyPool[k] = NoPool
  \/ ofedSelectorRetargeted(k, s)
  \/ KeyPool[k] \in live

(***************************************************************************)
(* The stale-since annotation.                                              *)
(***************************************************************************)

\* The annotation after markStaleSince: one that parses is kept, otherwise
\* now is stamped, and RFC3339 drops the part of it below a second.
markStaleSince(k) == IF mark[k] >= 0 THEN mark[k] ELSE phase

\* The age markStaleSince returns: the first call returns now itself.
StaleAge(k) == IF mark[k] >= 0 THEN mark[k] ELSE 0

RemainingShort(k, s, live) ==
  IF Unwanted(k, s, live) THEN 0 ELSE Grace - Second - StaleAge(k)

deferralRemaining(k, s, live) ==
  IF Unwanted(k, s, live) THEN 0 ELSE Grace - StaleAge(k)

\* protect keeps the shortest remaining grace period, and 0 when no
\* DaemonSet is protected.
IsNextDeadline(d, protected, s, live) ==
  /\ \A k \in protected : d <= deferralRemaining(k, s, live)
  /\ IF protected = {} THEN d = 0
     ELSE \E k \in protected : d = deferralRemaining(k, s, live)

(***************************************************************************)
(* The work queue.                                                          *)
(***************************************************************************)

\* A delayed add of a key that already waits keeps the earlier deadline.
AddAfter(d) == timer' = IF timer = NoTimer \/ d < timer THEN d ELSE timer

\* requeueForStates: a sync that needs no retry is requeued for the deadline
\* a state waits on, even when everything is ready.
RequeueOnlyRetries(d) == UNCHANGED timer

requeueForStates(d) == IF d > 0 THEN AddAfter(d) ELSE UNCHANGED timer

\* Every change of a DaemonSet is an event that enqueues its owner.
Changed == ds' # ds \/ sel' # sel \/ mark' # mark

NotifyOwner == queued' = (queued \/ Changed)

\* The end of a reconcile that failed: the request is retried later.
Abort ==
  /\ faults < MaxFaults
  /\ faults' = faults + 1
  /\ AddAfter(Requeue)
  /\ pc' = "idle"
  /\ run' = Idle

(***************************************************************************)
(* One reconcile.  Time passes and the cluster changes between its steps.   *)
(***************************************************************************)

\* Reconcile reads the policy and the nodes once; Sync works from that.
\* Without ofedDriver every object of the state is deleted.
ReconcileNilMissed ==
  /\ pc = "idle" /\ queued
  /\ queued' = FALSE
  /\ run' = [Idle EXCEPT !.ofed = spec.ofed, !.sel = spec.sel,
                         !.live = IF spec.ofed THEN ofedNodePools(spec.sel) ELSE {}]
  /\ pc' = "apply"
  /\ UNCHANGED <<cluster, objects, phase, timer, faults, seen>>

Reconcile ==
  /\ pc = "idle" /\ queued
  /\ queued' = FALSE
  /\ run' = [Idle EXCEPT !.ofed = spec.ofed, !.sel = spec.sel,
                         !.live = IF spec.ofed THEN ofedNodePools(spec.sel) ELSE {}]
  /\ pc' = IF spec.ofed THEN "apply" ELSE "sweepShared"
  /\ UNCHANGED <<cluster, objects, phase, timer, faults, seen>>

\* A node list, overlap check or manifest that fails ends the reconcile
\* before it changes anything.
ReconcileFails ==
  /\ pc = "apply"
  /\ Abort
  /\ UNCHANGED <<cluster, objects, phase, queued, seen>>

\* createOrUpdateObjs for the DaemonSets D.  An object is rewritten, its
\* annotations included, only when the rendered revision differs.
Write(D) ==
  LET stale == {k \in D : k \notin ds \/ sel[k] # run.sel}
  IN  /\ ds' = ds \cup D
      /\ sel' = [k \in Key |-> IF k \in stale THEN run.sel ELSE sel[k]]
      /\ mark' = [k \in Key |-> IF k \in stale THEN Unmarked ELSE mark[k]]
      /\ seen' = [k \in Key |-> IF k \in stale THEN 0 ELSE seen[k]]

createOrUpdateObjs ==
  /\ pc = "apply"
  /\ Write(desiredDaemonSetKeys(run.live))
  /\ shared' = (shared \/ run.live # {})
  /\ rbac' = (rbac \/ run.live # {})
  /\ NotifyOwner
  /\ pc' = "plan"
  /\ UNCHANGED <<cluster, phase, timer, run, faults>>

\* An API error stops it part way: pools come in no particular order.  The
\* first one's roles precede its ConfigMap, and that every DaemonSet.
createOrUpdateFails ==
  /\ pc = "apply" /\ run.live # {}
  /\ \E D \in SUBSET desiredDaemonSetKeys(run.live) :
       /\ Write(D)
       /\ shared' \in {shared, TRUE} /\ rbac' \in {rbac, TRUE}
       /\ D # {} \/ shared' # shared => shared' /\ rbac'
  /\ NotifyOwner
  /\ Abort
  /\ UNCHANGED <<cluster, phase>>

\* The annotations after planStaleRetention has handled the DaemonSets D:
\* clearStaleSince on the desired ones, markStaleSince on the deferred ones.
MarksNeverCleared(D) ==
  [k \in Key |-> IF k \in D \ desiredDaemonSetKeys(run.live) /\ ~Unwanted(k, run.sel, run.live)
                THEN markStaleSince(k) ELSE mark[k]]

Marks(D) ==
  LET desired == desiredDaemonSetKeys(run.live)
  IN  [k \in Key |-> IF k \notin D THEN mark[k]
                     ELSE IF k \in desired THEN Unmarked
                     ELSE IF Unwanted(k, run.sel, run.live) THEN mark[k]
                     ELSE markStaleSince(k)]

Seen(D) ==
  [k \in Key |-> IF k \in D \cap desiredDaemonSetKeys(run.live) THEN 0 ELSE seen[k]]

planStaleRetention ==
  LET protected == {k \in ds \ desiredDaemonSetKeys(run.live) :
                      deferralRemaining(k, run.sel, run.live) > 0}
  IN  /\ pc = "plan"
      /\ mark' = Marks(ds)
      /\ seen' = Seen(ds)
      /\ UNCHANGED <<ds, sel, shared, rbac>>
      /\ NotifyOwner
      /\ \E d \in 0 .. Grace :
           /\ IsNextDeadline(d, protected, run.sel, run.live)
           /\ run' = [run EXCEPT !.protected = protected, !.next = d]
      /\ pc' = "sweepShared"
      /\ UNCHANGED <<cluster, phase, timer, faults>>

\* The list or one of the patches fails: nothing is deleted in this sync.
planFails ==
  /\ pc = "plan"
  /\ \E D \in SUBSET ds : mark' = Marks(D) /\ seen' = Seen(D)
  /\ UNCHANGED <<ds, sel, shared, rbac>>
  /\ NotifyOwner
  /\ Abort
  /\ UNCHANGED <<cluster, phase>>

\* The shared objects stay when this sync rendered them or retains a
\* DaemonSet that needs them.
KeepShared == run.live # {} \/ run.protected # {}

\* deleteStateRelatedObjects goes through the kinds in their order: first
\* ServiceAccount and ConfigMap, then DaemonSet, then the roles and bindings.
SweepSharedAlways ==
  /\ pc = "sweepShared"
  /\ shared' = (shared /\ run.live # {})
  /\ run' = [run EXCEPT !.found = shared /\ run.live = {}]
  /\ pc' = "sweepDS"
  /\ UNCHANGED <<cluster, ds, sel, mark, rbac, phase, queued, timer, faults, seen>>

sweepShared ==
  /\ pc = "sweepShared"
  /\ shared' = (shared /\ KeepShared)
  /\ run' = [run EXCEPT !.found = shared /\ ~KeepShared]
  /\ pc' = "sweepDS"
  /\ UNCHANGED <<cluster, ds, sel, mark, rbac, phase, queued, timer, faults, seen>>

\* The DaemonSets this sync neither rendered nor protects.
StaleKeys == (ds \ desiredDaemonSetKeys(run.live)) \ run.protected

Delete(D) ==
  /\ ds' = ds \ D
  /\ sel' = [k \in Key |-> IF k \in D THEN {} ELSE sel[k]]
  /\ mark' = [k \in Key |-> IF k \in D THEN Unmarked ELSE mark[k]]
  /\ UNCHANGED <<shared, rbac, seen>>

sweepDS ==
  /\ pc = "sweepDS"
  /\ Delete(StaleKeys)
  /\ NotifyOwner
  /\ run' = [run EXCEPT !.found = @ \/ StaleKeys # {}]
  /\ pc' = "sweepRbac"
  /\ UNCHANGED <<cluster, phase, timer, faults>>

sweepRbac ==
  /\ pc = "sweepRbac"
  /\ rbac' = (rbac /\ KeepShared)
  /\ run' = [run EXCEPT !.found = @ \/ (rbac /\ ~KeepShared)]
  /\ pc' = "finish"
  /\ UNCHANGED <<cluster, ds, sel, mark, shared, phase, queued, timer, faults, seen>>

sweepFails ==
  /\ pc \in {"sweepShared", "sweepDS", "sweepRbac"}
  /\ \E D \in SUBSET StaleKeys :
       /\ pc # "sweepDS" => D = {}
       /\ Delete(D)
  /\ NotifyOwner
  /\ Abort
  /\ UNCHANGED <<cluster, phase>>

\* The end of Sync, of SyncState and of Reconcile.  Objects being removed, or
\* no pool at all, are NotReady; otherwise the DaemonSets decide.
NotReady ==
  /\ pc = "finish"
  /\ ~run.ofed => run.found
  /\ AddAfter(Requeue)
  /\ pc' = "idle" /\ run' = Idle
  /\ UNCHANGED <<cluster, objects, phase, queued, faults, seen>>

Ready ==
  /\ pc = "finish" /\ ~run.found
  /\ run.ofed => run.live # {}
  /\ requeueForStates(run.next)
  /\ pc' = "idle" /\ run' = Idle
  /\ UNCHANGED <<cluster, objects, phase, queued, faults, seen>>

(***************************************************************************)
(* The environment.                                                         *)
(***************************************************************************)

\* How an age grows; nothing tells ages from Grace on apart.
Older(a) == IF a >= 0 /\ a < Grace THEN a + 1 ELSE a

Tick ==
  /\ phase' = (phase + 1) % Second
  /\ mark' = [k \in Key |-> Older(mark[k])]
  /\ seen' = [k \in Key |-> Older(seen[k])]
  /\ timer' = IF timer > 0 THEN timer - 1 ELSE timer
  /\ UNCHANGED <<cluster, ds, sel, shared, rbac, queued, pc, run, faults>>

TimerFires ==
  /\ timer = 0
  /\ timer' = NoTimer
  /\ queued' = TRUE
  /\ UNCHANGED <<cluster, objects, phase, pc, run, faults, seen>>

\* A node is relabelled, tainted, reboots, turns (not) Ready, joins or goes.
\* The node watch, or the status of the DaemonSets, enqueues the policy.
NodeChanges(n, p) ==
  /\ node[n] # p
  /\ node' = [node EXCEPT ![n] = p]
  /\ queued' = TRUE
  /\ UNCHANGED <<spec, objects, phase, timer, pc, run, faults, seen>>

PolicyChanges(ofed, s) ==
  /\ spec' = [ofed |-> ofed, sel |-> s]
  /\ spec' # spec
  /\ queued' = TRUE
  /\ UNCHANGED <<node, objects, phase, timer, pc, run, faults, seen>>

\* The operator crashes or loses its lease.  The next one lists every policy.
OperatorRestarts ==
  /\ faults < MaxFaults
  /\ faults' = faults + 1
  /\ pc' = "idle" /\ run' = Idle
  /\ queued' = TRUE
  /\ timer' = NoTimer
  /\ UNCHANGED <<cluster, objects, phase, seen>>

\* Somebody edits the annotation by hand.
AnnotationGarbled(k) ==
  /\ faults < MaxFaults
  /\ faults' = faults + 1
  /\ k \in ds /\ mark[k] >= 0
  /\ mark' = [mark EXCEPT ![k] = Garbled]
  /\ queued' = TRUE
  /\ UNCHANGED <<cluster, ds, sel, shared, rbac, phase, timer, pc, run, seen>>

\* An operator that starts finds at most DaemonSets of an older release,
\* under names it does not render itself.
Init ==
  /\ node \in [Node -> Pool \cup {NoPool}]
  /\ spec \in [ofed : BOOLEAN, sel : Selectors]
  /\ ds \in SUBSET (Key \ {RenderedKey[p] : p \in Pool})
  /\ shared = (ds # {}) /\ rbac = (ds # {})
  /\ sel = [k \in Key |-> {}]
  /\ mark = [k \in Key |-> Unmarked]
  /\ seen = [k \in Key |-> 0]
  /\ phase = 0
  /\ queued = TRUE /\ timer = NoTimer
  /\ pc = "idle" /\ run = Idle
  /\ faults = 0

Worker ==
  \/ Reconcile \/ createOrUpdateObjs \/ planStaleRetention
  \/ sweepShared \/ sweepDS \/ sweepRbac \/ NotReady \/ Ready

Fault ==
  \/ ReconcileFails \/ createOrUpdateFails \/ planFails \/ sweepFails
  \/ OperatorRestarts
  \/ \E k \in Key : AnnotationGarbled(k)

Cluster ==
  \/ \E n \in Node, p \in Pool \cup {NoPool} : NodeChanges(n, p)
  \/ \E ofed \in BOOLEAN, s \in Selectors : PolicyChanges(ofed, s)

Next == Worker \/ Fault \/ Cluster \/ TimerFires \/ Tick

Spec == Init /\ [][Next]_vars

\* The worker goes on with a request it has taken, a due timer fires and
\* the clock runs.  Nobody has to change a node, a policy, or to fail.
Fairness == WF_vars(Worker) /\ WF_vars(TimerFires) /\ WF_vars(Tick)

FairSpec == Spec /\ Fairness

-----------------------------------------------------------------------------
(***************************************************************************)
(* Properties.                                                              *)
(***************************************************************************)

Ages == 0 .. Grace

RunType ==
  [ofed : BOOLEAN, sel : SUBSET Entry, live : SUBSET Pool,
   protected : SUBSET Key, next : Nat, found : BOOLEAN]

\* A sync renders and plans only for a policy that has ofedDriver, so that it
\* defers the removal of a DaemonSet only for one, and then it has a deadline
\* to come back at that lies within the grace period.
RunOK ==
  /\ run \in RunType
  /\ pc \in {"apply", "plan"} => run.ofed
  /\ run.protected # {} => run.ofed /\ run.next \in 1 .. Grace

\* Type correctness, that of the scratch state of a sync included.
TypeOK ==
  /\ node \in [Node -> Pool \cup {NoPool}]
  /\ spec \in [ofed : BOOLEAN, sel : Selectors]
  /\ ds \in SUBSET Key
  /\ sel \in [Key -> SUBSET Entry]
  /\ mark \in [Key -> {Unmarked, Garbled} \cup Ages]
  /\ shared \in BOOLEAN /\ rbac \in BOOLEAN
  /\ phase \in 0 .. Second - 1
  /\ queued \in BOOLEAN
  /\ timer \in {NoTimer} \cup Nat
  /\ pc \in PC
  /\ RunOK
  /\ faults \in 0 .. MaxFaults
  /\ seen \in [Key -> Ages]

\* The policy, as the running sync read it, selects what k was rendered for.
Covered(k) == KeyPool[k] \in Pool /\ run.sel \subseteq sel[k] \cup PoolLabels[KeyPool[k]]

\* The reasons for which a running sync deletes a DaemonSet at once: the
\* policy dropped ofedDriver, was retargeted, or does not want it in a pool
\* that has nodes; or nothing pins the DaemonSet to a pool.
Intended(k) == ~run.ofed \/ ~Covered(k) \/ KeyPool[k] \in run.live

\* "Never deletes an OFED DaemonSet solely because its pool is empty": a
\* DaemonSet that disappears without such intent belongs to a pool that no
\* completed planning pass has seen with nodes for the grace period, less
\* the fraction of a second RFC3339 drops from the annotation.  This has to
\* survive restarts, failed syncs, a pool that flaps and a clock that moves
\* on between the plan and the deletion.
ReapedOnlyAfterGrace ==
  [][\A k \in ds \ ds' : Intended(k) \/ seen[k] >= Grace - (Second - 1)]_vars

\* A kept DaemonSet is never forgotten: whenever the worker is idle, the
\* policy has a request queued or a timer running as long as one of its
\* DaemonSets carries a stale-since annotation.  No cluster event comes when
\* a grace period ends, so this is what makes the deferral end.
DeferralHasWakeUp ==
  pc = "idle" /\ (\E k \in ds : mark[k] # Unmarked) => queued \/ timer # NoTimer

\* What a completed sync leaves behind, given what it saw: DaemonSets it
\* rendered, carrying the policy's nodeSelector and no stale marker, and
\* deferred ones, carrying a marker and a nodeSelector that still covers the
\* policy's.  Nothing else of the state survives.
SyncLeavesOnlyWanted ==
  pc = "finish" =>
    \A k \in ds :
      \/ k \in desiredDaemonSetKeys(run.live) /\ sel[k] = run.sel /\ mark[k] = Unmarked
      \/ k \in run.protected /\ mark[k] # Unmarked /\ ~Intended(k)

\* A DaemonSet that a sync keeps although it did not render it still has the
\* ServiceAccount, RBAC and ConfigMap its pod needs to restart.
RetainedCanRestart ==
  pc = "finish" /\ run.protected # {} => shared /\ rbac

\* Without faults, a DaemonSet that a sync keeps although it did not render
\* it still has the ServiceAccount, RBAC and ConfigMap that its pods need to
\* restart: sweepShared spares them (with a failed deletion it may not).
FaultFreeRetainedCanRestart == faults = 0 => RetainedCanRestart

\* A DaemonSet whose pool stays without eligible nodes goes in the end,
\* whatever restarts, errors and policy edits happen on the way.
RetiredPoolReaped ==
  \A k \in Key : <>[](KeyPool[k] \notin ofedNodePools(spec.sel)) => <>[](k \notin ds)

=============================================================================
