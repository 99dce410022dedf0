------------------------------- MODULE Upgrade -------------------------------
(***************************************************************************)
(* The upgrade controller (controllers/upgrade_controller.go): one worker   *)
(* drives the automatic driver upgrade of the NicClusterPolicy and of every *)
(* NicNodePolicy, and cleans up after the policies that no longer upgrade.  *)
(*                                                                          *)
(* The upgrade itself is done by a library, modelled from how the           *)
(* controller uses it: BuildState collects the driver pods of one owner,    *)
(* ApplyState moves each of their nodes one state on.  The state of a node  *)
(* is a label; in requestor mode a NodeMaintenance object asks the          *)
(* maintenance operator to drain the node.  Library and API server are      *)
(* live; the controller's own reads of policies, nodes and NodeMaintenances *)
(* come from caches, those of pods do not.                                  *)
(*                                                                          *)
(* Migration composes the controller with the start of the operator.        *)
(***************************************************************************)
EXTENDS Naturals, FiniteSets

CONSTANTS
  Node,
  Ncp,          \* the NicClusterPolicy
  NodePolicy,   \* names of NicNodePolicies
  Home,         \* the NicNodePolicy that selects a node, or Ncp
  None          \* no owner

Owner == NodePolicy \cup {Ncp}

ASSUME UpgradeAssumption ==
  /\ Ncp \notin NodePolicy /\ None \notin Owner
  /\ Home \in [Node -> Owner]

VARIABLES
  conf,      \* each policy: "absent", without driver ("none"), with a driver
             \* that is upgraded by hand ("manual") or automatically ("auto")
  cache,     \* the policies as the informers show them
  pod,       \* the driver pod that runs on each node
  requested, \* nodes with the upgrade-requested annotation
  label,     \* the upgrade state of each node
  nm,        \* NodeMaintenance objects: node and requestor
  drained,   \* those that the maintenance operator reports ready
  seen,      \* labels and NodeMaintenances as the informers show them
  requestor, \* the maintenance operator is used
  managers,  \* NicNodePolicies that have a state manager in memory
  lost,      \* history: those of whose upgrades it has forgotten something
  stranded,  \* history: NodeMaintenances whose node lost its upgrade state
  queue,     \* the one request is queued, or will be after a delay
  work       \* the pass under way

fleet == <<pod, requested>>

cluster == <<label, nm>>

memory == <<managers, lost>>

NoPod == [owner |-> None, ds |-> "none", labelled |-> FALSE, current |-> FALSE]

HasOfed(c) == c \in {"manual", "auto"}

Pods(o) == {n \in Node : pod[n].owner = o /\ pod[n].labelled}

(***************************************************************************)
(* The library.                                                             *)
(***************************************************************************)

\* Whose DaemonSet should run a driver pod on a node.
Wants(n) ==
  IF Home[n] # Ncp /\ HasOfed(conf[Home[n]]) THEN Home[n]
  ELSE IF HasOfed(conf[Ncp]) THEN Ncp ELSE None

\* BuildState fails unless every DaemonSet of the owner has as many pods with
\* the ds-owner label as it wants.  (Where the pod of another DaemonSet still
\* runs, the new pod exists and is pending.)
BuildState(o) ==
  \A n \in Node : Wants(n) = o =>
    pod[n] # NoPod /\ (pod[n].owner = o /\ pod[n].ds = "pool" => pod[n].labelled)

NeedsUpgrade(n) == IF pod[n].ds = "orphan" THEN n \in requested ELSE ~pod[n].current

\* ApplyState for one node.  How many nodes may be under way is not modelled:
\* a node that may not yet start is one that the library takes up later.
ApplyState(o, n) ==
  CASE label[n] \in {"", "done"} ->
         /\ label' = [label EXCEPT ![n] = IF NeedsUpgrade(n) THEN "required" ELSE "done"]
         /\ UNCHANGED <<pod, requested, nm>>
    [] label[n] = "required" ->
         /\ label' = [label EXCEPT ![n] = "maintenance"]
         /\ nm' = IF requestor THEN nm \cup {<<n, o>>} ELSE nm
         /\ requested' = requested \ {n}
         /\ UNCHANGED pod
    [] label[n] = "maintenance" ->
         /\ label' = [label EXCEPT ![n] = IF requestor /\ <<n, o>> \notin nm THEN "required"
                                          ELSE IF requestor /\ <<n, o>> \notin drained THEN @
                                          ELSE "restart"]
         /\ UNCHANGED <<pod, requested, nm>>
    [] label[n] = "restart" /\ (pod[n].ds = "orphan" \/ ~pod[n].current) ->
         /\ pod' = [pod EXCEPT ![n] = NoPod]
         /\ UNCHANGED <<label, requested, nm>>
    [] OTHER ->
         /\ label' = [label EXCEPT ![n] = "done"]
         /\ nm' = nm \ {<<n, o>>}
         /\ UNCHANGED <<pod, requested>>

(***************************************************************************)
(* One pass.                                                                *)
(***************************************************************************)

Idle == [pc |-> "idle", loop |-> "list", who |-> None, nodes |-> {}, view |-> [o \in Owner |-> "absent"],
         todo |-> {}, again |-> FALSE]

\* What a pass leaves alone; a deleted NodeMaintenance is no longer ready or
\* stranded.
Working ==
  /\ UNCHANGED <<conf, cache, requestor, seen>>
  /\ drained' = drained \cap nm'
  /\ stranded' = {x \in nm' : x \in stranded \/ (label[x[1]] # "" /\ label'[x[1]] = "")}

\* The pass ends with an error and is retried.
Fail == work' = Idle /\ queue' = TRUE

\* After a policy the pass goes on with the next one.
Onward == [work EXCEPT !.pc = work.loop, !.who = None, !.nodes = {}]

Reconcile ==
  /\ work.pc = "idle" /\ queue
  /\ queue' = FALSE
  /\ work' = [Idle EXCEPT !.pc = "cluster"]
  /\ UNCHANGED <<fleet, cluster, memory>> /\ Working

\* The nodes that cleanupUpgradeResources leaves alone.
getNodesManagedByNNPsWithOFED == {n \in Node : Home[n] # Ncp /\ HasOfed(cache[Home[n]])}

\* A node with an upgrade state that is left alone, and whose policy has no
\* manager to clean up after it, has its state from the cluster policy.
HandedOver == {Home[n] : n \in {m \in getNodesManagedByNNPsWithOFED : label[m] # "" /\ Home[m] \notin managers}}

reconcileClusterPolicyUpgrade ==
  /\ work.pc = "cluster"
  /\ IF cache[Ncp] # "auto"
     THEN /\ work' = [work EXCEPT !.pc = "unlabel", !.who = Ncp,
                                  !.nodes = Node \ getNodesManagedByNNPsWithOFED]
          /\ lost' = lost \cup HandedOver
          /\ UNCHANGED queue
     ELSE IF ~BuildState(Ncp) THEN Fail /\ UNCHANGED lost
     ELSE /\ work' = [work EXCEPT !.pc = "apply", !.who = Ncp, !.nodes = Pods(Ncp), !.again = TRUE]
          /\ UNCHANGED <<queue, lost>>
  /\ UNCHANGED <<fleet, cluster, managers>> /\ Working

apply(n) ==
  /\ work.pc = "apply" /\ n \in work.nodes
  /\ ApplyState(work.who, n)
  /\ work' = [work EXCEPT !.nodes = @ \ {n}]
  /\ UNCHANGED <<queue, memory>> /\ Working

applied ==
  /\ work.pc = "apply" /\ work.nodes = {}
  /\ work' = Onward
  /\ UNCHANGED <<fleet, cluster, memory, queue>> /\ Working

\* A cleanup that fails ends the pass for the cluster policy; for a node
\* policy the manager is kept and the pass goes on.
CleanupFailsUnnoticed ==
  IF work.who = Ncp THEN Fail
  ELSE work' = Onward /\ UNCHANGED queue

CleanupFails ==
  IF work.who = Ncp THEN Fail
  ELSE /\ work' = [Onward EXCEPT !.again = TRUE]
       /\ UNCHANGED queue

\* A label that the cached node does not show is not removed; the update of
\* a node that has changed since is refused.
removeUpgradeStateLabelFromNodes(n) ==
  /\ work.pc = "unlabel" /\ n \in work.nodes
  /\ IF seen.label[n] = "" \/ seen.label[n] = label[n]
     THEN /\ label' = [label EXCEPT ![n] = IF seen.label[n] = "" THEN @ ELSE ""]
          /\ work' = [work EXCEPT !.nodes = @ \ {n}]
          /\ UNCHANGED queue
     ELSE CleanupFails /\ UNCHANGED label
  /\ UNCHANGED <<fleet, nm, memory>> /\ Working

\* cleanupNodeMaintenanceObjects for the cluster policy, step 2 of
\* cleanupNodePolicyUpgradeResources for the others; these are then forgotten.
cleanupNodeMaintenanceObjects ==
  LET o == work.who
      left == {x \in nm : x[2] = o /\ x \notin seen.nm}
      marked == {n \in Node : Home[n] = o /\ label[n] # ""}
  IN  /\ work.pc = "unlabel" /\ work.nodes = {}
      /\ nm' = IF requestor THEN {x \in nm : x[2] # o \/ x \in left} ELSE nm
      /\ managers' = managers \ {o}
      /\ lost' = IF o # Ncp /\ (left # {} \/ marked # {}) THEN lost \cup {o} ELSE lost
      /\ work' = Onward
      /\ UNCHANGED <<fleet, label, queue>> /\ Working

reconcileNodePolicyUpgrades ==
  /\ work.pc = "list"
  /\ work' = [work EXCEPT !.pc = "next", !.loop = "next", !.view = cache,
                          !.todo = {p \in NodePolicy : cache[p] # "absent"}]
  /\ UNCHANGED <<fleet, cluster, memory, queue>> /\ Working

\* cleanupNodePolicyUpgradeResources: the nodes are those of the pods.
cleanupNodePolicyUpgradeResources(p) ==
  work' = [work EXCEPT !.pc = "unlabel", !.who = p, !.todo = @ \ {p}, !.nodes = Pods(p)]

nextPolicy(p) ==
  /\ work.pc = "next" /\ p \in work.todo
  /\ \/ /\ work.view[p] # "auto" /\ p \in managers
        /\ cleanupNodePolicyUpgradeResources(p)
        /\ UNCHANGED <<queue, memory>>
     \/ /\ work.view[p] # "auto" /\ p \notin managers
        /\ work' = [work EXCEPT !.todo = @ \ {p}]
        /\ UNCHANGED <<queue, memory>>
     \/ /\ work.view[p] = "auto"
        /\ managers' = managers \cup {p}
        /\ lost' = lost \ {p}
        /\ IF ~BuildState(p) THEN Fail
           ELSE /\ work' = [work EXCEPT !.pc = "apply", !.who = p, !.todo = @ \ {p},
                                        !.nodes = Pods(p), !.again = TRUE]
                /\ UNCHANGED queue
  /\ UNCHANGED <<fleet, cluster>> /\ Working

\* The managers of deleted policies, and of those whose cleanup has failed.
NoneStale == {}

Stale == {p \in managers : work.view[p] # "auto"}

policiesDone ==
  /\ work.pc = "next" /\ work.todo = {}
  /\ work' = [work EXCEPT !.pc = "stale", !.loop = "stale", !.todo = Stale]
  /\ UNCHANGED <<fleet, cluster, memory, queue>> /\ Working

staleManager(p) ==
  /\ work.pc = "stale" /\ p \in work.todo
  /\ cleanupNodePolicyUpgradeResources(p)
  /\ UNCHANGED <<fleet, cluster, memory, queue>> /\ Working

passEnds ==
  /\ work.pc = "stale" /\ work.todo = {}
  /\ work' = Idle
  /\ queue' = (queue \/ work.again)
  /\ UNCHANGED <<fleet, cluster, memory>> /\ Working

Step ==
  \/ reconcileClusterPolicyUpgrade \/ applied \/ cleanupNodeMaintenanceObjects
  \/ reconcileNodePolicyUpgrades \/ policiesDone \/ passEnds
  \/ \E n \in Node : apply(n) \/ removeUpgradeStateLabelFromNodes(n)
  \/ \E p \in NodePolicy : nextPolicy(p) \/ staleManager(p)
=============================================================================
