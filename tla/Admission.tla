------------------------------ MODULE Admission ------------------------------
(***************************************************************************)
(* Which policies may exist side by side, and what is deployed for them.    *)
(* The validating webhook (api/v1alpha1/validator/nicpolicy_webhook.go)     *)
(* refuses a policy that configures a section the other kind configures, or *)
(* NicNodePolicies that select the same node; the NicNodePolicy controller  *)
(* (controllers/nicnodepolicy_controller.go) checks the nodes again before  *)
(* every sync, since nodes may be relabelled (pkg/policyoverlap).           *)
(*                                                                          *)
(* A request is validated and stored in two steps, both webhook and         *)
(* controller read informer caches, and one worker reconciles all           *)
(* NicNodePolicies.  What a sync does to the objects of a policy is the     *)
(* subject of PolicySync; here all of them are one DaemonSet.               *)
(***************************************************************************)
EXTENDS Naturals, FiniteSets

CONSTANTS
  Node, Label, Section,
  Ofed,        \* the section for the driver
  Ncp,         \* the NicClusterPolicy
  NodePolicy,  \* names of NicNodePolicies
  None,        \* no object
  Setups       \* the labels of the nodes, the NicNodePolicies that are deployed
               \* to begin with (found), the specs that users submit for them
               \* (specs) and for the NicClusterPolicy (sections), an ignored
               \* NicClusterPolicy of another name or None (other), and how many
               \* requests, relabellings and faults happen

\* The policies found have been admitted and deployed: no node has two of them.
ASSUME AdmissionAssumption ==
  /\ IsFiniteSet(NodePolicy) /\ Ncp \notin NodePolicy
  /\ Node \cap (NodePolicy \cup {Ncp}) = {} /\ \A c \in SUBSET Section : c # None
  /\ \A s \in Setups :
       /\ s.labels \in [Node -> SUBSET Label]
       /\ s.specs \subseteq [sel : SUBSET Label, sections : SUBSET Section]
       /\ None \notin s.specs /\ \A p \in NodePolicy : s.found[p] \in s.specs \cup {None}
       /\ \A n \in Node : \A p, q \in NodePolicy :
            p # q /\ s.found[p] # None /\ s.found[q] # None =>
              ~(s.found[p].sel \subseteq s.labels[n] /\ s.found[q].sel \subseteq s.labels[n])
       /\ s.sections \subseteq SUBSET Section
       /\ s.other = None \/ s.other \subseteq Section
       /\ {s.edits, s.relabels, s.faults} \subseteq Nat

VARIABLES
  setup,
  ncp,       \* the sections of the NicClusterPolicy, or None
  nnp,       \* the NicNodePolicies: selector, sections, uid and status
  labels,    \* of the nodes
  cache,     \* the three as the informers show them
  news,      \* policies and nodes with events on their way to the informers
  pending,   \* requests that the webhook has admitted and that are not stored
  deployed,  \* the DaemonSet of each NicNodePolicy: selector and owner's uid
  served,    \* the nodes on which the DaemonSet controller runs its pods
  queue,     \* NicNodePolicies queued, or to be queued after a delay
  work,      \* the pass under way
  misled,    \* history: a request was stored that had been admitted without
             \* knowing all policies stored before it
  edits, relabels, faults

stored == <<ncp, nnp, labels>>

vars == <<setup, stored, cache, news, pending, deployed, served, queue, work, misled, edits, relabels, faults>>

users == <<setup, pending, misled, edits, relabels>>

pods == <<deployed, served>>

Live == [ncp |-> ncp, nnp |-> nnp, labels |-> labels]

(***************************************************************************)
(* Overlaps and conflicts.                                                  *)
(***************************************************************************)

\* An empty selector matches all nodes.
MatchesNodeSelector(ls, sel) == sel \subseteq ls

ResolveNodesByPolicy(ps, ls) ==
  [p \in {q \in NodePolicy : ps[q] # None} |-> {n \in Node : MatchesNodeSelector(ls[n], ps[p].sel)}]

\* The nodes that several policies select.
OverlapOfSelectors(ps, ls) ==
  {n \in Node : \E p, q \in NodePolicy :
     p # q /\ ps[p] # None /\ ps[q] # None /\ ps[p].sel = ps[q].sel /\ MatchesNodeSelector(ls[n], ps[p].sel)}

DetectNodeOverlap(ps, ls) ==
  LET nodes == ResolveNodesByPolicy(ps, ls)
  IN  {n \in Node : Cardinality({p \in DOMAIN nodes : n \in nodes[p]}) > 1}

\* The node policies with a section that the cluster policy defines too.
SameSections(c, ps) ==
  {p \in NodePolicy : c # None /\ ps[p] # None /\ c = ps[p].sections}

DetectSectionConflict(c, ps) ==
  {p \in NodePolicy : c # None /\ ps[p] # None /\ c \cap ps[p].sections # {}}

(***************************************************************************)
(* The webhook.  A refused request changes nothing.                         *)
(***************************************************************************)

validateNicClusterPolicyOverlap(c) == DetectSectionConflict(c, cache.nnp) = {}

\* The cluster policies in the list, of which the first one is used.
Listed == {c \in {cache.ncp, setup.other} : c # None}

validateNicNodePolicyOverlap(p, s, first) ==
  LET only == [q \in NodePolicy |-> IF q = p THEN s ELSE None]
  IN  /\ DetectSectionConflict(first, only) = {}
      /\ DetectNodeOverlap([cache.nnp EXCEPT ![p] = s], cache.labels) = {}

\* The webhook knows the policies that are stored.
Informed == news \cap (NodePolicy \cup {Ncp}) = {}

Stored(o) == IF o = Ncp THEN ncp ELSE nnp[o]

\* A request to create the policy, or to update the one there is.
Request(o, s, informed) ==
  /\ pending[o] = None /\ edits < setup.edits
  /\ edits' = edits + 1
  /\ pending' = [pending EXCEPT ![o] = [spec |-> s, create |-> Stored(o) = None, informed |-> informed]]
  /\ UNCHANGED <<setup, stored, cache, news, pods, queue, work, misled, relabels>>

ValidateNicClusterPolicy(c) ==
  /\ validateNicClusterPolicyOverlap(c)
  /\ Request(Ncp, c, Informed)
  /\ UNCHANGED faults

ValidateNicNodePolicy(p, s) ==
  /\ \E first \in IF Listed = {} THEN {None} ELSE Listed :
       /\ validateNicNodePolicyOverlap(p, s, first)
       /\ Request(p, s, Informed /\ first = ncp)
  /\ UNCHANGED faults

Fault == faults < setup.faults /\ faults' = faults + 1

\* A list fails: the request is admitted.
admittedUnseen(o, s) ==
  /\ Fault
  /\ Request(o, s, FALSE)

(***************************************************************************)
(* The API server, users, garbage collector and DaemonSet controller.       *)
(***************************************************************************)

\* A request to create what exists, or to update what does not, fails.
dropped(o) ==
  /\ pending[o] # None /\ pending[o].create # (Stored(o) = None)
  /\ pending' = [pending EXCEPT ![o] = None]
  /\ UNCHANGED <<setup, stored, cache, news, pods, queue, work, misled, edits, relabels, faults>>

\* What is stored, those still on their way were admitted without.
Uninformed(o) ==
  [q \in DOMAIN pending |-> IF q = o \/ pending[q] = None THEN None
                            ELSE [pending[q] EXCEPT !.informed = FALSE]]

store(o) ==
  LET r == pending[o]
  IN  /\ r # None /\ r.create = (Stored(o) = None)
      /\ IF o = Ncp THEN ncp' = r.spec /\ UNCHANGED nnp
         ELSE /\ nnp' = [nnp EXCEPT ![o] =
                   [sel |-> r.spec.sel, sections |-> r.spec.sections,
                    uid |-> IF r.create THEN edits + 1 ELSE @.uid,
                    status |-> IF r.create THEN "" ELSE @.status]]
              /\ UNCHANGED ncp
      /\ misled' = (misled \/ ~r.informed)
      /\ pending' = Uninformed(o)
      /\ news' = news \cup {o}
      /\ UNCHANGED <<setup, labels, cache, pods, queue, work, edits, relabels, faults>>

userDeletes(o) ==
  /\ Stored(o) # None /\ edits < setup.edits
  /\ edits' = edits + 1
  /\ IF o = Ncp THEN ncp' = None /\ UNCHANGED nnp
     ELSE nnp' = [nnp EXCEPT ![o] = None] /\ UNCHANGED ncp
  /\ news' = news \cup {o}
  /\ UNCHANGED <<setup, labels, cache, pending, pods, queue, work, misled, relabels, faults>>

relabel(n, ls) ==
  /\ relabels < setup.relabels /\ ls # labels[n]
  /\ relabels' = relabels + 1
  /\ labels' = [labels EXCEPT ![n] = ls]
  /\ news' = news \cup {n}
  /\ UNCHANGED <<setup, ncp, nnp, cache, pending, pods, queue, work, misled, edits, faults>>

Orphaned(p) == deployed[p] # None /\ deployed[p].uid # (IF nnp[p] = None THEN 0 ELSE nnp[p].uid)

\* The DaemonSet of a policy that is gone is collected.
garbageCollected(p) ==
  /\ Orphaned(p)
  /\ deployed' = [deployed EXCEPT ![p] = None]
  /\ queue' = queue \cup {p}
  /\ UNCHANGED <<users, stored, cache, news, served, work, faults>>

\* The DaemonSet that a policy asks for.
DaemonSet(s) == IF s = None \/ s.sections = {} THEN None ELSE [sel |-> s.sel, uid |-> s.uid]

Target(d) == IF d = None THEN {} ELSE {n \in Node : MatchesNodeSelector(labels[n], d.sel)}

\* Pods come and go with the labels of the nodes; the status of the DaemonSet
\* changes, which is an event for its owner.
daemonSetController(p) ==
  /\ served[p] # Target(deployed[p])
  /\ served' = [served EXCEPT ![p] = Target(deployed[p])]
  /\ queue' = queue \cup {p}
  /\ UNCHANGED <<users, stored, cache, news, deployed, work, faults>>

(***************************************************************************)
(* The NicNodePolicy controller.                                            *)
(***************************************************************************)

\* Events of a NicNodePolicy enqueue it, those of a node all of them.
observePolicy(o) ==
  /\ o \in news
  /\ news' = news \ {o}
  /\ cache' = IF o = Ncp THEN [cache EXCEPT !.ncp = ncp] ELSE [cache EXCEPT !.nnp[o] = nnp[o]]
  /\ queue' = IF o = Ncp THEN queue ELSE queue \cup {o}
  /\ UNCHANGED <<users, stored, pods, work, faults>>

NodeEventsOfNone == {}

NodeEvents == {p \in NodePolicy : cache.nnp[p] # None}

observeNode(n) ==
  /\ n \in news
  /\ news' = news \ {n}
  /\ cache' = [cache EXCEPT !.labels[n] = labels[n]]
  /\ queue' = queue \cup NodeEvents
  /\ UNCHANGED <<users, stored, pods, work, faults>>

Idle == [pc |-> "idle", key |-> None, inst |-> None]

ReconcileDeleted(p) ==
  /\ work.pc = "idle" /\ p \in queue
  /\ queue' = queue \ {p}
  /\ work' = [pc |-> "check", key |-> p, inst |-> cache.nnp[p]]
  /\ UNCHANGED <<users, stored, cache, news, pods, faults>>

\* The policy is read from the cache; if it is gone, nothing is synced.
Reconcile(p) ==
  /\ work.pc = "idle" /\ p \in queue
  /\ queue' = queue \ {p}
  /\ work' = IF cache.nnp[p] = None THEN Idle ELSE [pc |-> "check", key |-> p, inst |-> cache.nnp[p]]
  /\ UNCHANGED <<users, stored, cache, news, pods, faults>>

\* The status update is refused if the policy has changed since it was read
\* (equal contents stand for equal versions); that is only logged.
updatePolicyCRStatus(state) ==
  LET p == work.key
      accepted == nnp[p] = work.inst /\ nnp[p].status # state
  IN  /\ nnp' = IF accepted THEN [nnp EXCEPT ![p].status = state] ELSE nnp
      /\ news' = IF accepted THEN news \cup {p} ELSE news

\* The delayed retry.
NoRequeue(state) == {}

Requeue(state) == IF state = "ready" THEN {} ELSE {work.key}

PassEnds(state, events) ==
  /\ updatePolicyCRStatus(state)
  /\ queue' = queue \cup Requeue(state) \cup events
  /\ work' = Idle
  /\ UNCHANGED <<users, ncp, labels, cache, served>>

\* Any overlap, also one of other policies, keeps a policy from being synced.
checkNodeOverlap ==
  /\ work.pc = "check"
  /\ IF DetectNodeOverlap(cache.nnp, cache.labels) # {}
     THEN PassEnds("error", {})
     ELSE work' = [work EXCEPT !.pc = "sync"] /\ UNCHANGED <<users, stored, cache, news, served, queue>>
  /\ UNCHANGED <<deployed, faults>>

\* A list that fails counts as an overlap.
listFails ==
  /\ Fault
  /\ work.pc = "check"
  /\ PassEnds("error", {})
  /\ UNCHANGED deployed

\* The DaemonSet may still show the status of its former selector.
SyncState ==
  LET p == work.key
      d == DaemonSet(work.inst)
  IN  /\ work.pc = "sync"
      /\ deployed' = [deployed EXCEPT ![p] = d]
      /\ \E state \in IF d = deployed[p] /\ served[p] = Target(d) THEN {"ready"} ELSE {"ready", "notReady"} :
           PassEnds(state, IF d = deployed[p] THEN {} ELSE {p})
      /\ UNCHANGED faults

\* Without the pools of nodes and their images the pass ends before the sync,
\* and reports nothing.
setupOFEDCatalogFails ==
  /\ Fault
  /\ work.pc = "sync" /\ Ofed \in work.inst.sections
  /\ work' = Idle
  /\ queue' = queue \cup {work.key}
  /\ UNCHANGED <<users, stored, cache, news, pods>>

syncFails ==
  /\ Fault
  /\ work.pc = "sync"
  /\ PassEnds("notReady", {})
  /\ UNCHANGED deployed

operatorRestarts ==
  /\ Fault
  /\ work' = Idle
  /\ cache' = Live /\ news' = {}
  /\ queue' = {p \in NodePolicy : nnp[p] # None}
  /\ UNCHANGED <<users, stored, pods>>

Init ==
  /\ setup \in Setups
  /\ ncp = None /\ labels = setup.labels
  /\ nnp = [p \in NodePolicy |-> IF setup.found[p] = None THEN None
              ELSE [sel |-> setup.found[p].sel, sections |-> setup.found[p].sections, uid |-> 1, status |-> "ready"]]
  /\ cache = Live /\ news = {}
  /\ pending = [o \in NodePolicy \cup {Ncp} |-> None]
  /\ deployed = [p \in NodePolicy |-> DaemonSet(nnp[p])]
  /\ served = [p \in NodePolicy |-> Target(deployed[p])]
  /\ queue = {} /\ work = Idle
  /\ misled = FALSE /\ edits = 0 /\ relabels = 0 /\ faults = 0

Controller == checkNodeOverlap \/ SyncState \/ \E p \in NodePolicy : Reconcile(p)

Informers == (\E o \in NodePolicy \cup {Ncp} : observePolicy(o)) \/ \E n \in Node : observeNode(n)

Cluster == \E p \in NodePolicy : garbageCollected(p) \/ daemonSetController(p)

Users ==
  \/ \E c \in setup.sections : ValidateNicClusterPolicy(c) \/ admittedUnseen(Ncp, c)
  \/ \E p \in NodePolicy, s \in setup.specs : ValidateNicNodePolicy(p, s) \/ admittedUnseen(p, s)
  \/ \E o \in NodePolicy \cup {Ncp} : store(o) \/ dropped(o) \/ userDeletes(o)
  \/ \E n \in Node, ls \in SUBSET Label : relabel(n, ls)

Faults == listFails \/ setupOFEDCatalogFails \/ syncFails \/ operatorRestarts

Next == Users \/ Controller \/ Informers \/ Cluster \/ Faults

Spec == Init /\ [][Next]_vars

\* The queue and the watches are first in, first out: no policy waits for ever
\* for its turn or its events.
Fairness ==
  /\ WF_vars(checkNodeOverlap \/ SyncState)
  /\ \A p \in NodePolicy : SF_vars(Reconcile(p)) /\ WF_vars(observePolicy(p))
  /\ WF_vars(\E n \in Node : observeNode(n)) /\ WF_vars(Cluster)

FairSpec == Spec /\ Fairness

-----------------------------------------------------------------------------
(***************************************************************************)
(* Properties.                                                              *)
(***************************************************************************)

Uids == 1 .. setup.edits + 1

Sections == {None} \cup SUBSET Section

Policies ==
  {None} \cup [sel : SUBSET Label, sections : SUBSET Section, uid : Uids,
               status : {"", "error", "notReady", "ready"}]

Requests(specs) == {None} \cup [spec : specs, create : BOOLEAN, informed : BOOLEAN]

\* Type correctness; also, the informers are behind only where news is due, and
\* a pass has a policy to work on.
TypeOK ==
  /\ setup \in Setups /\ edits \in 0 .. setup.edits /\ relabels \in Nat
  /\ ncp \in Sections /\ nnp \in [NodePolicy -> Policies] /\ labels \in [Node -> SUBSET Label]
  /\ cache \in [ncp : Sections, nnp : [NodePolicy -> Policies], labels : [Node -> SUBSET Label]]
  /\ cache.ncp = ncp \/ Ncp \in news
  /\ \A p \in NodePolicy : cache.nnp[p] = nnp[p] \/ p \in news
  /\ \A n \in Node : cache.labels[n] = labels[n] \/ n \in news
  /\ news \subseteq Node \cup NodePolicy \cup {Ncp}
  /\ DOMAIN pending = NodePolicy \cup {Ncp} /\ pending[Ncp] \in Requests(SUBSET Section)
  /\ \A p \in NodePolicy : pending[p] \in Requests(setup.specs)
  /\ deployed \in [NodePolicy -> {None} \cup [sel : SUBSET Label, uid : Uids]]
  /\ served \in [NodePolicy -> SUBSET Node] /\ queue \subseteq NodePolicy
  /\ \/ work = Idle
     \/ work \in [pc : {"check", "sync"}, key : NodePolicy, inst : Policies \ {None}]
  /\ misled \in BOOLEAN

\* A section is configured in the cluster policy or in node policies, never in
\* both, as long as every request was admitted by a webhook that could list
\* the policies, used the cluster policy that counts, and knew all that were
\* stored before the request was.
SectionsExclusive ==
  misled \/ ncp = None \/ \A p \in NodePolicy : nnp[p] # None => nnp[p].sections \cap ncp = {}

Selecting(n) == {p \in NodePolicy : nnp[p] # None /\ n \in Target(nnp[p])}

Overlap == {n \in Node : \E p, q \in Selecting(n) : p # q}

\* Likewise no two node policies select the same node, as long as no node is
\* relabelled.
SelectorsDisjoint == misled \/ relabels > 0 \/ Overlap = {}

Quiet ==
  /\ queue = {} /\ work = Idle /\ news = {}
  /\ \A p \in NodePolicy : ~Orphaned(p) /\ served[p] = Target(deployed[p])

\* The controllers come to rest only when all is well, however requests raced
\* and whoever was relabelled: no two node policies select the same node, and
\* each is deployed as it is written and says that it is ready.  A policy that
\* finds an overlap is retried until it is resolved, and a status update is
\* refused only when another pass is due.
QuietPoliciesInForce ==
  Quiet => /\ Overlap = {}
           /\ \A p \in NodePolicy :
                deployed[p] = DaemonSet(nnp[p]) /\ (nnp[p] # None => nnp[p].status = "ready")

\* After the last change of users, every overlap that is left is reported by
\* one of the policies that select the node.
OverlapReported ==
  <>[](\A n \in Overlap : \E p \in Selecting(n) : nnp[p].status = "error")

\* After the last change of users, if there is no overlap, every policy is
\* deployed as it is written and reported ready, whatever was reported before.
OverlapResolves ==
  <>[](Overlap = {} =>
         \A p \in NodePolicy :
           deployed[p] = DaemonSet(nnp[p]) /\ (nnp[p] # None => nnp[p].status = "ready"))

=============================================================================
