--------------------------- MODULE AdmissionProofs ---------------------------
(***************************************************************************)
(* Admission for every finite set of policies, every set of nodes, labels   *)
(* and sections, and any number of requests, relabellings and faults.       *)
(***************************************************************************)
EXTENDS Admission, FiniteSetTheorems, TLAPS

\* Two policies of a list select a node in common.
Both(ps, ls, p, q) ==
  \E n \in Node : ps[p].sel \subseteq ls[n] /\ ps[q].sel \subseteq ls[n]

\* No two policies of a list do.
Apart(ps, ls) ==
  \A p, q \in NodePolicy : p # q /\ ps[p] # None /\ ps[q] # None => ~Both(ps, ls, p, q)

\* A request that was admitted by a webhook that knew all that is stored still
\* fits what is stored, whatever has been deleted since.
PendingInv ==
  /\ pending[Ncp] # None /\ pending[Ncp].informed =>
       \A p \in NodePolicy : nnp[p] # None => nnp[p].sections \cap pending[Ncp].spec = {}
  /\ \A p \in NodePolicy : pending[p] # None /\ pending[p].informed =>
       /\ ncp = None \/ pending[p].spec.sections \cap ncp = {}
       /\ relabels = 0 =>
            \A q \in NodePolicy : \A n \in Node :
              q # p /\ nnp[q] # None =>
                ~(pending[p].spec.sel \subseteq labels[n] /\ nnp[q].sel \subseteq labels[n])

\* Before the first relabelling the informers have the nodes right.
LabelsInv == relabels = 0 => cache.labels = labels

\* A policy whose last check has passed, and of which no event has come since.
Checked(p) == p \notin queue /\ ~(work.pc = "check" /\ work.key = p)

\* Checked policies select different nodes, as far as the informers know.
CheckedInv ==
  \A p, q \in NodePolicy :
    p # q /\ Checked(p) /\ Checked(q) /\ cache.nnp[p] # None /\ cache.nnp[q] # None =>
      ~Both(cache.nnp, cache.labels, p, q)

\* A pass works on the policy that the informer has, unless the policy is
\* queued again.
InstInv == work.pc # "idle" => work.inst = cache.nnp[work.key] \/ work.key \in queue

\* The policy is neither queued nor being reconciled.
Unworked(p) == p \notin queue /\ ~(work.pc # "idle" /\ work.key = p)

\* A policy without work has its DaemonSet as it asks for it.
DeployedInv ==
  \A p \in NodePolicy :
    Unworked(p) /\ cache.nnp[p] # None => deployed[p] = DaemonSet(cache.nnp[p])

\* A policy that nothing has happened to since its last pass says it is ready.
StatusInv ==
  \A p \in NodePolicy :
    Unworked(p) /\ p \notin news /\ nnp[p] # None => nnp[p].status = "ready"

-----------------------------------------------------------------------------
(***************************************************************************)
(* The operators of pkg/policyoverlap.                                      *)
(***************************************************************************)

\* DetectNodeOverlap finds every node that two policies select.
LEMMA NoOverlap ==
  ASSUME NEW ps, NEW ls, DetectNodeOverlap(ps, ls) = {}
  PROVE  Apart(ps, ls)
<1> SUFFICES ASSUME NEW p \in NodePolicy, NEW q \in NodePolicy, p # q, ps[p] # None, ps[q] # None,
                    NEW n \in Node, ps[p].sel \subseteq ls[n], ps[q].sel \subseteq ls[n]
             PROVE  FALSE
  BY Zenon DEF Apart, Both
<1> DEFINE nodes == ResolveNodesByPolicy(ps, ls)
           S == {r \in DOMAIN nodes : n \in nodes[r]}
<1>1. S \subseteq NodePolicy /\ p \in S /\ q \in S
  BY Zenon DEF ResolveNodesByPolicy, MatchesNodeSelector
<1>2. IsFiniteSet(S) /\ Cardinality(S) \in Nat
  BY <1>1, AdmissionAssumption, FS_Subset, FS_CardinalityType
<1>3. IsFiniteSet({p, q}) /\ Cardinality({p, q}) = 2
  <2>1. IsFiniteSet({q}) /\ Cardinality({q}) = 1
    BY FS_Singleton, Zenon
  <2>2. {p, q} = {q} \cup {p}
    BY Zenon
  <2>3. QED
    BY <2>1, <2>2, FS_AddElement
<1>4. Cardinality(S) >= 2
  <2>1. {p, q} \subseteq S
    BY <1>1, Zenon
  <2>2. Cardinality({p, q}) <= Cardinality(S)
    BY <1>2, <2>1, FS_Subset, Zenon
  <2>3. QED
    BY <1>2, <1>3, <2>2, Zenon
<1>5. n \in DetectNodeOverlap(ps, ls)
  BY <1>2, <1>4 DEF DetectNodeOverlap
<1>6. QED
  BY <1>5, Zenon


-----------------------------------------------------------------------------
(***************************************************************************)
(* Type correctness.                                                        *)
(***************************************************************************)

LEMMA SetupType ==
  ASSUME setup \in Setups
  PROVE  /\ setup.labels \in [Node -> SUBSET Label]
         /\ setup.specs \subseteq [sel : SUBSET Label, sections : SUBSET Section]
         /\ setup.sections \subseteq SUBSET Section
         /\ setup.edits \in Nat /\ setup.relabels \in Nat /\ setup.faults \in Nat
  BY AdmissionAssumption, Zenon

LEMMA DaemonSetType ==
  ASSUME NEW s \in Policies
  PROVE  DaemonSet(s) \in {None} \cup [sel : SUBSET Label, uid : Uids]
  BY Zenon DEF DaemonSet, Policies

LEMMA InitType == Init => TypeOK
<1> SUFFICES ASSUME Init PROVE TypeOK
  BY Zenon
<1>1. setup \in Setups /\ edits = 0 /\ relabels = 0
  BY Zenon DEF Init
<1>2. \A p \in NodePolicy : setup.found[p] \in setup.specs \cup {None}
  BY <1>1, AdmissionAssumption, Zenon
<1>3. nnp \in [NodePolicy -> Policies]
  BY <1>1, <1>2, SetupType DEF Init, Policies, Uids
<1>4. labels \in [Node -> SUBSET Label] /\ ncp \in Sections
  BY <1>1, SetupType, Zenon DEF Init, Sections
<1>5. deployed \in [NodePolicy -> {None} \cup [sel : SUBSET Label, uid : Uids]]
  BY <1>3, DaemonSetType, Zenon DEF Init
<1>6. served \in [NodePolicy -> SUBSET Node]
  BY Zenon DEF Init, Target
<1>7. cache = [ncp |-> ncp, nnp |-> nnp, labels |-> labels] /\ news = {}
  BY Zenon DEF Init, Live
<1>8. /\ DOMAIN pending = NodePolicy \cup {Ncp} /\ pending[Ncp] \in Requests(SUBSET Section)
      /\ \A p \in NodePolicy : pending[p] \in Requests(setup.specs)
  BY Zenon DEF Init, Requests
<1>9. queue = {} /\ work = Idle /\ misled \in BOOLEAN
  BY Zenon DEF Init
<1>10. edits \in 0 .. setup.edits /\ relabels \in Nat
  BY <1>1, SetupType
<1>11. QED
  BY <1>1, <1>3, <1>4, <1>5, <1>6, <1>7, <1>8, <1>9, <1>10, Zenon DEF TypeOK

LEMMA RequestType ==
  ASSUME TypeOK, NEW o \in NodePolicy \cup {Ncp}, NEW s, NEW i \in BOOLEAN, Request(o, s, i),
         o = Ncp => s \subseteq Section, o \in NodePolicy => s \in setup.specs
  PROVE  TypeOK'
<1>1. edits' \in 0 .. setup'.edits
  BY SetupType DEF TypeOK, Request
<1>2. /\ DOMAIN pending' = NodePolicy \cup {Ncp} /\ pending'[Ncp] \in Requests(SUBSET Section)
      /\ \A p \in NodePolicy : pending'[p] \in Requests(setup'.specs)
  BY AdmissionAssumption DEF TypeOK, Request, Requests
<1>3. QED
  BY <1>1, <1>2, Zenon DEF TypeOK, Request, stored, pods, Sections, Policies, Uids

LEMMA PassEndsType ==
  ASSUME TypeOK, work.pc # "idle", NEW state \in {"error", "notReady", "ready"},
         NEW events \in SUBSET NodePolicy, PassEnds(state, events),
         deployed' \in [NodePolicy -> {None} \cup [sel : SUBSET Label, uid : Uids]]
  PROVE  TypeOK'
<1>1. work.key \in NodePolicy /\ work.inst \in Policies \ {None}
  BY DEF TypeOK, Idle
<1>2. UNCHANGED <<setup, pending, misled, edits, relabels, ncp, labels, cache, served>> /\ work' = Idle
  BY Zenon DEF PassEnds, users
<1>3. nnp' \in [NodePolicy -> Policies]
  <2>1. nnp \in [NodePolicy -> Policies]
    BY Zenon DEF TypeOK
  <2>2. CASE nnp[work.key] = work.inst
    <3>1. [nnp[work.key] EXCEPT !.status = state] \in Policies
      BY <1>1, <2>2, Zenon DEF Policies
    <3>2. QED
      BY <1>1, <2>1, <3>1, Zenon DEF PassEnds, updatePolicyCRStatus
  <2>3. CASE nnp[work.key] # work.inst
    BY <2>1, <2>3, Zenon DEF PassEnds, updatePolicyCRStatus
  <2>4. QED
    BY <2>2, <2>3, Zenon
<1>4. news' \subseteq Node \cup NodePolicy \cup {Ncp} /\ news \subseteq news'
  BY <1>1, Zenon DEF TypeOK, PassEnds, updatePolicyCRStatus
<1>5. \A p \in NodePolicy : cache.nnp[p] = nnp'[p] \/ p \in news'
  BY <1>1, Zenon DEF TypeOK, PassEnds, updatePolicyCRStatus
<1>6. queue' \subseteq NodePolicy
  BY <1>1, Zenon DEF TypeOK, PassEnds, Requeue
<1>7. QED
  BY <1>2, <1>3, <1>4, <1>5, <1>6, Zenon DEF TypeOK, Sections, Policies, Uids, Idle

LEMMA TypesKept ==
  ASSUME setup' = setup
  PROVE  Uids' = Uids /\ Policies' = Policies
  BY Zenon DEF Uids, Policies

LEMMA NextType == TypeOK /\ [Next]_vars => TypeOK'
<1> SUFFICES ASSUME TypeOK, [Next]_vars PROVE TypeOK'
  BY Zenon
<1> USE TypesKept DEF Sections, users, stored, pods, Fault
<1>1. CASE UNCHANGED vars
  BY <1>1, Zenon DEF TypeOK, vars
<1>2. ASSUME NEW c \in setup.sections, ValidateNicClusterPolicy(c) \/ admittedUnseen(Ncp, c)
      PROVE  TypeOK'
  <2>1. c \subseteq Section
    BY SetupType, Zenon DEF TypeOK
  <2>2. PICK i \in BOOLEAN : Request(Ncp, c, i)
    BY <1>2, Zenon DEF ValidateNicClusterPolicy, admittedUnseen, Informed
  <2>3. QED
    BY <2>1, <2>2, RequestType, AdmissionAssumption
<1>3. ASSUME NEW p \in NodePolicy, NEW s \in setup.specs,
             ValidateNicNodePolicy(p, s) \/ admittedUnseen(p, s)
      PROVE  TypeOK'
  <2>1. PICK i \in BOOLEAN : Request(p, s, i)
    BY <1>3, Zenon DEF ValidateNicNodePolicy, admittedUnseen, Informed
  <2>2. QED
    BY <2>1, RequestType, AdmissionAssumption
<1>4. ASSUME NEW o \in NodePolicy \cup {Ncp}, store(o) PROVE TypeOK'
  <2> DEFINE r == pending[o]
  <2>1. /\ r # None /\ news' = news \cup {o} /\ misled' \in BOOLEAN
        /\ UNCHANGED <<setup, labels, cache, deployed, served, queue, work, edits, relabels>>
    BY <1>4, Zenon DEF store, TypeOK, Requests
  <2>2. /\ DOMAIN pending' = NodePolicy \cup {Ncp} /\ pending'[Ncp] \in Requests(SUBSET Section)
        /\ \A p \in NodePolicy : pending'[p] \in Requests(setup.specs)
    <3>1. DOMAIN pending = NodePolicy \cup {Ncp} /\ pending' = Uninformed(o)
      BY <1>4, Zenon DEF store, TypeOK
    <3>2. ASSUME NEW S, NEW q \in NodePolicy \cup {Ncp}, pending[q] \in Requests(S)
          PROVE  pending'[q] \in Requests(S)
      BY <3>1, <3>2, Zenon DEF Uninformed, Requests
    <3>3. QED
      BY <3>1, <3>2, Zenon DEF TypeOK, Uninformed
  <2>3. CASE o = Ncp
    <3>1. ncp' \in Sections /\ nnp' = nnp
      BY <1>4, <2>3, Zenon DEF store, TypeOK, Requests
    <3>2. QED
      BY <2>1, <2>2, <2>3, <3>1, Zenon DEF TypeOK
  <2>4. CASE o \in NodePolicy
    <3>1. ncp' = ncp /\ r.spec.sel \subseteq Label /\ r.spec.sections \subseteq Section
      <4>1. ncp' = ncp
        BY <1>4, <2>4, AdmissionAssumption, Zenon DEF store
      <4>2. r.spec \in setup.specs
        BY <2>1, <2>4, Zenon DEF TypeOK, Requests
      <4>3. QED
        BY <4>1, <4>2, SetupType, Zenon DEF TypeOK
    <3>2. nnp' \in [NodePolicy -> Policies] /\ \A p \in NodePolicy \ {o} : nnp'[p] = nnp[p]
      <4>1. edits + 1 \in Uids
        BY SetupType DEF TypeOK, Uids
      <4>2. o # Ncp /\ nnp \in [NodePolicy -> Policies] /\ r.create = (nnp[o] = None)
        BY <1>4, <2>4, AdmissionAssumption, Zenon DEF store, Stored, TypeOK
      <4> DEFINE u == IF r.create THEN edits + 1 ELSE nnp[o].uid
                 t == IF r.create THEN "" ELSE nnp[o].status
      <4>3. u \in Uids /\ t \in {"", "error", "notReady", "ready"}
        BY <2>4, <4>1, <4>2, Zenon DEF Policies
      <4>4. nnp' = [nnp EXCEPT ![o] = [sel |-> r.spec.sel, sections |-> r.spec.sections, uid |-> u, status |-> t]]
        BY <1>4, <4>2, Zenon DEF store
      <4> HIDE DEF u, t, r
      <4>5. QED
        BY <2>4, <3>1, <4>2, <4>3, <4>4, Zenon DEF Policies
    <3>3. QED
      BY <2>1, <2>2, <2>4, <3>1, <3>2, AdmissionAssumption DEF TypeOK
  <2>5. QED
    BY <2>3, <2>4, Zenon
<1>5. ASSUME NEW o \in NodePolicy \cup {Ncp}, dropped(o) PROVE TypeOK'
  BY <1>5, Zenon DEF dropped, TypeOK, Requests
<1>6. ASSUME NEW o \in NodePolicy \cup {Ncp}, userDeletes(o) PROVE TypeOK'
  <2>1. None \in Policies /\ edits' \in 0 .. setup'.edits
    <3>1. None \in Policies
      BY Zenon DEF Policies
    <3>2. edits' \in 0 .. setup'.edits
      BY <1>6, SetupType DEF userDeletes, TypeOK
    <3>3. QED
      BY <3>1, <3>2, Zenon
  <2>2. CASE o = Ncp
    BY <1>6, <2>1, <2>2, Zenon DEF userDeletes, TypeOK
  <2>3. CASE o # Ncp
    <3>1. nnp' \in [NodePolicy -> Policies] /\ \A p \in NodePolicy \ {o} : nnp'[p] = nnp[p]
      BY <1>6, <2>1, <2>3 DEF userDeletes, TypeOK
    <3>2. QED
      BY <1>6, <2>1, <2>3, <3>1, Zenon DEF userDeletes, TypeOK
  <2>4. QED
    BY <2>2, <2>3, Zenon
<1>7. ASSUME NEW n \in Node, NEW ls \in SUBSET Label, relabel(n, ls) PROVE TypeOK'
  <2>1. labels' \in [Node -> SUBSET Label] /\ \A m \in Node \ {n} : labels'[m] = labels[m]
    BY <1>7, Zenon DEF relabel, TypeOK
  <2>2. QED
    BY <1>7, <2>1 DEF relabel, TypeOK
<1>8. CASE checkNodeOverlap
  <2>1. CASE PassEnds("error", {})
    BY <1>8, <2>1, PassEndsType, Zenon DEF checkNodeOverlap, TypeOK
  <2>2. CASE work' = [work EXCEPT !.pc = "sync"] /\ UNCHANGED <<users, stored, cache, news, served, queue>>
    <3>1. work' \in [pc : {"check", "sync"}, key : NodePolicy, inst : Policies \ {None}]
      BY <1>8, <2>2 DEF checkNodeOverlap, TypeOK, Idle
    <3>2. QED
      BY <1>8, <2>2, <3>1, Zenon DEF checkNodeOverlap, TypeOK
  <2>3. QED
    BY <1>8, <2>1, <2>2, Zenon DEF checkNodeOverlap
<1>9. CASE SyncState
  <2>1. work.key \in NodePolicy /\ work.inst \in Policies /\ work.pc # "idle"
    <3>1. work.pc = "sync"
      BY <1>9, Zenon DEF SyncState
    <3>2. QED
      BY <3>1 DEF TypeOK, Idle
  <2>2. deployed' \in [NodePolicy -> {None} \cup [sel : SUBSET Label, uid : Uids]]
    BY <1>9, <2>1, DaemonSetType, Zenon DEF SyncState, TypeOK
  <2>3. PICK state \in {"ready", "notReady"}, events \in SUBSET {work.key} : PassEnds(state, events)
    BY <1>9, Zenon DEF SyncState
  <2>4. events \in SUBSET NodePolicy
    BY <2>1, Zenon
  <2>5. QED
    BY <2>1, <2>2, <2>3, <2>4, PassEndsType, Zenon
<1>10. ASSUME NEW p \in NodePolicy, Reconcile(p) PROVE TypeOK'
  BY <1>10, Zenon DEF Reconcile, TypeOK, Idle
<1>11. ASSUME NEW o \in NodePolicy \cup {Ncp}, observePolicy(o) PROVE TypeOK'
  <2>1. cache' \in [ncp : Sections, nnp : [NodePolicy -> Policies], labels : [Node -> SUBSET Label]]
    BY <1>11, Zenon DEF observePolicy, TypeOK
  <2>2. /\ cache'.labels = cache.labels
        /\ \A p \in NodePolicy : cache'.nnp[p] = IF p = o THEN nnp[p] ELSE cache.nnp[p]
        /\ cache'.ncp = IF o = Ncp THEN ncp ELSE cache.ncp
    BY <1>11, AdmissionAssumption DEF observePolicy, TypeOK
  <2>3. \A n \in Node : n # o
    BY AdmissionAssumption
  <2>4. QED
    BY <1>11, <2>1, <2>2, <2>3, Zenon DEF observePolicy, TypeOK
<1>12. ASSUME NEW n \in Node, observeNode(n) PROVE TypeOK'
  <2>1. cache' \in [ncp : Sections, nnp : [NodePolicy -> Policies], labels : [Node -> SUBSET Label]]
    BY <1>12, Zenon DEF observeNode, TypeOK
  <2>2. /\ cache'.nnp = cache.nnp /\ cache'.ncp = cache.ncp
        /\ \A m \in Node : cache'.labels[m] = IF m = n THEN labels[m] ELSE cache.labels[m]
    BY <1>12, Zenon DEF observeNode, TypeOK
  <2>3. \A o \in NodePolicy \cup {Ncp} : n # o
    BY AdmissionAssumption, Zenon
  <2>4. QED
    BY <1>12, <2>1, <2>2, <2>3, Zenon DEF observeNode, NodeEvents, TypeOK
<1>13. ASSUME NEW p \in NodePolicy, garbageCollected(p) PROVE TypeOK'
  BY <1>13, Zenon DEF garbageCollected, TypeOK
<1>14. ASSUME NEW p \in NodePolicy, daemonSetController(p) PROVE TypeOK'
  BY <1>14, Zenon DEF daemonSetController, Target, TypeOK
<1>15. CASE listFails
  BY <1>15, PassEndsType, Zenon DEF listFails, TypeOK
<1>16. CASE syncFails
  BY <1>16, PassEndsType, Zenon DEF syncFails, TypeOK
<1>17. CASE setupOFEDCatalogFails
  <2>1. work.key \in NodePolicy
    BY <1>17 DEF setupOFEDCatalogFails, TypeOK, Idle
  <2>2. QED
    BY <1>17, <2>1, Zenon DEF setupOFEDCatalogFails, TypeOK
<1>18. CASE operatorRestarts
  BY <1>18, Zenon DEF operatorRestarts, Live, TypeOK
<1>19. QED
  BY <1>1, <1>2, <1>3, <1>4, <1>5, <1>6, <1>7, <1>8, <1>9, <1>10, <1>11, <1>12, <1>13, <1>14, <1>15,
     <1>16, <1>17, <1>18, Zenon DEF Next, Users, Controller, Informers, Cluster, Faults

\* Every state is well typed, an informer is behind only where an event is on
\* its way to it, and a pass has a policy to work on.
THEOREM TypeCorrect == Spec => []TypeOK
  BY InitType, NextType, PTL DEF Spec


-----------------------------------------------------------------------------
(***************************************************************************)
(* What the webhook keeps: the stored policies do not conflict.             *)
(***************************************************************************)

AdmittedInv == PendingInv /\ SectionsExclusive /\ SelectorsDisjoint

\* A step that stores and admits nothing: it may delete policies and requests
\* and change the status of policies.
Fewer ==
  /\ UNCHANGED <<labels, misled, relabels>>
  /\ ncp' \in {ncp, None}
  /\ \A p \in NodePolicy :
       nnp'[p] # None => nnp[p] # None /\ nnp'[p].sel = nnp[p].sel /\ nnp'[p].sections = nnp[p].sections
  /\ \A o \in NodePolicy \cup {Ncp} : pending'[o] \in {pending[o], None}

LEMMA OverlapMeaning == Overlap = {} <=> Apart(nnp, labels)
  BY Zenon DEF Overlap, Selecting, Target, MatchesNodeSelector, Apart, Both

LEMMA FewerKeeps ==
  ASSUME AdmittedInv, Fewer
  PROVE  AdmittedInv'
<1> USE DEF AdmittedInv, Fewer
<1>1. PendingInv'
  BY Zenon DEF PendingInv
<1>2. SectionsExclusive'
  BY Zenon DEF SectionsExclusive
<1>3. SelectorsDisjoint'
  <2>1. Overlap = {} => Overlap' = {}
    BY DEF Overlap, Selecting, Target, MatchesNodeSelector
  <2>2. QED
    BY <2>1, Zenon DEF SelectorsDisjoint
<1>4. QED
  BY <1>1, <1>2, <1>3, Zenon

LEMMA PassEndsFewer ==
  ASSUME TypeOK, work.pc # "idle", NEW state, NEW events, PassEnds(state, events)
  PROVE  Fewer
<1>1. work.key \in NodePolicy /\ work.inst # None
  BY DEF TypeOK, Idle
<1>2. UNCHANGED <<pending, misled, relabels, ncp, labels>>
  BY Zenon DEF PassEnds, users
<1>3. ASSUME NEW p \in NodePolicy, nnp'[p] # None
      PROVE  nnp[p] # None /\ nnp'[p].sel = nnp[p].sel /\ nnp'[p].sections = nnp[p].sections
  <2>1. nnp'[p] = nnp[p] \/ (nnp[p] \in Policies \ {None} /\ nnp'[p] = [nnp[p] EXCEPT !.status = state])
    BY <1>1, Zenon DEF PassEnds, updatePolicyCRStatus, TypeOK
  <2>2. QED
    BY <1>3, <2>1, Zenon DEF Policies
<1>4. QED
  BY <1>2, <1>3, Zenon DEF Fewer

\* A request was checked against all that is stored, if the webhook knew it.
LEMMA InformedRequestFits ==
  ASSUME TypeOK, AdmittedInv,
         NEW o \in NodePolicy \cup {Ncp}, NEW s, NEW i \in BOOLEAN, Request(o, s, i),
         i /\ o = Ncp => \A p \in NodePolicy : nnp[p] # None => nnp[p].sections \cap s = {},
         i /\ o # Ncp =>
           /\ ncp = None \/ s.sections \cap ncp = {}
           /\ relabels = 0 =>
                \A q \in NodePolicy : \A n \in Node :
                  q # o /\ nnp[q] # None => ~(s.sel \subseteq labels[n] /\ nnp[q].sel \subseteq labels[n])
  PROVE  AdmittedInv'
<1> USE DEF AdmittedInv
<1>1. UNCHANGED <<ncp, nnp, labels, misled, relabels>> /\ \A q \in NodePolicy \cup {Ncp} : q # o => pending'[q] = pending[q]
  BY Zenon DEF Request, stored, TypeOK
<1>2. pending'[o].spec = s /\ pending'[o].informed = i
  BY Zenon DEF Request, TypeOK
<1>3. PendingInv'
  <2>1. CASE o = Ncp
    <3>1. \A p \in NodePolicy : pending'[p] = pending[p]
      BY <1>1, <2>1, AdmissionAssumption, Zenon
    <3>2. QED
      BY <1>1, <1>2, <2>1, <3>1, Zenon DEF PendingInv
  <2>2. CASE o # Ncp
    <3>1. pending'[Ncp] = pending[Ncp]
      BY <1>1, <2>2, Zenon
    <3>2. ASSUME NEW p \in NodePolicy, pending'[p] # None, pending'[p].informed
          PROVE  /\ ncp = None \/ pending'[p].spec.sections \cap ncp = {}
                 /\ relabels = 0 =>
                      \A q \in NodePolicy : \A n \in Node :
                        q # p /\ nnp[q] # None =>
                          ~(pending'[p].spec.sel \subseteq labels[n] /\ nnp[q].sel \subseteq labels[n])
      <4>1. CASE p = o
        <5>1. i /\ pending'[p].spec = s
          BY <1>2, <3>2, <4>1, Zenon
        <5>2. ncp = None \/ s.sections \cap ncp = {}
          BY <2>2, <5>1, Zenon
        <5>3. relabels = 0 =>
                \A q \in NodePolicy : \A n \in Node :
                  q # o /\ nnp[q] # None => ~(s.sel \subseteq labels[n] /\ nnp[q].sel \subseteq labels[n])
          BY <2>2, <5>1, Zenon
        <5>4. QED
          BY <4>1, <5>1, <5>2, <5>3, Zenon
      <4>2. CASE p # o
        BY <1>1, <3>2, <4>2, Zenon DEF PendingInv
      <4>3. QED
        BY <4>1, <4>2, Zenon
    <3>3. QED
      BY <1>1, <3>1, <3>2, Zenon DEF PendingInv
  <2>3. QED
    BY <2>1, <2>2, Zenon
<1>4. SectionsExclusive' /\ SelectorsDisjoint'
  BY <1>1 DEF SectionsExclusive, SelectorsDisjoint, Overlap, Selecting, Target
<1>5. QED
  BY <1>3, <1>4, Zenon

LEMMA ClusterPolicyAdmitted ==
  ASSUME TypeOK, AdmittedInv, NEW c \in setup.sections, ValidateNicClusterPolicy(c)
  PROVE  AdmittedInv'
<1>1. c # None
  BY SetupType, AdmissionAssumption, Zenon DEF TypeOK
<1>2. ASSUME Informed, NEW p \in NodePolicy, nnp[p] # None PROVE nnp[p].sections \cap c = {}
  <2>1. cache.nnp[p] = nnp[p]
    BY <1>2, Zenon DEF Informed, TypeOK
  <2>2. c = None \/ c \cap nnp[p].sections = {}
    BY <1>2, <2>1, Zenon DEF ValidateNicClusterPolicy, validateNicClusterPolicyOverlap, DetectSectionConflict
  <2>3. QED
    BY <1>1, <2>2, Zenon
<1>3. Request(Ncp, c, Informed) /\ Informed \in BOOLEAN
  BY Zenon DEF ValidateNicClusterPolicy, Informed
<1>4. QED
  BY <1>2, <1>3, InformedRequestFits, Zenon

LEMMA SpecNotNone ==
  ASSUME setup \in Setups, NEW s \in setup.specs
  PROVE  s # None
  BY AdmissionAssumption

LEMMA NodePolicyAdmitted ==
  ASSUME TypeOK, LabelsInv, AdmittedInv, NEW p \in NodePolicy, NEW s \in setup.specs, ValidateNicNodePolicy(p, s)
  PROVE  AdmittedInv'
<1>1. PICK first : validateNicNodePolicyOverlap(p, s, first) /\ Request(p, s, Informed /\ first = ncp)
  BY Zenon DEF ValidateNicNodePolicy
<1> DEFINE i == Informed /\ first = ncp
           all == [cache.nnp EXCEPT ![p] = s]
<1>2. ASSUME i PROVE ncp = None \/ s.sections \cap ncp = {}
  BY <1>1, <1>2, SpecNotNone, Zenon DEF validateNicNodePolicyOverlap, DetectSectionConflict, TypeOK
<1>3. ASSUME i, relabels = 0, NEW q \in NodePolicy, NEW n \in Node, q # p, nnp[q] # None
      PROVE  ~(s.sel \subseteq labels[n] /\ nnp[q].sel \subseteq labels[n])
  <2>1. Apart(all, cache.labels)
    BY <1>1, NoOverlap, Zenon DEF validateNicNodePolicyOverlap
  <2>2. cache.labels = labels /\ all[p] = s /\ all[q] = nnp[q]
    BY <1>3, Zenon DEF LabelsInv, Informed, TypeOK
  <2>3. QED
    BY <1>3, <2>1, <2>2, SpecNotNone, Zenon DEF Apart, Both, TypeOK
<1>4. i \in BOOLEAN /\ p # Ncp /\ Request(p, s, i)
  BY <1>1, AdmissionAssumption, Zenon DEF Informed
<1> HIDE DEF i
<1>5. QED
  BY <1>2, <1>3, <1>4, InformedRequestFits, Zenon

LEMMA StoreKeeps ==
  ASSUME TypeOK, AdmittedInv, NEW o \in NodePolicy \cup {Ncp}, store(o)
  PROVE  AdmittedInv'
<1> DEFINE r == pending[o]
<1>1. r # None /\ UNCHANGED <<labels, relabels>> /\ pending' = Uninformed(o) /\ misled' = (misled \/ ~r.informed)
  BY Zenon DEF store
<1>2. PendingInv'
  <2>1. \A q \in NodePolicy \cup {Ncp} : pending'[q] = None \/ ~pending'[q].informed
    BY <1>1, Zenon DEF Uninformed, TypeOK, Requests
  <2>2. QED
    BY <2>1, Zenon DEF PendingInv
<1>3. CASE misled'
  BY <1>2, <1>3, Zenon DEF AdmittedInv, SectionsExclusive, SelectorsDisjoint
<1>4. CASE ~misled' /\ o = Ncp
  <2>1. ncp' = r.spec /\ nnp' = nnp /\ r.informed /\ ~misled
    BY <1>1, <1>4, Zenon DEF store
  <2>2. SectionsExclusive'
    BY <1>1, <1>4, <2>1, Zenon DEF AdmittedInv, PendingInv, SectionsExclusive
  <2>3. SelectorsDisjoint'
    BY <1>1, <2>1, Zenon DEF AdmittedInv, SelectorsDisjoint, Overlap, Selecting, Target
  <2>4. QED
    BY <1>2, <2>2, <2>3, Zenon DEF AdmittedInv
<1>5. CASE ~misled' /\ o # Ncp
  <2>1. ncp' = ncp /\ r.informed /\ ~misled /\ o \in NodePolicy
    BY <1>1, <1>5, Zenon DEF store
  <2>2. /\ nnp'[o].sel = r.spec.sel /\ nnp'[o].sections = r.spec.sections
        /\ \A q \in NodePolicy \ {o} : nnp'[q] = nnp[q]
    <3> DEFINE u == IF r.create THEN edits + 1 ELSE nnp[o].uid
               t == IF r.create THEN "" ELSE nnp[o].status
    <3>1. nnp' = [nnp EXCEPT ![o] = [sel |-> r.spec.sel, sections |-> r.spec.sections, uid |-> u, status |-> t]]
      BY <1>5, Zenon DEF store
    <3>2. nnp \in [NodePolicy -> Policies]
      BY Zenon DEF TypeOK
    <3> HIDE DEF u, t, r
    <3>3. QED
      BY <2>1, <3>1, <3>2, Zenon
  <2>3. SectionsExclusive'
    BY <1>1, <2>1, <2>2, Zenon DEF AdmittedInv, PendingInv, SectionsExclusive
  <2>4. SelectorsDisjoint'
    <3>1. CASE relabels = 0
      <4>1. Apart(nnp, labels)
        BY <2>1, <3>1, OverlapMeaning DEF AdmittedInv, SelectorsDisjoint
      <4>2. \A q \in NodePolicy : \A n \in Node :
              q # o /\ nnp[q] # None => ~(r.spec.sel \subseteq labels[n] /\ nnp[q].sel \subseteq labels[n])
        BY <1>1, <2>1, <3>1, Zenon DEF AdmittedInv, PendingInv
      <4>3. Overlap' = {}
        <5> SUFFICES ASSUME NEW n \in Node, NEW p \in NodePolicy, NEW q \in NodePolicy, p # q,
                            nnp'[p] # None, nnp'[q] # None,
                            nnp'[p].sel \subseteq labels[n], nnp'[q].sel \subseteq labels[n]
                     PROVE  FALSE
          BY <1>1, Zenon DEF Overlap, Selecting, Target, MatchesNodeSelector
        <5>1. CASE p = o \/ q = o
          BY <2>2, <4>2, <5>1, Zenon
        <5>2. CASE p # o /\ q # o
          BY <2>2, <4>1, <5>2, Zenon DEF Apart, Both
        <5>3. QED
          BY <5>1, <5>2, Zenon
      <4>4. QED
        BY <4>3, Zenon DEF SelectorsDisjoint
    <3>2. CASE relabels # 0
      BY <1>1, <3>2 DEF SelectorsDisjoint, TypeOK
    <3>3. QED
      BY <3>1, <3>2, Zenon
  <2>5. QED
    BY <1>2, <2>3, <2>4, Zenon DEF AdmittedInv
<1>6. QED
  BY <1>3, <1>4, <1>5, Zenon

LEMMA RelabelKeeps ==
  ASSUME TypeOK, AdmittedInv, NEW n \in Node, NEW ls, relabel(n, ls)
  PROVE  AdmittedInv'
<1>1. relabels' > 0 /\ relabels' # 0 /\ UNCHANGED <<ncp, nnp, pending, misled>>
  BY DEF relabel, TypeOK
<1>2. QED
  BY <1>1, Zenon DEF AdmittedInv, PendingInv, SectionsExclusive, SelectorsDisjoint

\* Every step admits a request, stores one, relabels a node, or stores nothing.
LEMMA NextAdmitted == TypeOK /\ LabelsInv /\ AdmittedInv /\ [Next]_vars => AdmittedInv'
<1> SUFFICES ASSUME TypeOK, LabelsInv, AdmittedInv, [Next]_vars PROVE AdmittedInv'
  BY Zenon
<1> USE DEF users, stored, pods
<1>1. CASE UNCHANGED vars
  BY <1>1, FewerKeeps, Zenon DEF vars, Fewer
<1>2. ASSUME NEW c \in setup.sections, ValidateNicClusterPolicy(c) PROVE AdmittedInv'
  BY <1>2, ClusterPolicyAdmitted, Zenon
<1>3. ASSUME NEW p \in NodePolicy, NEW s \in setup.specs, ValidateNicNodePolicy(p, s) PROVE AdmittedInv'
  BY <1>3, NodePolicyAdmitted, Zenon
<1>4. ASSUME NEW o \in NodePolicy \cup {Ncp}, NEW s, admittedUnseen(o, s) PROVE AdmittedInv'
  BY <1>4, InformedRequestFits, Zenon DEF admittedUnseen
<1>5. ASSUME NEW o \in NodePolicy \cup {Ncp}, store(o) PROVE AdmittedInv'
  BY <1>5, StoreKeeps, Zenon
<1>6. ASSUME NEW o \in NodePolicy \cup {Ncp}, dropped(o) PROVE AdmittedInv'
  BY <1>6, FewerKeeps, Zenon DEF dropped, Fewer, TypeOK
<1>7. ASSUME NEW o \in NodePolicy \cup {Ncp}, userDeletes(o) PROVE AdmittedInv'
  BY <1>7, FewerKeeps, Zenon DEF userDeletes, Fewer, TypeOK
<1>8. ASSUME NEW n \in Node, NEW ls \in SUBSET Label, relabel(n, ls) PROVE AdmittedInv'
  BY <1>8, RelabelKeeps, Zenon
<1>9. CASE checkNodeOverlap
  BY <1>9, PassEndsFewer, FewerKeeps, Zenon DEF checkNodeOverlap, Fewer
<1>10. CASE SyncState
  BY <1>10, PassEndsFewer, FewerKeeps, Zenon DEF SyncState
<1>11. ASSUME NEW p \in NodePolicy, Reconcile(p) PROVE AdmittedInv'
  BY <1>11, FewerKeeps, Zenon DEF Reconcile, Fewer
<1>12. ASSUME NEW o \in NodePolicy \cup {Ncp}, observePolicy(o) PROVE AdmittedInv'
  BY <1>12, FewerKeeps, Zenon DEF observePolicy, Fewer
<1>13. ASSUME NEW n \in Node, observeNode(n) PROVE AdmittedInv'
  BY <1>13, FewerKeeps, Zenon DEF observeNode, Fewer
<1>14. ASSUME NEW p \in NodePolicy, garbageCollected(p) \/ daemonSetController(p) PROVE AdmittedInv'
  BY <1>14, FewerKeeps, Zenon DEF garbageCollected, daemonSetController, Fewer
<1>15. CASE listFails \/ syncFails
  BY <1>15, PassEndsFewer, FewerKeeps, Zenon DEF listFails, syncFails
<1>16. CASE setupOFEDCatalogFails \/ operatorRestarts
  BY <1>16, FewerKeeps, Zenon DEF setupOFEDCatalogFails, operatorRestarts, Fewer
<1>17. QED
  BY <1>1, <1>2, <1>3, <1>4, <1>5, <1>6, <1>7, <1>8, <1>9, <1>10, <1>11, <1>12, <1>13, <1>14, <1>15, <1>16, Zenon
     DEF Next, Users, Controller, Informers, Cluster, Faults

LEMMA NextLabels == TypeOK /\ LabelsInv /\ [Next]_vars => LabelsInv'
<1> SUFFICES ASSUME TypeOK, LabelsInv, [Next]_vars PROVE LabelsInv'
  BY Zenon
<1> USE DEF LabelsInv, users, stored, pods
<1>1. CASE UNCHANGED <<labels, cache, relabels>>
  BY <1>1, Zenon
<1>2. ASSUME NEW n \in Node, NEW ls, relabel(n, ls) PROVE LabelsInv'
  BY <1>2 DEF relabel, TypeOK
<1>3. ASSUME NEW o, observePolicy(o) PROVE LabelsInv'
  BY <1>3, Zenon DEF observePolicy, TypeOK
<1>4. ASSUME NEW n \in Node, observeNode(n) PROVE LabelsInv'
  BY <1>4, Zenon DEF observeNode, TypeOK
<1>5. CASE operatorRestarts
  BY <1>5, Zenon DEF operatorRestarts, Live
<1>6. CASE checkNodeOverlap \/ SyncState \/ listFails \/ setupOFEDCatalogFails \/ syncFails
  BY <1>1, <1>6, Zenon DEF checkNodeOverlap, SyncState, listFails, setupOFEDCatalogFails, syncFails, PassEnds
<1>7. QED
  BY <1>1, <1>2, <1>3, <1>4, <1>5, <1>6, Zenon
     DEF Next, Users, Controller, Informers, Cluster, Faults, vars, ValidateNicClusterPolicy, ValidateNicNodePolicy,
         admittedUnseen, Request, store, dropped, userDeletes, Reconcile, garbageCollected, daemonSetController

LEMMA InitApart == Init => Apart(nnp, labels)
<1> SUFFICES ASSUME Init PROVE Apart(nnp, labels)
  BY Zenon
<1>1. /\ setup \in Setups /\ labels = setup.labels
      /\ \A p \in NodePolicy : nnp[p] # None => setup.found[p] # None /\ nnp[p].sel = setup.found[p].sel
  BY Zenon DEF Init
<1>2. QED
  BY <1>1, AdmissionAssumption DEF Apart, Both

LEMMA InitAdmitted == Init => LabelsInv /\ AdmittedInv
<1> SUFFICES ASSUME Init PROVE LabelsInv /\ AdmittedInv
  BY Zenon
<1>1. LabelsInv /\ PendingInv /\ SectionsExclusive
  BY Zenon DEF Init, LabelsInv, PendingInv, SectionsExclusive, Live
<1>2. Apart(nnp, labels)
  BY InitApart, Zenon
<1>3. QED
  BY <1>1, <1>2, OverlapMeaning, Zenon DEF AdmittedInv, SelectorsDisjoint

\* What the webhook keeps, with what it needs to know of requests under way.
LEMMA AdmittedFit == Spec => [](SectionsExclusive /\ SelectorsDisjoint)
<1>1. Init => TypeOK /\ LabelsInv /\ AdmittedInv
  BY InitType, InitAdmitted, Zenon
<1>2. TypeOK /\ LabelsInv /\ AdmittedInv /\ [Next]_vars => (TypeOK /\ LabelsInv /\ AdmittedInv)'
  BY NextType, NextLabels, NextAdmitted, Zenon
<1>3. AdmittedInv => SectionsExclusive /\ SelectorsDisjoint
  BY Zenon DEF AdmittedInv
<1>4. QED
  BY <1>1, <1>2, <1>3, PTL DEF Spec

\* As long as every request stored was admitted by a webhook that knew all
\* policies stored before it, the NicClusterPolicy and the NicNodePolicies
\* configure different sections: requests that race, fail or are retried and
\* policies that are deleted in between do not change that.
THEOREM SectionsStayApart == Spec => []SectionsExclusive
  BY AdmittedFit, PTL

\* Likewise, until a node is relabelled no node is selected by two
\* NicNodePolicies.
THEOREM SelectorsStayApart == Spec => []SelectorsDisjoint
  BY AdmittedFit, PTL


-----------------------------------------------------------------------------
(***************************************************************************)
(* What the controller keeps: no node has the pods of two policies for good.*)
(***************************************************************************)

\* No policy is checked anew by a step that only queues policies or ends a pass
\* over one of them.
LEMMA CheckedKept ==
  ASSUME CheckedInv, cache' = cache, \A p \in NodePolicy : Checked(p)' => Checked(p)
  PROVE  CheckedInv'
  BY Zenon DEF CheckedInv, Both

LEMMA NextChecked == TypeOK /\ CheckedInv /\ [Next]_vars => CheckedInv'
<1> SUFFICES ASSUME TypeOK, CheckedInv, [Next]_vars PROVE CheckedInv'
  BY Zenon
<1> USE DEF users, stored, pods
<1>1. CASE UNCHANGED <<cache, queue, work>>
  BY <1>1, CheckedKept, Zenon DEF Checked
<1>2. CASE checkNodeOverlap
  <2>1. CASE DetectNodeOverlap(cache.nnp, cache.labels) # {}
    BY <1>2, <2>1, CheckedKept, Zenon DEF checkNodeOverlap, PassEnds, Requeue, Checked, Idle
  <2>2. CASE DetectNodeOverlap(cache.nnp, cache.labels) = {}
    BY <1>2, <2>2, NoOverlap DEF checkNodeOverlap, CheckedInv, Apart, Both
  <2>3. QED
    BY <2>1, <2>2, Zenon
<1>3. CASE SyncState
  BY <1>3, CheckedKept, Zenon DEF SyncState, PassEnds, Checked
<1>4. CASE listFails \/ setupOFEDCatalogFails \/ syncFails
  BY <1>4, CheckedKept, Zenon DEF listFails, setupOFEDCatalogFails, syncFails, PassEnds, Requeue, Checked
<1>5. ASSUME NEW p \in NodePolicy, Reconcile(p) PROVE CheckedInv'
  <2>1. cache' = cache /\ \A q \in NodePolicy : Checked(q)' => Checked(q) \/ (q = p /\ cache.nnp[p] = None)
    BY <1>5, Zenon DEF Reconcile, Checked
  <2>2. QED
    BY <2>1, Zenon DEF CheckedInv, Both
<1>6. ASSUME NEW o \in NodePolicy \cup {Ncp}, observePolicy(o) PROVE CheckedInv'
  <2>1. work' = work /\ queue \subseteq queue' /\ (o # Ncp => o \in queue')
    BY <1>6, Zenon DEF observePolicy
  <2>2. cache'.labels = cache.labels /\ \A p \in NodePolicy : p # o => cache'.nnp[p] = cache.nnp[p]
    BY <1>6, Zenon DEF observePolicy, TypeOK
  <2>3. \A p \in NodePolicy : Checked(p)' => Checked(p) /\ p # o
    BY <2>1, AdmissionAssumption, Zenon DEF Checked
  <2>4. QED
    BY <2>2, <2>3, Zenon DEF CheckedInv, Both
<1>7. ASSUME NEW n \in Node, observeNode(n) PROVE CheckedInv'
  BY <1>7, Zenon DEF observeNode, NodeEvents, CheckedInv, Checked, TypeOK
<1>8. ASSUME NEW p \in NodePolicy, garbageCollected(p) \/ daemonSetController(p) PROVE CheckedInv'
  BY <1>8, CheckedKept, Zenon DEF garbageCollected, daemonSetController, Checked
<1>9. CASE operatorRestarts
  BY <1>9, ZenonT(60) DEF operatorRestarts, Live, CheckedInv, Checked
<1>10. QED
  BY <1>1, <1>2, <1>3, <1>4, <1>5, <1>6, <1>7, <1>8, <1>9
     DEF Next, Users, Controller, Informers, Cluster, Faults, vars, ValidateNicClusterPolicy, ValidateNicNodePolicy,
         admittedUnseen, Request, store, dropped, userDeletes, relabel

LEMMA NextInst == TypeOK /\ InstInv /\ [Next]_vars => InstInv'
<1> SUFFICES ASSUME TypeOK, InstInv, [Next]_vars PROVE InstInv'
  BY Zenon
<1> USE DEF InstInv, users, stored, pods
<1>1. CASE UNCHANGED <<cache, work>> /\ queue \subseteq queue'
  BY <1>1, Zenon
<1>2. CASE work' = Idle
  BY <1>2, Zenon DEF Idle
<1>3. CASE checkNodeOverlap
  BY <1>2, <1>3 DEF checkNodeOverlap, PassEnds, TypeOK, Idle
<1>4. ASSUME NEW p \in NodePolicy, Reconcile(p) PROVE InstInv'
  BY <1>2, <1>4, Zenon DEF Reconcile
<1>5. ASSUME NEW o \in NodePolicy \cup {Ncp}, observePolicy(o) PROVE InstInv'
  BY <1>5, AdmissionAssumption DEF observePolicy, TypeOK, Idle
<1>6. ASSUME NEW n \in Node, observeNode(n) PROVE InstInv'
  BY <1>6, ZenonT(60) DEF observeNode, TypeOK
<1>7. QED
  BY <1>1, <1>2, <1>3, <1>4, <1>5, <1>6, ZenonT(60)
     DEF Next, Users, Controller, Informers, Cluster, Faults, vars, ValidateNicClusterPolicy, ValidateNicNodePolicy,
         admittedUnseen, Request, store, dropped, userDeletes, relabel, garbageCollected, daemonSetController,
         SyncState, listFails, setupOFEDCatalogFails, syncFails, PassEnds, operatorRestarts

LEMMA NextDeployed == TypeOK /\ InstInv /\ DeployedInv /\ [Next]_vars => DeployedInv'
<1> SUFFICES ASSUME TypeOK, InstInv, DeployedInv, [Next]_vars PROVE DeployedInv'
  BY Zenon
<1> USE DEF DeployedInv, Unworked, users, stored, pods
<1>1. CASE UNCHANGED <<cache, queue, work, deployed>>
  BY <1>1, Zenon
<1>2. CASE UNCHANGED <<cache, deployed>> /\ work' = Idle /\ queue \cup {work.key} \subseteq queue'
  BY <1>2, Zenon DEF Idle
<1>3. CASE checkNodeOverlap
  BY <1>2, <1>3 DEF checkNodeOverlap, PassEnds, Requeue, TypeOK, Idle
<1>4. CASE listFails \/ setupOFEDCatalogFails \/ syncFails
  BY <1>2, <1>4, Zenon DEF listFails, setupOFEDCatalogFails, syncFails, PassEnds, Requeue
<1>5. CASE SyncState
  <2>1. /\ cache' = cache /\ queue \subseteq queue' /\ work' = Idle /\ work.pc = "sync"
        /\ deployed' = [deployed EXCEPT ![work.key] = DaemonSet(work.inst)]
    BY <1>5, Zenon DEF SyncState, PassEnds
  <2>2. deployed \in [NodePolicy -> {None} \cup [sel : SUBSET Label, uid : Uids]]
    BY Zenon DEF TypeOK
  <2>3. ASSUME NEW p \in NodePolicy, p \notin queue', cache.nnp[p] # None
        PROVE  deployed'[p] = DaemonSet(cache.nnp[p])
    <3>1. CASE p = work.key
      <4>1. work.inst = cache.nnp[p]
        BY <2>1, <2>3, <3>1, Zenon DEF InstInv
      <4>2. QED
        BY <2>1, <2>2, <2>3, <3>1, <4>1, Zenon
    <3>2. CASE p # work.key
      BY <2>1, <2>2, <2>3, <3>2, Zenon
    <3>3. QED
      BY <3>1, <3>2, Zenon
  <2>4. QED
    BY <2>1, <2>3, Zenon
<1>6. ASSUME NEW p \in NodePolicy, Reconcile(p) PROVE DeployedInv'
  BY <1>6, Zenon DEF Reconcile
<1>7. ASSUME NEW o \in NodePolicy \cup {Ncp}, observePolicy(o) PROVE DeployedInv'
  BY <1>7, AdmissionAssumption DEF observePolicy, TypeOK
<1>8. ASSUME NEW n \in Node, observeNode(n) PROVE DeployedInv'
  BY <1>8, Zenon DEF observeNode, TypeOK
<1>9. ASSUME NEW p \in NodePolicy, garbageCollected(p) PROVE DeployedInv'
  BY <1>9, Zenon DEF garbageCollected, TypeOK
<1>10. ASSUME NEW p \in NodePolicy, daemonSetController(p) PROVE DeployedInv'
  BY <1>10, Zenon DEF daemonSetController
<1>11. CASE operatorRestarts
  BY <1>11, Zenon DEF operatorRestarts, Live
<1>12. QED
  BY <1>1, <1>3, <1>4, <1>5, <1>6, <1>7, <1>8, <1>9, <1>10, <1>11, ZenonT(60)
     DEF Next, Users, Controller, Informers, Cluster, Faults, vars, ValidateNicClusterPolicy, ValidateNicNodePolicy,
         admittedUnseen, Request, store, dropped, userDeletes, relabel

\* A step leaves a policy alone, deletes it, queues it or changes it.
LEMMA StatusKept ==
  ASSUME StatusInv,
         \A p \in NodePolicy : Unworked(p)' /\ p \notin news' =>
           nnp'[p] = None \/ (nnp'[p] = nnp[p] /\ Unworked(p) /\ p \notin news)
  PROVE  StatusInv'
  BY Zenon DEF StatusInv

\* The status of a pass that ends well is stored unless the policy has changed,
\* of which an event is due then; any other pass is repeated.
LEMMA PassEndsStatus ==
  ASSUME TypeOK, InstInv, StatusInv, work.pc # "idle", NEW state, NEW events, PassEnds(state, events)
  PROVE  StatusInv'
<1>1. /\ updatePolicyCRStatus(state) /\ queue \subseteq queue' /\ Requeue(state) \subseteq queue'
      /\ work' = Idle
  BY Zenon DEF PassEnds
<1>2. work.key \in NodePolicy /\ nnp \in [NodePolicy -> Policies]
  <2>1. work # Idle
    BY DEF Idle
  <2>2. work \in [pc : {"check", "sync"}, key : NodePolicy, inst : Policies \ {None}]
    BY <2>1, Zenon DEF TypeOK
  <2>3. work.key \in NodePolicy
    BY <2>2
  <2>4. QED
    BY <2>3, Zenon DEF TypeOK
<1>3. SUFFICES ASSUME NEW p \in NodePolicy, p \notin queue', p \notin news', nnp'[p] # None
               PROVE  nnp'[p].status = "ready"
  BY Zenon DEF StatusInv, Unworked
<1>4. CASE p # work.key
  <2>1. nnp'[p] = nnp[p] /\ p \notin news
    BY <1>1, <1>2, <1>3, <1>4, Zenon DEF updatePolicyCRStatus
  <2>2. QED
    BY <1>1, <1>3, <1>4, <2>1, Zenon DEF StatusInv, Unworked
<1>5. CASE p = work.key
  <2>1. state = "ready"
    BY <1>1, <1>3, <1>5, Zenon DEF Requeue
  <2>2. ~(nnp[p] = work.inst /\ nnp[p].status # state) /\ nnp' = nnp /\ p \notin news
    BY <1>1, <1>3, <1>5, Zenon DEF updatePolicyCRStatus
  <2>3. work.inst = cache.nnp[p] /\ cache.nnp[p] = nnp[p]
    BY <1>1, <1>3, <1>5, <2>2, Zenon DEF InstInv, TypeOK
  <2>4. QED
    BY <2>1, <2>2, <2>3, Zenon
<1>6. QED
  BY <1>4, <1>5, Zenon

LEMMA NextStatus == TypeOK /\ InstInv /\ StatusInv /\ [Next]_vars => StatusInv'
<1> SUFFICES ASSUME TypeOK, InstInv, StatusInv, [Next]_vars PROVE StatusInv'
  BY Zenon
<1> USE DEF users, stored, pods
<1>1. CASE nnp' = nnp /\ work' = work /\ news \subseteq news' /\ queue \subseteq queue'
  BY <1>1, StatusKept, Zenon DEF Unworked
<1>2. ASSUME NEW o \in NodePolicy \cup {Ncp}, store(o) \/ userDeletes(o) PROVE StatusInv'
  <2>1. /\ work' = work /\ queue' = queue /\ news' = news \cup {o}
        /\ \A p \in NodePolicy : p # o => nnp'[p] = nnp[p]
    BY <1>2, Zenon DEF store, userDeletes, TypeOK
  <2>2. QED
    BY <2>1, StatusKept, Zenon DEF Unworked
<1>3. CASE checkNodeOverlap
  <2>1. CASE DetectNodeOverlap(cache.nnp, cache.labels) # {}
    BY <1>3, <2>1, PassEndsStatus, Zenon DEF checkNodeOverlap
  <2>2. CASE DetectNodeOverlap(cache.nnp, cache.labels) = {}
    <3>1. /\ work.pc # "idle" /\ work'.pc # "idle" /\ work'.key = work.key
          /\ nnp' = nnp /\ news' = news /\ queue' = queue
      BY <1>3, <2>2 DEF checkNodeOverlap, TypeOK, Idle
    <3>2. QED
      BY <3>1, StatusKept, Zenon DEF Unworked
  <2>3. QED
    BY <2>1, <2>2, Zenon
<1>4. CASE SyncState
  BY <1>4, PassEndsStatus, Zenon DEF SyncState
<1>5. CASE listFails \/ syncFails
  BY <1>5, PassEndsStatus, Zenon DEF listFails, syncFails
<1>6. ASSUME NEW p \in NodePolicy, Reconcile(p) PROVE StatusInv'
  <2>1. /\ work.pc = "idle" /\ nnp' = nnp /\ news' = news /\ queue' = queue \ {p}
        /\ p \notin news => cache.nnp[p] = nnp[p]
    BY <1>6, Zenon DEF Reconcile, TypeOK
  <2>2. Unworked(p)' => cache.nnp[p] = None
    BY <1>6, Zenon DEF Reconcile, Unworked
  <2>3. QED
    BY <2>1, <2>2, StatusKept, Zenon DEF Unworked
<1>7. ASSUME NEW o \in NodePolicy \cup {Ncp}, observePolicy(o) PROVE StatusInv'
  <2>1. /\ work' = work /\ queue \subseteq queue' /\ (o # Ncp => o \in queue')
        /\ nnp' = nnp /\ news' = news \ {o}
    BY <1>7, Zenon DEF observePolicy
  <2>2. QED
    BY <2>1, StatusKept, AdmissionAssumption, Zenon DEF Unworked
<1>8. ASSUME NEW n \in Node, observeNode(n) PROVE StatusInv'
  <2>1. work' = work /\ queue \subseteq queue' /\ nnp' = nnp /\ news' = news \ {n}
    BY <1>8, Zenon DEF observeNode
  <2>2. n \notin NodePolicy
    BY AdmissionAssumption, Zenon
  <2>3. QED
    BY <2>1, <2>2, StatusKept, Zenon DEF Unworked
<1>9. CASE operatorRestarts
  BY <1>9, StatusKept, Zenon DEF operatorRestarts, Unworked
<1>10. CASE setupOFEDCatalogFails
  <2>1. nnp' = nnp /\ news' = news /\ queue' = queue \cup {work.key} /\ work' = Idle /\ work.pc # "idle"
    BY <1>10, Zenon DEF setupOFEDCatalogFails
  <2>2. QED
    BY <2>1, StatusKept, Zenon DEF Unworked, Idle
<1>11. QED
  BY <1>1, <1>2, <1>3, <1>4, <1>5, <1>6, <1>7, <1>8, <1>9, <1>10, ZenonT(60)
     DEF Next, Users, Controller, Informers, Cluster, Faults, vars, ValidateNicClusterPolicy, ValidateNicNodePolicy,
         admittedUnseen, Request, dropped, relabel, garbageCollected, daemonSetController

LEMMA InitController == Init => CheckedInv /\ InstInv /\ DeployedInv /\ StatusInv
<1> SUFFICES ASSUME Init PROVE CheckedInv /\ InstInv /\ DeployedInv /\ StatusInv
  BY Zenon
<1>1. cache.nnp = nnp /\ cache.labels = labels /\ work.pc = "idle"
  BY Zenon DEF Init, Live, Idle
<1>2. CheckedInv
  BY <1>1, InitApart, Zenon DEF CheckedInv, Apart
<1>3. DeployedInv
  BY <1>1, Zenon DEF Init, DeployedInv
<1>4. StatusInv
  BY Zenon DEF Init, StatusInv
<1>5. QED
  BY <1>1, <1>2, <1>3, <1>4, Zenon DEF InstInv

\* In a quiet state the informers are right, and the last pass over each policy
\* found no overlap, deployed it and reported it.
LEMMA QuietInForce ==
  ASSUME TypeOK, CheckedInv, DeployedInv, StatusInv
  PROVE  QuietPoliciesInForce
<1> SUFFICES ASSUME Quiet
             PROVE  /\ Overlap = {}
                    /\ \A p \in NodePolicy :
                         deployed[p] = DaemonSet(nnp[p]) /\ (nnp[p] # None => nnp[p].status = "ready")
  BY Zenon DEF QuietPoliciesInForce
<1>1. queue = {} /\ work.pc = "idle" /\ news = {} /\ \A p \in NodePolicy : ~Orphaned(p)
  BY Zenon DEF Quiet, Idle
<1>2. /\ \A p \in NodePolicy : cache.nnp[p] = nnp[p] /\ Checked(p) /\ Unworked(p)
      /\ \A n \in Node : cache.labels[n] = labels[n]
  BY <1>1, Zenon DEF TypeOK, Checked, Unworked
<1>3. Overlap = {}
  <2>1. Apart(nnp, labels)
    BY <1>2, Zenon DEF CheckedInv, Apart, Both
  <2>2. QED
    BY <2>1, OverlapMeaning, Zenon
<1>4. ASSUME NEW p \in NodePolicy
      PROVE  deployed[p] = DaemonSet(nnp[p]) /\ (nnp[p] # None => nnp[p].status = "ready")
  <2>1. CASE nnp[p] # None
    BY <1>1, <1>2, <2>1, Zenon DEF DeployedInv, StatusInv
  <2>2. CASE nnp[p] = None
    <3>1. deployed[p] # None => deployed[p].uid # 0
      BY SetupType DEF TypeOK, Uids
    <3>2. deployed[p] = None
      BY <1>1, <2>2, <3>1, Zenon DEF Orphaned
    <3>3. QED
      BY <2>2, <3>2, Zenon DEF DaemonSet
  <2>3. QED
    BY <2>1, <2>2, Zenon
<1>5. QED
  BY <1>3, <1>4, Zenon

\* The controllers come to rest only when no two NicNodePolicies select the same
\* node, and every one is deployed as it is written and reported ready: however
\* requests raced past the webhook, whichever nodes were relabelled, whichever
\* status updates were refused and whatever failed.
THEOREM InForceWhenQuiet == Spec => []QuietPoliciesInForce
<1> DEFINE Inv == TypeOK /\ CheckedInv /\ InstInv /\ DeployedInv /\ StatusInv
<1>1. Init => Inv
  BY InitType, InitController, Zenon
<1>2. Inv /\ [Next]_vars => Inv'
  BY NextType, NextChecked, NextInst, NextDeployed, NextStatus, Zenon
<1>3. Inv => QuietPoliciesInForce
  BY QuietInForce, Zenon
<1>4. QED
  BY <1>1, <1>2, <1>3, PTL DEF Spec

\* When nothing is left to do, no node has the pods of two NicNodePolicies.
QuietServesDisjoint ==
  Quiet => \A p, q \in NodePolicy : p # q => served[p] \cap served[q] = {}

LEMMA InForceDisjoint ==
  ASSUME QuietPoliciesInForce
  PROVE  QuietServesDisjoint
<1> SUFFICES ASSUME Quiet, NEW p \in NodePolicy, NEW q \in NodePolicy, p # q,
                    NEW n, n \in served[p], n \in served[q]
             PROVE  FALSE
  BY Zenon DEF QuietServesDisjoint
<1>1. ASSUME NEW r \in NodePolicy, n \in served[r]
      PROVE  n \in Node /\ r \in Selecting(n)
  <2>1. n \in Target(DaemonSet(nnp[r]))
    BY <1>1, Zenon DEF Quiet, QuietPoliciesInForce
  <2>2. nnp[r] # None /\ n \in Node /\ nnp[r].sel \subseteq labels[n]
    BY <2>1 DEF Target, DaemonSet, MatchesNodeSelector
  <2>3. QED
    BY <2>2, Zenon DEF Selecting, Target, MatchesNodeSelector
<1>2. n \in Overlap
  BY <1>1, Zenon DEF Overlap
<1>3. QED
  BY <1>2, Zenon DEF QuietPoliciesInForce

\* However requests raced past the webhook and whichever nodes were relabelled,
\* no node keeps the pods of two NicNodePolicies.
THEOREM ServedDisjointWhenQuiet == Spec => []QuietServesDisjoint
  BY InForceWhenQuiet, InForceDisjoint, PTL

=============================================================================
