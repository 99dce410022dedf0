---------------------------- MODULE NetworkProofs ----------------------------
(***************************************************************************)
(* Network for every set of namespaces and configs and any number of edits  *)
(* and faults: what is deployed and reported when nothing is left to do,    *)
(* and that no NAD is left behind in a former namespace.                    *)
(***************************************************************************)
EXTENDS Network, TLAPS

LEMMA ThisType ==
  ASSUME kind \in DOMAIN Kinds
  PROVE  /\ This.state.follows \in BOOLEAN /\ This.state.unnamed \in {"", "default"}
         /\ This.state.follows => This.state.unnamed = "default"
         /\ This.reconciler.retries \in BOOLEAN /\ This.reconciler.summary \in BOOLEAN
<1>1. kind \in {"macvlan", "ipoib", "hostdevice"}
  BY Zenon DEF Kinds
<1>2. CASE kind = "macvlan"
  <2>1. This = [state |-> stateMacvlanNetwork, reconciler |-> MacvlanNetworkReconciler]
    BY <1>2, Zenon DEF This, Kinds
  <2>2. QED
    BY <2>1, Zenon DEF stateMacvlanNetwork, MacvlanNetworkReconciler
<1>3. CASE kind = "ipoib"
  <2>1. This = [state |-> stateIPoIBNetwork, reconciler |-> IPoIBNetworkReconciler]
    BY <1>3, Zenon DEF This, Kinds
  <2>2. QED
    BY <2>1, Zenon DEF stateIPoIBNetwork, IPoIBNetworkReconciler
<1>4. CASE kind = "hostdevice"
  <2>1. This = [state |-> stateHostDeviceNetwork, reconciler |-> HostDeviceNetworkReconciler]
    BY <1>4, Zenon DEF This, Kinds
  <2>2. QED
    BY <2>1, Zenon DEF stateHostDeviceNetwork, HostDeviceNetworkReconciler
<1>5. QED
  BY <1>1, <1>2, <1>3, <1>4, Zenon

\* Where a network's NAD goes.
LEMMA NadNamespaceType ==
  ASSUME kind \in DOMAIN Kinds, NEW c \in NetworkType
  PROVE  /\ NadNamespace(c) \in Namespace \cup {""}
         /\ This.state.follows => NadNamespace(c) \in Namespace
         /\ c.ns # "" => NadNamespace(c) = c.ns
  BY ThisType, NetworkAssumption, Zenon DEF NadNamespace, NetworkType

LEMMA KindKept == [Next]_vars => kind' = kind
  BY Zenon DEF Next, vars, Reconcile, Step, observe, callFails, statusUpdateFails, operatorRestarts, userDeletes, userCreates,
         userEdits, observeNad, garbageCollected, namespaceCreated, deletedByHand, handleNamespaceChange,
         createOrUpdateObjs, getSyncState, updateNetAttDefNamespace, getObj, updateCrStatus, Edit

LEMMA RenderKept ==
  ASSUME kind' = kind, NEW c
  PROVE  /\ This' = This /\ NadNamespace(c)' = NadNamespace(c) /\ HasMoved(c)' = HasMoved(c)
         /\ Noted(c)' = Noted(c)
  BY Zenon DEF This, NadNamespace, HasMoved, Noted

LEMMA NoneType ==
  ASSUME edits \in Nat
  PROVE  /\ NoNetwork \in NetworkType /\ NoNetwork.uid = 0 /\ NoNad \in NadType /\ NoNad.uid = 0
<1>1. 0 \in 0 .. edits
  OBVIOUS
<1>2. QED
  BY <1>1, Zenon DEF NoNetwork, NetworkType, NoNad, NadType

LEMMA IdleType ==
  ASSUME edits \in Nat
  PROVE  /\ Idle \in [pc : {"idle", "follow", "apply", "check", "note", "get", "report"}, copy : NetworkType,
                      result : {"", "ready", "notReady", "error"}]
         /\ Idle.pc = "idle" /\ Idle.copy = NoNetwork /\ Idle.result = ""
  BY NoneType, Zenon DEF Idle

-----------------------------------------------------------------------------
(***************************************************************************)
(* Types.                                                                   *)
(***************************************************************************)

WorkType ==
  [pc : {"idle", "follow", "apply", "check", "note", "get", "report"}, copy : NetworkType,
   result : {"", "ready", "notReady", "error"}]

\* A copy of the network, as it is or as it was.
CopyOK(c) == c \in NetworkType /\ (c.uid = 0 => c = NoNetwork)

\* The invariant as far as the NADs and the pass are concerned.
LEMMA TypeFacts ==
  ASSUME TypeOK
  PROVE  /\ kind \in DOMAIN Kinds /\ CopyOK(cr) /\ CopyOK(cache) /\ CopyOK(work.copy) /\ work \in WorkType
         /\ work.pc # "idle" => work.copy # NoNetwork
         /\ edits \in Nat /\ edits <= MaxEdits /\ MaxEdits \in Nat /\ faults \in 0 .. MaxFaults /\ MaxFaults \in Nat
         /\ nad \in [Namespace -> NadType] /\ seen \in [Namespace -> NadType] /\ news \subseteq Namespace
<1>1. CopyOK(cr) /\ CopyOK(cache) /\ CopyOK(work.copy)
  BY Zenon DEF TypeOK, CopyOK
<1>2. edits \in Nat /\ edits <= MaxEdits /\ MaxEdits \in Nat /\ faults \in 0 .. MaxFaults /\ MaxFaults \in Nat
  <2>1. edits \in 0 .. MaxEdits /\ faults \in 0 .. MaxFaults
    BY Zenon DEF TypeOK
  <2>2. MaxEdits \in Nat /\ MaxFaults \in Nat
    BY NetworkAssumption, Zenon
  <2>3. QED
    BY <2>1, <2>2
<1>3. QED
  BY <1>1, <1>2, Zenon DEF TypeOK, WorkType

\* An edit makes a new number.
LEMMA TypeGrows ==
  ASSUME edits \in Nat, edits' \in {edits, edits + 1}
  PROVE  /\ NetworkType \subseteq NetworkType' /\ NadType \subseteq NadType'
         /\ \A c : CopyOK(c) => CopyOK(c)'
<1>1. 0 .. edits \subseteq 0 .. edits' /\ edits' \in Nat
  OBVIOUS
<1>2. NetworkType \subseteq NetworkType'
  BY <1>1, Zenon DEF NetworkType
<1>3. NadType \subseteq NadType'
  BY <1>1, Zenon DEF NadType
<1>4. QED
  BY <1>2, <1>3, Zenon DEF CopyOK

\* A step that leaves the edits alone.
LEMMA StepType ==
  ASSUME TypeOK, UNCHANGED <<kind, edits>>, CopyOK(cr'), CopyOK(cache'), work' \in WorkType, CopyOK(work'.copy),
         work'.pc # "idle" => work'.copy # NoNetwork, work'.pc \in {"follow", "note"} => This.state.follows,
         nad' \in [Namespace -> NadType], seen' \in [Namespace -> NadType], news' \subseteq Namespace,
         \A ns \in Namespace \ news' : seen'[ns] = nad'[ns],
         exists' \subseteq Namespace, leftover' \subseteq Namespace, queue' \in BOOLEAN, unsaid' \in BOOLEAN,
         faults' \in 0 .. MaxFaults
  PROVE  TypeOK'
<1>1. NetworkType' = NetworkType /\ NadType' = NadType
  BY Zenon DEF NetworkType, NadType
<1>2. This' = This
  BY Zenon DEF This
<1>3. QED
  BY <1>1, <1>2, Zenon DEF TypeOK, CopyOK, WorkType

LEMMA PutType ==
  ASSUME TypeOK, NEW ns \in Namespace, NEW value \in NadType, Put(ns, value), UNCHANGED seen
  PROVE  /\ nad' \in [Namespace -> NadType] /\ news' \subseteq Namespace
         /\ \A n \in Namespace : nad'[n] = IF n = ns THEN value ELSE nad[n]
         /\ \A n \in Namespace \ news' : seen'[n] = nad'[n]
         /\ news \subseteq news' /\ \A n \in Namespace : nad'[n] # nad[n] => n \in news'
<1>1. nad \in [Namespace -> NadType] /\ news \subseteq Namespace /\ \A n \in Namespace \ news : seen[n] = nad[n]
  BY Zenon DEF TypeOK
<1>2. \A n \in Namespace : nad'[n] = IF n = ns THEN value ELSE nad[n]
  BY <1>1, Zenon DEF Put
<1>3. nad' \in [Namespace -> NadType] /\ news' \subseteq Namespace /\ news \subseteq news'
  BY <1>1, Zenon DEF Put
<1>4. \A n \in Namespace : nad'[n] # nad[n] => n \in news'
  BY <1>2, Zenon DEF Put
<1>5. QED
  BY <1>1, <1>2, <1>3, <1>4, Zenon

\* What the pass and its faults do to the state.
LEMMA PassType ==
  ASSUME TypeOK, Reconcile \/ Step \/ callFails \/ statusUpdateFails
  PROVE  TypeOK'
<1>1. /\ kind \in DOMAIN Kinds /\ CopyOK(cr) /\ CopyOK(cache) /\ CopyOK(work.copy) /\ work \in WorkType
      /\ work.pc # "idle" => work.copy # NoNetwork
      /\ edits \in Nat /\ faults \in 0 .. MaxFaults /\ MaxFaults \in Nat
      /\ nad \in [Namespace -> NadType] /\ seen \in [Namespace -> NadType] /\ news \subseteq Namespace
  BY TypeFacts, Zenon
<1>2. /\ exists \subseteq Namespace /\ leftover \subseteq Namespace /\ queue \in BOOLEAN /\ unsaid \in BOOLEAN
      /\ \A ns \in Namespace \ news : seen[ns] = nad[ns]
  BY Zenon DEF TypeOK
<1>3. Idle \in WorkType /\ Idle.pc = "idle" /\ Idle.copy = NoNetwork /\ CopyOK(NoNetwork)
  BY <1>1, IdleType, NoneType, Zenon DEF WorkType, CopyOK
<1>4. CASE Reconcile
  <2>1. UNCHANGED <<kind, cr, cache, seen, news, nad, exists, leftover, unsaid, edits, faults>> /\ queue' \in BOOLEAN
    BY <1>4, Zenon DEF Reconcile, informers
  <2>2. CASE work' = Idle
    BY <1>1, <1>2, <1>3, <2>1, <2>2, StepType, Zenon
  <2>3. CASE work' # Idle
    <3>0. cache # NoNetwork
      BY <1>4, <2>3, Zenon DEF Reconcile
    <3>1. PICK pc : pc = IF This.state.follows THEN "follow" ELSE "apply"
      BY Zenon
    <3>2. work' = [pc |-> pc, copy |-> cache, result |-> ""]
      <4>1. work' = [Idle EXCEPT !.pc = pc, !.copy = cache]
        BY <1>4, <3>0, <3>1, Zenon DEF Reconcile
      <4>2. QED
        BY <4>1, Zenon DEF Idle
    <3>3. work' \in WorkType /\ work'.copy = cache /\ work'.pc = pc
      BY <1>1, <3>1, <3>2, Zenon DEF WorkType, CopyOK
    <3>4. pc # "note" /\ (pc = "follow" => This.state.follows)
      BY <3>1, Zenon
    <3>5. QED
      BY <1>1, <1>2, <2>1, <3>0, <3>3, <3>4, StepType, Zenon
  <2>4. QED
    BY <2>2, <2>3, Zenon
<1>5. ASSUME NEW pc \in {"apply", "check", "note", "get", "report"}, NEW r \in {work.result, "ready", "notReady", "error"},
             work' = [work EXCEPT !.pc = pc, !.result = r], work.pc # "idle"
      PROVE  work' \in WorkType /\ CopyOK(work'.copy) /\ work'.copy # NoNetwork /\ work'.pc = pc
  BY <1>1, <1>5, Zenon DEF WorkType
<1>6. ASSUME NEW pc, work' = [work EXCEPT !.pc = pc]
      PROVE  work' = [work EXCEPT !.pc = pc, !.result = work.result]
  BY <1>1, <1>6, Zenon DEF WorkType
<1>7. CASE handleNamespaceChange
  <2>1. UNCHANGED <<kind, cr, cache, seen, exists, queue, leftover, unsaid, edits, faults>>
    BY <1>7, Zenon DEF handleNamespaceChange
  <2>2. work' \in WorkType /\ CopyOK(work'.copy) /\ work'.copy # NoNetwork /\ work'.pc = "apply"
    BY <1>5, <1>6, <1>7, Zenon DEF handleNamespaceChange
  <2>3. /\ nad' \in [Namespace -> NadType] /\ news' \subseteq Namespace
        /\ \A ns \in Namespace \ news' : seen'[ns] = nad'[ns]
    <3>1. CASE UNCHANGED <<nad, news>>
      BY <1>1, <1>2, <2>1, <3>1, Zenon
    <3>2. CASE ~UNCHANGED <<nad, news>>
      <4>1. HasMoved(work.copy) /\ Put(work.copy.annot, NoNad)
        BY <1>7, <3>2, Zenon DEF handleNamespaceChange, Follow
      <4>2. work.copy.annot \in Namespace
        BY <1>1, <4>1, Zenon DEF HasMoved, CopyOK, NetworkType
      <4>3. QED
        BY <1>1, <2>1, <4>1, <4>2, NoneType, PutType, Zenon
    <3>3. QED
      BY <3>1, <3>2, Zenon
  <2>4. QED
    BY <1>1, <1>2, <2>1, <2>2, <2>3, StepType, Zenon
<1>8. CASE createOrUpdateObjs
  <2>1. UNCHANGED <<kind, cr, cache, seen, exists, queue, leftover, unsaid, edits, faults>> /\ work.pc = "apply"
    BY <1>8, Zenon DEF createOrUpdateObjs
  <2>2. work' \in WorkType /\ CopyOK(work'.copy) /\ work'.copy # NoNetwork /\ work'.pc \in {"check", "report"}
    BY <1>5, <1>6, <1>8, <2>1, Zenon DEF createOrUpdateObjs, Return
  <2>3. /\ nad' \in [Namespace -> NadType] /\ news' \subseteq Namespace
        /\ \A ns \in Namespace \ news' : seen'[ns] = nad'[ns]
    <3>1. CASE UNCHANGED <<nad, news>>
      BY <1>1, <1>2, <2>1, <3>1, Zenon
    <3>2. CASE ~UNCHANGED <<nad, news>>
      <4>1. NadNamespace(work.copy) \in Namespace /\ Put(NadNamespace(work.copy), getManifestObjects(work.copy))
        BY <1>2, <1>8, <3>2, Zenon DEF createOrUpdateObjs
      <4>2. getManifestObjects(work.copy) \in NadType
        BY <1>1, Zenon DEF getManifestObjects, CopyOK, NetworkType, NadType
      <4>3. QED
        BY <1>1, <2>1, <4>1, <4>2, PutType, Zenon
    <3>3. QED
      BY <3>1, <3>2, Zenon
  <2>4. QED
    BY <1>1, <1>2, <2>1, <2>2, <2>3, StepType, Zenon
<1>9. CASE getSyncState \/ getObj
  <2>1. UNCHANGED <<kind, cr, cache, seen, news, nad, exists, queue, leftover, unsaid, edits, faults>> /\ work.pc # "idle"
    BY <1>9, Zenon DEF getSyncState, getObj, informers
  <2>2. /\ work' \in WorkType /\ CopyOK(work'.copy) /\ work'.copy # NoNetwork /\ work'.pc # "follow"
        /\ work'.pc = "note" => This.state.follows
    BY <1>5, <1>6, <1>9, <2>1, Zenon DEF getSyncState, getObj, Return
  <2>3. QED
    BY <1>1, <1>2, <2>1, <2>2, StepType, Zenon
<1>10. CASE updateNetAttDefNamespace
  <2>1. /\ UNCHANGED <<kind, cache, seen, news, nad, exists, queue, unsaid, edits, faults>> /\ work.pc = "note"
        /\ UNCHANGED leftover \/ leftover' = leftover \cup {NadNamespace(work.copy)}
    BY <1>10, Zenon DEF updateNetAttDefNamespace, informers
  <2>2. PICK c : c = work.copy
    BY Zenon
  <2>3. c \in NetworkType /\ c # NoNetwork /\ c.uid # 0 /\ NadNamespace(c) \in Namespace
    BY <1>1, <2>1, <2>2, NadNamespaceType, Zenon DEF CopyOK, TypeOK
  <2>4. CASE cr' = cr /\ \E pc \in {"get", "report"}, r \in {work.result, "error"} :
                            work' = [work EXCEPT !.pc = pc, !.result = r]
    <3>1. work' \in WorkType /\ CopyOK(work'.copy) /\ work'.copy # NoNetwork /\ work'.pc \in {"get", "report"}
      BY <1>5, <2>1, <2>4, Zenon
    <3>2. QED
      BY <1>1, <1>2, <2>1, <2>2, <2>3, <2>4, <3>1, StepType, Zenon
  <2>5. CASE cr' = Noted(c) /\ work' = [work EXCEPT !.pc = "get", !.copy = Noted(c)]
    <3>1. /\ Noted(c) \in NetworkType /\ Noted(c).uid = c.uid
      BY <2>3, Zenon DEF Noted, NetworkType
    <3>2. work' \in WorkType /\ work'.copy = Noted(c) /\ work'.pc = "get"
      BY <1>1, <2>5, <3>1, Zenon DEF WorkType
    <3>3. CopyOK(Noted(c)) /\ Noted(c) # NoNetwork
      BY <1>1, <2>3, <3>1, NoneType, Zenon DEF CopyOK
    <3>4. QED
      BY <1>1, <1>2, <2>1, <2>2, <2>3, <2>5, <3>2, <3>3, StepType, Zenon
  <2>6. QED
    BY <1>6, <1>10, <2>2, <2>4, <2>5, Zenon DEF updateNetAttDefNamespace, Return
<1>11. CASE updateCrStatus \/ statusUpdateFails
  <2>1. /\ UNCHANGED <<kind, cache, seen, news, nad, exists, leftover, edits>> /\ work' = Idle
        /\ cr' = cr \/ (cr' = Report(work) /\ cr = work.copy /\ work.pc # "idle")
    BY <1>11, Zenon DEF updateCrStatus, statusUpdateFails, informers
  <2>2. queue' \in BOOLEAN /\ unsaid' \in BOOLEAN
    BY <1>2, <1>11, Zenon DEF updateCrStatus, statusUpdateFails, Again
  <2>3. faults' \in 0 .. MaxFaults
    <3>1. faults' = faults \/ (faults < MaxFaults /\ faults' = faults + 1)
      BY <1>11, Zenon DEF updateCrStatus, statusUpdateFails, Fault
    <3>2. QED
      BY <1>1, <3>1
  <2>4. CopyOK(cr')
    <3>1. CASE cr' = cr
      BY <1>1, <3>1, Zenon
    <3>2. CASE cr' = Report(work) /\ cr = work.copy /\ work.pc # "idle"
      <4>1. PICK c : c = work.copy
        BY Zenon
      <4>2. c \in NetworkType /\ c.uid # 0 /\ work.result \in {"", "ready", "notReady", "error"}
        BY <1>1, <3>2, <4>1, Zenon DEF CopyOK, WorkType
      <4>3. PICK st \in {"", "ready", "notReady", "error"}, link \in {c.link, c.ns} :
              cr' = [c EXCEPT !.state = st, !.link = link]
        BY <3>2, <4>1, <4>2, Zenon DEF Report
      <4>4. QED
        BY <4>2, <4>3, Zenon DEF CopyOK, NetworkType
    <3>3. QED
      BY <2>1, <3>1, <3>2, Zenon
  <2>5. QED
    BY <1>1, <1>2, <1>3, <2>1, <2>2, <2>3, <2>4, StepType, Zenon
<1>12. CASE callFails
  <2>1. UNCHANGED <<kind, cr, cache, seen, news, nad, exists, queue, unsaid, edits>> /\ work.pc # "idle"
    BY <1>12, Zenon DEF callFails, informers
  <2>2. work' \in WorkType /\ CopyOK(work'.copy) /\ work'.copy # NoNetwork /\ work'.pc = "report"
    BY <1>5, <1>12, <2>1, Zenon DEF callFails, Return
  <2>3. leftover' \subseteq Namespace
    BY <1>2, <1>12, Zenon DEF callFails, Unnoted
  <2>4. faults' \in 0 .. MaxFaults
    BY <1>1, <1>12 DEF callFails, Fault
  <2>5. QED
    BY <1>1, <1>2, <2>1, <2>2, <2>3, <2>4, StepType, Zenon
<1>13. QED
  BY <1>4, <1>7, <1>8, <1>9, <1>10, <1>11, <1>12, Zenon DEF Step

\* What the cluster, the caches and a restart do.
LEMMA WorldType ==
  ASSUME TypeOK, \/ observe \/ operatorRestarts
                 \/ \E ns \in Namespace :
                      observeNad(ns) \/ garbageCollected(ns) \/ namespaceCreated(ns) \/ deletedByHand(ns)
  PROVE  TypeOK'
<1>1. /\ CopyOK(cr) /\ CopyOK(cache) /\ CopyOK(work.copy) /\ work \in WorkType
      /\ work.pc # "idle" => work.copy # NoNetwork
      /\ edits \in Nat /\ faults \in 0 .. MaxFaults /\ MaxFaults \in Nat
      /\ nad \in [Namespace -> NadType] /\ seen \in [Namespace -> NadType] /\ news \subseteq Namespace
  BY TypeFacts, Zenon
<1>2. /\ exists \subseteq Namespace /\ leftover \subseteq Namespace /\ queue \in BOOLEAN /\ unsaid \in BOOLEAN
      /\ \A ns \in Namespace \ news : seen[ns] = nad[ns]
      /\ work.pc \in {"follow", "note"} => This.state.follows
  BY Zenon DEF TypeOK
<1>3. ASSUME Fault
      PROVE  faults' \in 0 .. MaxFaults
  BY <1>1, <1>3 DEF Fault
<1>4. CASE observe
  <2>1. /\ UNCHANGED <<kind, cr, nad, seen, news, exists, work, leftover, unsaid, edits, faults>>
        /\ cache' = cr /\ queue' = TRUE
    BY <1>4, Zenon DEF observe
  <2>2. QED
    BY <1>1, <1>2, <2>1, StepType, Zenon
<1>5. CASE operatorRestarts
  <2>1. /\ UNCHANGED <<kind, cr, nad, exists, unsaid, edits>> /\ faults' \in 0 .. MaxFaults
        /\ cache' = cr /\ seen' = nad /\ news' = {} /\ work' = Idle
    BY <1>3, <1>5, Zenon DEF operatorRestarts
  <2>2. queue' \in BOOLEAN /\ leftover' \subseteq Namespace
    BY <1>2, <1>5, Zenon DEF operatorRestarts, Unnoted
  <2>3. work' \in WorkType /\ work'.pc = "idle" /\ CopyOK(work'.copy)
    BY <1>1, <2>1, IdleType, NoneType, Zenon DEF WorkType, CopyOK
  <2>4. QED
    BY <1>1, <1>2, <2>1, <2>2, <2>3, StepType, Zenon
<1>6. ASSUME NEW ns \in Namespace, observeNad(ns)
      PROVE  TypeOK'
  <2>1. /\ UNCHANGED <<kind, cr, cache, nad, exists, work, leftover, unsaid, edits, faults>>
        /\ news' = news \ {ns} /\ seen' = [seen EXCEPT ![ns] = nad[ns]] /\ queue' = TRUE
    BY <1>6, Zenon DEF observeNad
  <2>2. /\ seen' \in [Namespace -> NadType] /\ news' \subseteq Namespace
        /\ \A n \in Namespace \ news' : seen'[n] = nad'[n]
    BY <1>1, <1>2, <2>1, Zenon
  <2>3. QED
    BY <1>1, <1>2, <2>1, <2>2, StepType, Zenon
<1>7. ASSUME NEW ns \in Namespace, garbageCollected(ns) \/ deletedByHand(ns)
      PROVE  TypeOK'
  <2>1. /\ UNCHANGED <<kind, cr, cache, seen, exists, queue, work, leftover, unsaid, edits>>
        /\ faults' \in 0 .. MaxFaults /\ Put(ns, NoNad)
    BY <1>1, <1>3, <1>7, Zenon DEF garbageCollected, deletedByHand
  <2>2. /\ nad' \in [Namespace -> NadType] /\ news' \subseteq Namespace
        /\ \A n \in Namespace \ news' : seen'[n] = nad'[n]
    BY <1>1, <2>1, NoneType, PutType, Zenon
  <2>3. QED
    BY <1>1, <1>2, <2>1, <2>2, StepType, Zenon
<1>8. ASSUME NEW ns \in Namespace, namespaceCreated(ns)
      PROVE  TypeOK'
  <2>1. /\ UNCHANGED <<kind, cr, cache, seen, news, nad, queue, work, leftover, unsaid, edits, faults>>
        /\ exists' = exists \cup {ns}
    BY <1>8, Zenon DEF namespaceCreated, informers
  <2>2. QED
    BY <1>1, <1>2, <2>1, StepType, Zenon
<1>9. QED
  BY <1>4, <1>5, <1>6, <1>7, <1>8, Zenon

\* What the user does.
UserStep ==
  \/ userDeletes
  \/ \E ns \in Namespace \cup {""}, config \in Config : userCreates(ns, config) \/ userEdits(ns, config)

LEMMA EditNumbers ==
  ASSUME NEW e \in Nat
  PROVE  /\ e + 1 \in 1 .. e + 1 /\ e + 1 \in 0 .. e + 1 /\ e + 1 \notin 0 .. e
         /\ \A u \in 1 .. e + 1 : u \in 0 .. e + 1 /\ u # 0
         /\ \A u \in 0 .. e : u # 0 => u \in 1 .. e + 1
  OBVIOUS

LEMMA EditedType ==
  ASSUME edits \in Nat, cr \in NetworkType, NEW base \in NetworkType, NEW uid \in 1 .. edits + 1,
         NEW ns \in Namespace \cup {""}, NEW config \in Config, edits' = edits + 1,
         cr' = [uid |-> uid, gen |-> edits + 1, ns |-> ns, config |-> config, annot |-> base.annot,
                state |-> base.state, link |-> base.link]
  PROVE  CopyOK(cr)' /\ cr' # cr /\ cr'.gen = edits + 1 /\ cr'.uid = uid /\ cr'.annot = base.annot
<1>1. uid \in 0 .. edits' /\ edits + 1 \in 0 .. edits' /\ uid # 0
  BY EditNumbers, Zenon
<1>2. cr' \in NetworkType' /\ cr'.uid = uid /\ cr'.gen = edits + 1 /\ cr'.annot = base.annot
  BY <1>1, Zenon DEF NetworkType
<1>3. cr.gen # edits + 1
  <2>1. cr.gen \in 0 .. edits
    BY Zenon DEF NetworkType
  <2>2. QED
    BY <2>1, EditNumbers, Zenon
<1>4. QED
  BY <1>1, <1>2, <1>3, Zenon DEF CopyOK

\* The network that an edit leaves is new, and the generation says so.
LEMMA UserEffect ==
  ASSUME TypeOK, UserStep
  PROVE  /\ UNCHANGED <<kind, cache, seen, news, nad, exists, queue, work, unsaid, faults>>
         /\ edits < MaxEdits /\ edits' = edits + 1 /\ leftover' \in {leftover, {}}
         /\ CopyOK(cr)' /\ cr' # cr
         /\ \/ cr' = NoNetwork
            \/ cr'.gen = edits + 1 /\ cr # NoNetwork /\ cr'.uid = cr.uid /\ cr'.annot = cr.annot /\ leftover' = leftover
            \/ cr'.gen = edits + 1 /\ cr'.uid = edits + 1 /\ cr'.annot = "none"
<1>1. CopyOK(cr) /\ cr \in NetworkType /\ edits \in Nat
  BY TypeFacts, Zenon DEF CopyOK
<1>2. CASE userDeletes
  <2>1. /\ UNCHANGED <<kind, cache, seen, news, nad, exists, queue, work, unsaid, faults, leftover>>
        /\ edits < MaxEdits /\ edits' = edits + 1 /\ cr' = NoNetwork /\ cr # NoNetwork
    BY <1>2, Zenon DEF userDeletes, Edit, informers
  <2>2. CopyOK(NoNetwork)
    BY <1>1, NoneType, Zenon DEF CopyOK
  <2>3. CopyOK(NoNetwork)'
    BY <1>1, <2>1, <2>2, TypeGrows, Zenon DEF NoNetwork
  <2>4. QED
    BY <2>1, <2>3, Zenon DEF CopyOK
<1>3. ASSUME NEW ns \in Namespace \cup {""}, NEW config \in Config, userCreates(ns, config)
      PROVE  /\ UNCHANGED <<kind, cache, seen, news, nad, exists, queue, work, unsaid, faults>>
             /\ edits < MaxEdits /\ edits' = edits + 1 /\ leftover' \in {leftover, {}}
             /\ CopyOK(cr)' /\ cr' # cr /\ cr'.gen = edits + 1 /\ cr'.uid = edits + 1 /\ cr'.annot = "none"
  <2>1. cr' = [uid |-> edits + 1, gen |-> edits + 1, ns |-> ns, config |-> config, annot |-> NoNetwork.annot,
               state |-> NoNetwork.state, link |-> NoNetwork.link]
    BY <1>3, Zenon DEF userCreates, Edit, NoNetwork
  <2>2. /\ UNCHANGED <<kind, cache, seen, news, nad, exists, queue, work, unsaid, faults>>
        /\ edits < MaxEdits /\ edits' = edits + 1 /\ leftover' \in {leftover, {}}
    BY <1>3, Zenon DEF userCreates, Edit, informers
  <2>3. edits + 1 \in 1 .. edits + 1 /\ NoNetwork \in NetworkType
    BY <1>1, NoneType, EditNumbers, Zenon
  <2>4. NoNetwork.annot = "none"
    BY Zenon DEF NoNetwork
  <2>5. QED
    BY <1>1, <2>1, <2>2, <2>3, <2>4, EditedType, Zenon
<1>4. ASSUME NEW ns \in Namespace \cup {""}, NEW config \in Config, userEdits(ns, config)
      PROVE  /\ UNCHANGED <<kind, cache, seen, news, nad, exists, queue, work, unsaid, faults, leftover>>
             /\ edits < MaxEdits /\ edits' = edits + 1 /\ cr # NoNetwork
             /\ CopyOK(cr)' /\ cr' # cr /\ cr'.gen = edits + 1 /\ cr'.uid = cr.uid /\ cr'.annot = cr.annot
  <2>1. PICK c : c = cr
    BY Zenon
  <2>2. cr' = [uid |-> c.uid, gen |-> edits + 1, ns |-> ns, config |-> config, annot |-> c.annot,
               state |-> c.state, link |-> c.link]
    BY <1>1, <1>4, <2>1, Zenon DEF userEdits, Edit, NetworkType
  <2>3. /\ UNCHANGED <<kind, cache, seen, news, nad, exists, queue, work, unsaid, faults, leftover>>
        /\ edits < MaxEdits /\ edits' = edits + 1 /\ cr # NoNetwork
    BY <1>4, Zenon DEF userEdits, Edit, informers
  <2>4. c.uid \in 1 .. edits + 1
    <3>1. c.uid \in 0 .. edits /\ c.uid # 0
      BY <1>1, <2>1, <2>3, Zenon DEF CopyOK, NetworkType
    <3>2. QED
      BY <1>1, <3>1, EditNumbers, Zenon
  <2>5. QED
    BY <1>1, <2>1, <2>2, <2>3, <2>4, EditedType, Zenon
<1>5. QED
  BY <1>2, <1>3, <1>4, Zenon DEF UserStep

LEMMA UserType ==
  ASSUME TypeOK, UserStep
  PROVE  TypeOK'
<1>1. /\ UNCHANGED <<kind, cache, seen, news, nad, exists, queue, work, unsaid, faults>>
      /\ edits < MaxEdits /\ edits' = edits + 1 /\ leftover' \in {leftover, {}} /\ CopyOK(cr)'
  BY UserEffect, Zenon
<1>2. /\ CopyOK(cache) /\ CopyOK(work.copy) /\ work \in WorkType /\ edits \in Nat /\ MaxEdits \in Nat
      /\ nad \in [Namespace -> NadType] /\ seen \in [Namespace -> NadType]
  BY TypeFacts, Zenon
<1>3. /\ NetworkType \subseteq NetworkType' /\ NadType \subseteq NadType'
      /\ \A c : CopyOK(c) => CopyOK(c)'
  BY <1>1, <1>2, TypeGrows, Zenon
<1>4. CopyOK(cache)' /\ CopyOK(work.copy)'
  <2>1. PICK c, d : c = cache /\ d = work.copy
    BY Zenon
  <2>2. QED
    BY <1>1, <1>2, <1>3, <2>1, Zenon DEF CopyOK
<1>5. WorkType \subseteq WorkType'
  BY <1>3, Zenon DEF WorkType
<1>6. edits' \in 0 .. MaxEdits
  BY <1>1, <1>2
<1>7. nad' \in [Namespace -> NadType'] /\ seen' \in [Namespace -> NadType']
  BY <1>1, <1>2, <1>3, Zenon
<1>8. \A c \in {cr', cache', work'.copy} : c \in NetworkType' /\ (c.uid = 0 => c = NoNetwork)
  BY <1>1, <1>4, Zenon DEF CopyOK
<1>9. work' \in WorkType' /\ This' = This
  BY <1>1, <1>2, <1>5, Zenon DEF This
<1>10. QED
  BY <1>1, <1>6, <1>7, <1>8, <1>9, Zenon DEF TypeOK, WorkType

LEMMA NextSplit ==
  ASSUME [Next]_vars
  PROVE  \/ Reconcile \/ Step \/ callFails \/ statusUpdateFails
         \/ observe \/ operatorRestarts
         \/ \E ns \in Namespace : observeNad(ns) \/ garbageCollected(ns) \/ namespaceCreated(ns) \/ deletedByHand(ns)
         \/ UserStep
         \/ UNCHANGED vars
  BY Zenon DEF Next, UserStep

LEMMA TypeKept == TypeOK /\ [Next]_vars => TypeOK'
<1>1. SUFFICES ASSUME TypeOK, [Next]_vars PROVE TypeOK'
  BY Zenon
<1>2. CASE UNCHANGED vars
  <2>1. UNCHANGED <<kind, cr, cache, nad, seen, news, exists, queue, work, leftover, unsaid, edits, faults>>
    BY <1>2, Zenon DEF vars
  <2>2. This' = This /\ NetworkType' = NetworkType /\ NadType' = NadType
    BY <2>1, Zenon DEF This, NetworkType, NadType
  <2>3. QED
    BY <1>1, <2>1, <2>2, Zenon DEF TypeOK
<1>3. QED
  BY <1>1, <1>2, NextSplit, PassType, WorldType, UserType, Zenon

LEMMA InitType == Init => TypeOK
<1>1. SUFFICES ASSUME Init PROVE TypeOK
  BY Zenon
<1>2. /\ kind \in DOMAIN Kinds /\ cr = NoNetwork /\ cache = NoNetwork /\ work = Idle /\ edits = 0 /\ faults = 0
      /\ nad = [ns \in Namespace |-> NoNad] /\ seen = nad /\ news = {} /\ exists \subseteq Namespace
      /\ queue = FALSE /\ unsaid = FALSE /\ leftover = {}
  BY <1>1, Zenon DEF Init
<1>3. edits \in Nat /\ edits \in 0 .. MaxEdits /\ faults \in 0 .. MaxFaults
  <2>1. MaxEdits \in Nat /\ MaxFaults \in Nat
    BY NetworkAssumption, Zenon
  <2>2. QED
    BY <1>2, <2>1
<1>4. nad \in [Namespace -> NadType] /\ work \in WorkType /\ work.pc = "idle" /\ work.copy = NoNetwork
  BY <1>2, <1>3, NoneType, IdleType, Zenon DEF WorkType
<1>5. NoNetwork \in NetworkType
  BY <1>3, NoneType, Zenon
<1>6. QED
  BY <1>2, <1>3, <1>4, <1>5, Zenon DEF TypeOK, WorkType

\* Every reachable state is well typed: the annotation and the link of the
\* network only ever name real namespaces, and what the informer shows of a
\* NAD is out of date only while an event is due.
THEOREM TypeCorrect == Spec => []TypeOK
  BY InitType, TypeKept, PTL DEF Spec

-----------------------------------------------------------------------------
(***************************************************************************)
(* What a step does, as far as the invariants below need to know.           *)
(***************************************************************************)

\* A pass goes on, or is about to report that it failed.
Advance ==
  /\ work.pc \notin {"idle", "report"} /\ work'.copy = work.copy
  /\ UNCHANGED <<kind, cr, cache, seen, exists, queue, unsaid, edits>>
  /\ \/ work.pc = "follow" /\ work'.pc = "apply" /\ Follow /\ UNCHANGED leftover
     \/ /\ work.pc = "apply" /\ work'.pc = "check" /\ NadNamespace(work.copy) \in exists
        /\ Put(NadNamespace(work.copy), getManifestObjects(work.copy)) /\ UNCHANGED leftover
     \/ /\ work.pc = "check" /\ work'.pc = IF This.state.follows THEN "note" ELSE "get"
        /\ UNCHANGED <<nad, news, leftover>>
     \/ /\ work.pc = "note" /\ work'.pc = "get" /\ work.copy.annot # "none" /\ ~HasMoved(work.copy)
        /\ UNCHANGED <<nad, news, leftover>>
     \/ /\ work.pc = "get" /\ work'.pc = "report" /\ UNCHANGED <<nad, news, leftover>>
     \/ /\ work'.pc = "report" /\ work'.result # "ready" /\ UNCHANGED <<nad, news>> /\ leftover \subseteq leftover'
        /\ \A ns \in Namespace : work.pc \in {"check", "note"} /\ ns = NadNamespace(work.copy)
                                 => ns \in leftover' \/ ns = work.copy.annot

\* The namespace of the NAD is noted.
Notes ==
  /\ work.pc = "note" /\ (work.copy.annot = "none" \/ HasMoved(work.copy))
  /\ cr = work.copy /\ cr' = Noted(work.copy) /\ work'.pc = "get" /\ work'.copy = cr'
  /\ UNCHANGED <<kind, cache, seen, news, nad, exists, queue, leftover, unsaid, edits>>

\* A pass ends; it asks for no other one only if its result was ready.
Ends ==
  /\ work.pc = "report" /\ work' = Idle
  /\ UNCHANGED <<kind, cache, seen, news, nad, exists, leftover, edits>>
  /\ ~queue' => ~queue /\ work.result = "ready"
  /\ \/ cr = work.copy /\ cr' = Report(work)
     \/ cr # work.copy /\ cr' = cr
     \/ cr' = cr /\ unsaid'

LEMMA StepWork ==
  ASSUME TypeOK, Step \/ callFails
  PROVE  Advance \/ Notes \/ Ends
<1>1. work \in WorkType
  BY TypeFacts, Zenon
<1>2. ASSUME NEW pc, work' = [work EXCEPT !.pc = pc] PROVE work'.pc = pc /\ work'.copy = work.copy
  BY <1>1, <1>2, Zenon DEF WorkType
<1>3. ASSUME NEW pc, NEW r, work' = [work EXCEPT !.pc = pc, !.result = r]
      PROVE  work'.pc = pc /\ work'.copy = work.copy /\ work'.result = r
  BY <1>1, <1>3, Zenon DEF WorkType
<1>4. CASE handleNamespaceChange
  <2>1. work'.pc = "apply" /\ work'.copy = work.copy
    BY <1>2, <1>4, Zenon DEF handleNamespaceChange
  <2>2. QED
    BY <1>4, <2>1, Zenon DEF handleNamespaceChange, Advance
<1>5. CASE createOrUpdateObjs
  <2>1. CASE NadNamespace(work.copy) \in exists
    <3>1. work'.pc = "check" /\ work'.copy = work.copy
      BY <1>2, <1>5, <2>1, Zenon DEF createOrUpdateObjs
    <3>2. QED
      BY <1>5, <2>1, <3>1, Zenon DEF createOrUpdateObjs, Advance
  <2>2. CASE NadNamespace(work.copy) \notin exists
    <3>1. work'.pc = "report" /\ work'.copy = work.copy /\ work'.result = "notReady"
      BY <1>3, <1>5, <2>2, Zenon DEF createOrUpdateObjs, Return
    <3>2. QED
      BY <1>5, <2>2, <3>1, Zenon DEF createOrUpdateObjs, Advance
  <2>3. QED
    BY <2>1, <2>2, Zenon
<1>6. CASE getSyncState
  <2>1. PICK pc, r : pc = (IF This.state.follows THEN "note" ELSE "get") /\ work' = [work EXCEPT !.pc = pc, !.result = r]
    BY <1>6, Zenon DEF getSyncState
  <2>2. work'.pc = pc /\ work'.copy = work.copy
    BY <1>3, <2>1, Zenon
  <2>3. QED
    BY <1>6, <2>1, <2>2, Zenon DEF getSyncState, Advance, informers
<1>7. CASE updateNetAttDefNamespace
  <2>1. work.pc = "note" /\ UNCHANGED <<kind, cache, seen, news, nad, exists, queue, unsaid, edits>>
    BY <1>7, Zenon DEF updateNetAttDefNamespace, informers
  <2>2. CASE /\ ~(work.copy.annot = "none" \/ HasMoved(work.copy)) /\ work' = [work EXCEPT !.pc = "get"]
             /\ UNCHANGED <<cr, leftover>>
    BY <1>2, <2>1, <2>2, Zenon DEF Advance
  <2>3. CASE /\ work.copy.annot = "none" \/ HasMoved(work.copy)
             /\ cr = work.copy /\ cr' = Noted(work.copy) /\ UNCHANGED leftover
             /\ work' = [work EXCEPT !.pc = "get", !.copy = Noted(work.copy)]
    <3>1. PICK c : c = Noted(work.copy)
      BY Zenon
    <3>2. work'.pc = "get" /\ work'.copy = c
      BY <1>1, <2>3, <3>1, Zenon DEF WorkType
    <3>3. QED
      BY <2>1, <2>3, <3>1, <3>2, Zenon DEF Notes
  <2>4. CASE /\ leftover' = leftover \cup {NadNamespace(work.copy)} /\ Return("error") /\ UNCHANGED cr
    <3>1. work'.pc = "report" /\ work'.copy = work.copy /\ work'.result = "error"
      BY <1>3, <2>4, Zenon DEF Return
    <3>2. QED
      BY <2>1, <2>4, <3>1, Zenon DEF Advance
  <2>5. QED
    BY <1>7, <2>2, <2>3, <2>4, Zenon DEF updateNetAttDefNamespace
<1>8. CASE getObj
  <2>1. work'.pc = "report" /\ work'.copy = work.copy
    BY <1>2, <1>3, <1>8, Zenon DEF getObj, Return
  <2>2. QED
    BY <1>8, <2>1, Zenon DEF getObj, Advance, informers
<1>9. CASE updateCrStatus
  BY <1>9, Zenon DEF updateCrStatus, Ends, Again, informers
<1>10. CASE callFails
  <2>1. PICK r : r = IF work.pc \in {"apply", "check"} THEN "notReady" ELSE "error"
    BY Zenon
  <2>2. work'.pc = "report" /\ work'.copy = work.copy /\ work'.result # "ready"
    <3>1. work' = [work EXCEPT !.pc = "report", !.result = r]
      BY <1>10, <2>1, Zenon DEF callFails, Return
    <3>2. r # "ready"
      BY <2>1, Zenon
    <3>3. QED
      BY <1>3, <3>1, <3>2, Zenon
  <2>3. /\ leftover \subseteq leftover'
        /\ \A ns \in Namespace : work.pc \in {"check", "note"} /\ ns = NadNamespace(work.copy)
                                 => ns \in leftover' \/ ns = work.copy.annot
    BY <1>10, Zenon DEF callFails, Unnoted
  <2>4. QED
    BY <1>10, <2>2, <2>3, Zenon DEF callFails, Advance, informers
<1>11. QED
  BY <1>4, <1>5, <1>6, <1>7, <1>8, <1>9, <1>10, Zenon DEF Step

\* Apart from its namespace in the annotation, and its state and link in the
\* status, no pass changes the network.
LEMMA ReportKeeps ==
  ASSUME TypeOK, work.pc # "idle"
  PROVE  LET c == work.copy
             d == Report(work)
         IN  /\ d.uid = c.uid /\ d.gen = c.gen /\ d.ns = c.ns /\ d.config = c.config /\ d.annot = c.annot
             /\ work.result = "ready" => d.state = "ready" /\ (Found(work) => d.link = c.ns)
<1>1. PICK c : c = work.copy
  BY Zenon
<1>2. c \in NetworkType /\ This.reconciler.summary \in BOOLEAN
  BY <1>1, TypeFacts, ThisType, Zenon DEF CopyOK
<1>3. PICK st : st = IF This.reconciler.summary THEN (IF work.result = "ready" THEN "ready" ELSE "notReady") ELSE work.result
  BY Zenon
<1>4. PICK link : link = IF work.result = "ready" /\ Found(work) THEN c.ns ELSE c.link
  BY Zenon
<1>5. Report(work) = [c EXCEPT !.state = st, !.link = link]
  BY <1>1, <1>3, <1>4, Zenon DEF Report
<1>6. Report(work) = [uid |-> c.uid, gen |-> c.gen, ns |-> c.ns, config |-> c.config, annot |-> c.annot,
                      state |-> st, link |-> link]
  BY <1>2, <1>5, Zenon DEF NetworkType
<1>7. work.result = "ready" => st = "ready" /\ (Found(work) => link = c.ns)
  BY <1>2, <1>3, <1>4, Zenon
<1>8. QED
  BY <1>1, <1>6, <1>7

LEMMA NotedKeeps ==
  ASSUME kind \in DOMAIN Kinds, NEW c \in NetworkType
  PROVE  /\ Noted(c).uid = c.uid /\ Noted(c).ns = c.ns /\ Noted(c).config = c.config
         /\ Noted(c).annot = NadNamespace(c) /\ NadNamespace(Noted(c)) = NadNamespace(c)
         /\ getManifestObjects(Noted(c)) = getManifestObjects(c)
<1>1. PICK ns : ns = NadNamespace(c)
  BY Zenon
<1>2. Noted(c) = [c EXCEPT !.annot = ns]
  BY <1>1, Zenon DEF Noted
<1>3. Noted(c).uid = c.uid /\ Noted(c).ns = c.ns /\ Noted(c).config = c.config /\ Noted(c).annot = ns
  BY <1>2, Zenon DEF NetworkType
<1>4. QED
  BY <1>1, <1>3, Zenon DEF NadNamespace, getManifestObjects

\* The other steps.
Starts ==
  /\ work.pc = "idle" /\ UNCHANGED <<kind, cr, cache, seen, news, nad, exists, leftover, unsaid, edits>>
  /\ \/ work' = Idle /\ cache = NoNetwork
     \/ /\ work'.pc \in {"follow", "apply"} /\ (This.state.follows => work'.pc = "follow")
        /\ work'.copy = cache

Restarts ==
  /\ work' = Idle /\ cache' = cr /\ seen' = nad /\ news' = {} /\ queue' = (cr # NoNetwork)
  /\ leftover' = Unnoted /\ UNCHANGED <<kind, cr, nad, exists, unsaid, edits>>

Removes(ns) ==
  Put(ns, NoNad) /\ UNCHANGED <<kind, cr, cache, seen, exists, queue, work, leftover, unsaid, edits>>

LEMMA StepKinds ==
  ASSUME TypeOK, [Next]_vars
  PROVE  \/ Advance \/ Notes \/ Ends \/ Starts \/ Restarts \/ observe \/ UserStep
         \/ \E ns \in Namespace : observeNad(ns) \/ Removes(ns) \/ namespaceCreated(ns)
         \/ UNCHANGED vars
<1>1. CASE Step \/ callFails
  BY <1>1, StepWork, Zenon
<1>2. CASE statusUpdateFails
  BY <1>2, Zenon DEF statusUpdateFails, Ends, Again, informers
<1>3. CASE Reconcile
  <2>1. UNCHANGED <<kind, cr, cache, seen, news, nad, exists, leftover, unsaid, edits>> /\ work.pc = "idle"
    BY <1>3, Zenon DEF Reconcile, informers
  <2>2. CASE cache = NoNetwork
    BY <1>3, <2>1, <2>2, Zenon DEF Reconcile, Starts
  <2>3. CASE cache # NoNetwork
    <3>1. PICK pc : pc = IF This.state.follows THEN "follow" ELSE "apply"
      BY Zenon
    <3>2. work' = [Idle EXCEPT !.pc = pc, !.copy = cache]
      BY <1>3, <2>3, <3>1, Zenon DEF Reconcile
    <3>3. /\ work'.pc = pc /\ work'.copy = cache /\ pc \in {"follow", "apply"}
          /\ This.state.follows => pc = "follow"
      BY <3>1, <3>2, Zenon DEF Idle
    <3>4. QED
      BY <2>1, <3>3, Zenon DEF Starts
  <2>4. QED
    BY <2>2, <2>3, Zenon
<1>4. CASE operatorRestarts
  BY <1>4, Zenon DEF operatorRestarts, Restarts
<1>5. ASSUME NEW ns \in Namespace, garbageCollected(ns) \/ deletedByHand(ns)
      PROVE  Removes(ns)
  BY <1>5, Zenon DEF garbageCollected, deletedByHand, Removes
<1>6. QED
  BY <1>1, <1>2, <1>3, <1>4, <1>5, NextSplit, Zenon

-----------------------------------------------------------------------------
(***************************************************************************)
(* The network is deployed.                                                 *)
(***************************************************************************)

\* The pass has noted the namespace of the NAD, which the cache does not show.
Behind ==
  /\ work.pc \in {"get", "report"} /\ cache # NoNetwork
  /\ work.copy.annot # cache.annot /\ cr # cache

\* A pass works from what the cache shows, or another one will follow.
CacheInv ==
  work.pc # "idle" => cache = work.copy \/ Behind \/ (queue /\ cr # work.copy)

\* A NAD that the pass wrote is there, or another pass will follow.
Written(c) ==
  /\ NadNamespace(c) \in exists
  /\ nad[NadNamespace(c)] = getManifestObjects(c) \/ NadNamespace(c) \in news \/ queue

Done == work.pc = "get" \/ (work.pc = "report" /\ work.result = "ready")

WrittenInv ==
  /\ work.pc \in {"check", "note"} \/ Done => Written(work.copy)
  /\ Done /\ This.state.follows => work.copy.annot = NadNamespace(work.copy)

\* What the last pass left.
Outcome ==
  ~queue /\ work.pc = "idle" /\ cache = cr /\ cr # NoNetwork =>
    /\ Written(cr)
    /\ unsaid \/ (cr.state = "ready" /\ (cr.ns # "" => cr.link = cr.ns \/ cr.ns \in news))
    /\ This.state.follows => cr.annot = NadNamespace(cr)

DeployInv == TypeOK /\ CacheInv /\ WrittenInv /\ Outcome

LEMMA CacheKept ==
  ASSUME TypeOK, CacheInv, [Next]_vars
  PROVE  CacheInv'
<1>0. work \in WorkType /\ CopyOK(cr) /\ CopyOK(cache) /\ CopyOK(work.copy) /\ kind \in DOMAIN Kinds /\ edits \in Nat
      /\ (work.pc # "idle" => work.copy # NoNetwork)
  BY TypeFacts, Zenon
<1>1. ASSUME work' = Idle PROVE CacheInv'
  BY <1>1, Zenon DEF Idle, CacheInv
<1>2. CASE Advance
  <2>1. /\ work.pc \notin {"idle", "report"} /\ work'.copy = work.copy /\ UNCHANGED <<cr, cache, queue>>
        /\ work.pc = "get" => work'.pc = "report"
    BY <1>2, Zenon DEF Advance
  <2>2. QED
    BY <2>1, Zenon DEF CacheInv, Behind
<1>3. CASE Notes
  <2>1. PICK c : c = work.copy
    BY Zenon
  <2>2. /\ c \in NetworkType /\ c # NoNetwork /\ NadNamespace(c) \in Namespace
    BY <1>0, <1>3, <2>1, NadNamespaceType, Zenon DEF CopyOK, Notes, TypeOK
  <2>3. cache = c /\ cache' = cache
    BY <1>3, <2>1, Zenon DEF CacheInv, Behind, Notes
  <2>4. cr'.annot = NadNamespace(c) /\ NadNamespace(c) # c.annot
    BY <1>0, <1>3, <2>1, <2>2, NotedKeeps, NetworkAssumption, Zenon DEF Notes, HasMoved
  <2>5. work'.pc = "get" /\ work'.copy = cr'
    BY <1>3, Zenon DEF Notes
  <2>6. QED
    BY <2>2, <2>3, <2>4, <2>5, Zenon DEF CacheInv, Behind
<1>4. CASE Starts
  BY <1>1, <1>4, Zenon DEF Starts, CacheInv
<1>5. CASE observe
  BY <1>5, Zenon DEF observe, CacheInv
<1>6. CASE UserStep
  <2>1. UNCHANGED <<cache, queue, work>> /\ (cr' = NoNetwork \/ cr'.gen = edits + 1)
    BY <1>6, UserEffect, Zenon
  <2>2. cache.gen # edits + 1 /\ work.copy.gen # edits + 1
    <3>1. cache.gen \in 0 .. edits /\ work.copy.gen \in 0 .. edits
      BY <1>0, Zenon DEF CopyOK, NetworkType
    <3>2. QED
      BY <1>0, <3>1, EditNumbers, Zenon
  <2>3. work.pc # "idle" => cr' # work.copy
    BY <1>0, <2>1, <2>2, Zenon
  <2>4. cache # NoNetwork => cr' # cache
    BY <2>1, <2>2, Zenon
  <2>5. QED
    BY <2>1, <2>3, <2>4, Zenon DEF CacheInv, Behind
<1>7. ASSUME UNCHANGED <<cr, cache, work>>, queue => queue' PROVE CacheInv'
  BY <1>7, Zenon DEF CacheInv, Behind
<1>8. CASE \E ns \in Namespace : observeNad(ns) \/ Removes(ns) \/ namespaceCreated(ns)
  BY <1>7, <1>8 DEF observeNad, Removes, namespaceCreated, informers
<1>9. CASE Ends \/ Restarts
  BY <1>1, <1>9, Zenon DEF Ends, Restarts
<1>10. CASE UNCHANGED vars
  BY <1>7, <1>10, Zenon DEF vars
<1>11. QED
  BY <1>2, <1>3, <1>4, <1>5, <1>6, <1>8, <1>9, <1>10, StepKinds, Zenon

\* A NAD that has been written stays, or its change is noticed.
LEMMA WrittenStays ==
  ASSUME TypeOK, NEW c, Written(c), UNCHANGED kind, exists \subseteq exists',
         \/ queue'
         \/ ~queue /\ news \subseteq news' /\ \A n \in Namespace : nad'[n] = nad[n] \/ n \in news'
  PROVE  Written(c)'
<1>1. NadNamespace(c)' = NadNamespace(c) /\ getManifestObjects(c)' = getManifestObjects(c)
  BY RenderKept, Zenon DEF getManifestObjects
<1>2. exists \subseteq Namespace
  BY Zenon DEF TypeOK
<1>3. QED
  BY <1>1, <1>2, Zenon DEF Written

\* Which steps of the pass, the caches and the cluster the lemma covers.
LEMMA WrittenFrame ==
  ASSUME TypeOK, [Next]_vars, ~Starts, ~Restarts, ~Ends,
         ~(work.pc = "apply" /\ work'.pc = "check"), ~(work.pc = "follow" /\ work'.pc = "apply")
  PROVE  /\ UNCHANGED kind /\ exists \subseteq exists'
         /\ \/ queue'
            \/ ~queue /\ news \subseteq news' /\ \A n \in Namespace : nad'[n] = nad[n] \/ n \in news'
<1>0. queue \in BOOLEAN /\ NoNad \in NadType
  BY TypeFacts, NoneType, Zenon DEF TypeOK
<1>1. UNCHANGED kind
  BY KindKept, Zenon
<1>2. CASE Advance
  BY <1>0, <1>1, <1>2, Zenon DEF Advance
<1>3. CASE Notes
  BY <1>0, <1>1, <1>3, Zenon DEF Notes
<1>4. CASE observe
  BY <1>1, <1>4, Zenon DEF observe
<1>5. CASE UserStep
  BY <1>0, <1>5, UserEffect, Zenon
<1>6. ASSUME NEW ns \in Namespace, observeNad(ns) \/ namespaceCreated(ns)
      PROVE  /\ exists \subseteq exists'
             /\ queue' \/ (~queue /\ news \subseteq news' /\ \A n \in Namespace : nad'[n] = nad[n] \/ n \in news')
  BY <1>0, <1>6, Zenon DEF observeNad, namespaceCreated, informers
<1>7. ASSUME NEW ns \in Namespace, Removes(ns)
      PROVE  /\ exists \subseteq exists'
             /\ queue' \/ (~queue /\ news \subseteq news' /\ \A n \in Namespace : nad'[n] = nad[n] \/ n \in news')
  <2>1. news \subseteq news' /\ \A n \in Namespace : nad'[n] # nad[n] => n \in news'
    BY <1>0, <1>7, PutType, Zenon DEF Removes
  <2>2. QED
    BY <1>0, <1>7, <2>1, Zenon DEF Removes
<1>8. CASE UNCHANGED vars
  BY <1>0, <1>8, Zenon DEF vars
<1>9. QED
  BY <1>1, <1>2, <1>3, <1>4, <1>5, <1>6, <1>7, <1>8, StepKinds, Zenon

LEMMA WrittenKept ==
  ASSUME TypeOK, WrittenInv, [Next]_vars
  PROVE  WrittenInv'
<1>0. /\ work \in WorkType /\ CopyOK(work.copy) /\ kind \in DOMAIN Kinds /\ kind' = kind /\ exists \subseteq Namespace
      /\ This' = This /\ edits \in Nat
  BY TypeFacts, KindKept, Zenon DEF TypeOK, This
<1>1. PICK c : c = work.copy
  BY Zenon
<1>2. c \in NetworkType /\ NadNamespace(c)' = NadNamespace(c)
  BY <1>0, <1>1, RenderKept, Zenon DEF CopyOK
<1>3. ASSUME work' = Idle PROVE WrittenInv'
  BY <1>3, Zenon DEF Idle, WrittenInv, Done
<1>4. CASE Starts \/ Restarts \/ Ends
  <2>1. CASE work' = Idle
    BY <1>3, <2>1, Zenon
  <2>2. CASE work'.pc \in {"follow", "apply"}
    BY <2>2, Zenon DEF WrittenInv, Done
  <2>3. QED
    BY <1>4, <2>1, <2>2, Zenon DEF Starts, Restarts, Ends
<1>5. CASE work.pc = "follow" /\ work'.pc = "apply"
  BY <1>5, Zenon DEF WrittenInv, Done
<1>6. CASE Advance /\ work.pc = "apply" /\ work'.pc = "check"
  <2>1. /\ NadNamespace(c) \in exists /\ Put(NadNamespace(c), getManifestObjects(c)) /\ UNCHANGED <<exists, seen>>
        /\ work'.copy = c
    BY <1>1, <1>6, Zenon DEF Advance
  <2>2. nad \in [Namespace -> NadType] /\ NadNamespace(c) \in Namespace
    BY <1>0, <2>1, TypeFacts, Zenon
  <2>3. nad'[NadNamespace(c)] = getManifestObjects(c)
    BY <2>1, <2>2, Zenon DEF Put
  <2>4. Written(c)'
    BY <1>2, <2>1, <2>3, Zenon DEF Written, getManifestObjects
  <2>5. Written(work.copy)'
    BY <2>1, <2>4, Zenon DEF Written, NadNamespace, getManifestObjects, This
  <2>6. QED
    BY <1>6, <2>5, Zenon DEF WrittenInv, Done
<1>7. CASE ~Starts /\ ~Restarts /\ ~Ends /\ ~(work.pc = "apply" /\ work'.pc = "check") /\ ~(work.pc = "follow" /\ work'.pc = "apply")
  <2>1. \A d : Written(d) => Written(d)'
    BY <1>7, WrittenFrame, WrittenStays, Zenon
  <2>2. CASE Advance
    <3>0. /\ work'.copy = c
          /\ \/ work.pc = "check" /\ work'.pc = "note"
             \/ work.pc = "check" /\ work'.pc = "get" /\ ~This.state.follows
             \/ work.pc = "note" /\ work'.pc = "get" /\ c.annot # "none" /\ ~HasMoved(c)
             \/ work.pc = "get" /\ work'.pc = "report"
             \/ work'.pc = "report" /\ work'.result # "ready"
      BY <1>1, <1>7, <2>2, Zenon DEF Advance
    <3>1. Done' <=> work'.pc = "get" \/ (work'.pc = "report" /\ work'.result = "ready")
      BY Zenon DEF Done
    <3>2. work'.pc \in {"check", "note"} \/ Done' => work.pc \in {"check", "note", "get"}
      BY <3>0, <3>1, Zenon
    <3>3. Done' /\ This.state.follows => work.pc = "get" \/ (work.pc = "note" /\ c.annot # "none" /\ ~HasMoved(c))
      BY <3>0, <3>1, Zenon
    <3>4. work'.pc \in {"check", "note"} \/ Done' => Written(c)'
      BY <1>1, <2>1, <3>2, Zenon DEF WrittenInv, Done
    <3>5. Written(c)' => Written(work.copy)'
      BY <3>0, Zenon DEF Written, NadNamespace, getManifestObjects, This
    <3>6. Done' /\ This.state.follows => c.annot = NadNamespace(c)
      BY <1>1, <3>3, Zenon DEF WrittenInv, Done, HasMoved
    <3>7. NadNamespace(work.copy)' = NadNamespace(c)
      BY <1>0, <3>0, Zenon DEF NadNamespace
    <3>8. QED
      BY <1>0, <3>0, <3>4, <3>5, <3>6, <3>7, Zenon DEF WrittenInv
  <2>3. CASE Notes
    <3>1. /\ work'.copy = Noted(c) /\ work.pc = "note" /\ work'.pc = "get"
      BY <1>1, <2>3, Zenon DEF Notes
    <3>2. PICK d : d = Noted(c)
      BY Zenon
    <3>3. NadNamespace(d) = NadNamespace(c) /\ getManifestObjects(d) = getManifestObjects(c) /\ d.annot = NadNamespace(c)
      BY <1>0, <1>2, <3>2, NotedKeeps, Zenon
    <3>4. Written(d)
      BY <1>1, <3>1, <3>3, Zenon DEF WrittenInv, Written
    <3>5. Written(work.copy)' /\ NadNamespace(work.copy)' = NadNamespace(d)
      BY <1>0, <2>1, <3>1, <3>2, <3>4, Zenon DEF Written, NadNamespace, getManifestObjects, This
    <3>6. QED
      BY <3>1, <3>2, <3>3, <3>5, Zenon DEF WrittenInv
  <2>4. CASE UNCHANGED work
    <3>1. Written(c)' => Written(work.copy)'
      BY <1>1, <2>4, Zenon DEF Written, NadNamespace, getManifestObjects, This
    <3>2. NadNamespace(work.copy)' = NadNamespace(c) /\ Done' = Done
      BY <1>0, <1>1, <2>4, Zenon DEF NadNamespace, Done
    <3>3. QED
      BY <1>0, <1>1, <2>1, <2>4, <3>1, <3>2, Zenon DEF WrittenInv
  <2>5. observe \/ UserStep \/ (\E ns \in Namespace : observeNad(ns) \/ Removes(ns) \/ namespaceCreated(ns)) \/ UNCHANGED vars
        => UNCHANGED work
    BY UserEffect, Zenon DEF observe, observeNad, Removes, namespaceCreated, vars
  <2>6. QED
    BY <1>7, <2>2, <2>3, <2>4, <2>5, StepKinds, Zenon
<1>8. work.pc = "apply" /\ work'.pc = "check" => Advance
  <2>1. work.pc # work'.pc => ~(UNCHANGED work)
    BY Zenon
  <2>2. observe \/ UserStep \/ (\E ns \in Namespace : observeNad(ns) \/ Removes(ns) \/ namespaceCreated(ns)) \/ UNCHANGED vars
        => UNCHANGED work
    BY UserEffect, Zenon DEF observe, observeNad, Removes, namespaceCreated, vars
  <2>3. Starts \/ Restarts \/ Ends \/ Notes => ~(work.pc = "apply" /\ work'.pc = "check")
    <3>1. Idle.pc = "idle"
      BY Zenon DEF Idle
    <3>2. QED
      BY <3>1, Zenon DEF Starts, Restarts, Ends, Notes
  <2>4. QED
    BY <2>2, <2>3, StepKinds, Zenon
<1>9. QED
  BY <1>4, <1>5, <1>6, <1>7, <1>8, Zenon

LEMMA EndOutcome ==
  ASSUME TypeOK, CacheInv, WrittenInv, Ends, ~queue', cache' = cr'
  PROVE  /\ Written(cr)'
         /\ unsaid' \/ (cr'.state = "ready" /\ (cr'.ns # "" => cr'.link = cr'.ns \/ cr'.ns \in news'))
         /\ This.state.follows => cr'.annot = NadNamespace(cr')
<1>0. /\ CopyOK(work.copy) /\ kind \in DOMAIN Kinds /\ seen \in [Namespace -> NadType] /\ nad \in [Namespace -> NadType]
      /\ work.pc # "idle" => work.copy # NoNetwork
  BY TypeFacts, Zenon
<1>1. PICK c : c = work.copy
  BY Zenon
<1>2. /\ work.pc = "report" /\ work.result = "ready" /\ ~queue
      /\ UNCHANGED <<kind, cache, seen, news, nad, exists>>
  BY Zenon DEF Ends
<1>3. c \in NetworkType /\ c.uid # 0
  BY <1>0, <1>1, <1>2, Zenon DEF CopyOK
<1>4. Written(c) /\ (This.state.follows => c.annot = NadNamespace(c))
  BY <1>1, <1>2, Zenon DEF WrittenInv, Done
<1>5. cache = c \/ (c.annot # cache.annot /\ cr # cache)
  BY <1>1, <1>2, Zenon DEF CacheInv, Behind
<1>6. PICK d : d = cr'
  BY Zenon
<1>7. ASSUME d.uid = c.uid, d.ns = c.ns, d.config = c.config, d.annot = c.annot
      PROVE  Written(cr)' /\ (This.state.follows => cr'.annot = NadNamespace(cr'))
  <2>1. NadNamespace(d) = NadNamespace(c) /\ getManifestObjects(d) = getManifestObjects(c)
    BY <1>7, Zenon DEF NadNamespace, getManifestObjects
  <2>2. Written(d)
    BY <1>4, <2>1, Zenon DEF Written
  <2>3. Written(cr)'
    BY <1>2, <1>6, <2>2, Zenon DEF Written, NadNamespace, getManifestObjects, This
  <2>4. QED
    BY <1>4, <1>6, <1>7, <2>1, <2>3, Zenon
<1>8. CASE cr = work.copy /\ cr' = Report(work)
  <2>1. /\ d.uid = c.uid /\ d.ns = c.ns /\ d.config = c.config /\ d.annot = c.annot
        /\ d.state = "ready" /\ (Found(work) => d.link = c.ns)
    BY <1>1, <1>2, <1>6, <1>8, ReportKeeps, Zenon
  <2>2. c.ns # "" => Found(work) \/ c.ns \in news
    <3>1. SUFFICES ASSUME c.ns # "", ~Found(work), c.ns \notin news PROVE FALSE
      BY Zenon
    <3>2. c.ns \in Namespace /\ NadNamespace(c) = c.ns
      BY <1>0, <1>3, <3>1, NadNamespaceType, Zenon DEF NetworkType
    <3>3. seen[c.ns] = NoNad /\ seen[c.ns] = nad[c.ns]
      BY <1>1, <3>1, <3>2, Zenon DEF Found, TypeOK
    <3>4. nad[c.ns] = getManifestObjects(c)
      BY <1>2, <1>4, <3>1, <3>2, Zenon DEF Written
    <3>5. getManifestObjects(c).uid = c.uid /\ NoNad.uid = 0
      BY Zenon DEF getManifestObjects, NoNad
    <3>6. QED
      BY <1>3, <3>3, <3>4, <3>5, Zenon
  <2>3. QED
    BY <1>2, <1>6, <1>7, <2>1, <2>2, Zenon
<1>9. CASE cr # work.copy /\ cr' = cr
  BY <1>1, <1>2, <1>5, <1>9, Zenon
<1>10. CASE cr' = cr /\ unsaid'
  <2>1. d = c
    BY <1>2, <1>5, <1>6, <1>10, Zenon
  <2>2. QED
    BY <1>7, <1>10, <2>1, Zenon
<1>11. QED
  BY <1>8, <1>9, <1>10, Zenon DEF Ends

LEMMA OutcomeKept ==
  ASSUME TypeOK, CacheInv, WrittenInv, Outcome, [Next]_vars
  PROVE  Outcome'
<1>0. /\ CopyOK(cache) /\ kind' = kind /\ edits \in Nat /\ This' = This
  BY TypeFacts, KindKept, Zenon DEF This
<1>1. SUFFICES ASSUME ~queue', work'.pc = "idle", cache' = cr', cr' # NoNetwork
               PROVE  /\ Written(cr)'
                      /\ unsaid' \/ (cr'.state = "ready" /\ (cr'.ns # "" => cr'.link = cr'.ns \/ cr'.ns \in news'))
                      /\ This.state.follows => cr'.annot = NadNamespace(cr)'
  BY <1>0, Zenon DEF Outcome
<1>2. CASE Ends
  <2>1. NadNamespace(cr)' = NadNamespace(cr')
    BY <1>0, Zenon DEF NadNamespace
  <2>2. QED
    BY <1>1, <1>2, <2>1, EndOutcome, Zenon
<1>3. CASE Advance \/ Notes
  BY <1>1, <1>3, Zenon DEF Advance, Notes
<1>4. CASE Starts \/ Restarts
  <2>1. Starts => cache # NoNetwork /\ work'.pc # "idle"
    BY <1>1, <1>4, Zenon DEF Starts
  <2>2. Restarts => queue'
    BY <1>1, Zenon DEF Restarts
  <2>3. QED
    BY <1>1, <1>4, <2>1, <2>2, Zenon
<1>5. CASE UserStep
  <2>1. cache' = cache /\ cr'.gen = edits + 1
    BY <1>1, <1>5, UserEffect, Zenon
  <2>2. cache.gen \in 0 .. edits
    BY <1>0, Zenon DEF CopyOK, NetworkType
  <2>3. cache.gen # edits + 1
    BY <1>0, <2>2, EditNumbers, Zenon
  <2>4. QED
    BY <1>1, <2>1, <2>3, Zenon
<1>6. CASE observe \/ \E ns \in Namespace : observeNad(ns)
  BY <1>1, <1>6, Zenon DEF observe, observeNad
<1>7. CASE (\E ns \in Namespace : Removes(ns) \/ namespaceCreated(ns)) \/ UNCHANGED vars
  <2>1. PICK c : c = cr
    BY Zenon
  <2>2. UNCHANGED <<cr, cache, queue, work, unsaid>> /\ news \subseteq news'
    BY <1>7, Zenon DEF Removes, namespaceCreated, vars, Put, informers
  <2>3. /\ Written(c) /\ (This.state.follows => c.annot = NadNamespace(c))
        /\ unsaid \/ (c.state = "ready" /\ (c.ns # "" => c.link = c.ns \/ c.ns \in news))
    BY <1>1, <2>1, <2>2, Zenon DEF Outcome
  <2>4. \/ ~Starts /\ ~Restarts /\ ~Ends /\ ~(work.pc = "apply" /\ work'.pc = "check") /\ ~(work.pc = "follow" /\ work'.pc = "apply")
        \/ Starts \/ Restarts \/ Ends
    BY <1>1, Zenon
  <2>5. CASE Starts \/ Restarts
    BY <1>4, <2>5, Zenon
  <2>6. CASE ~Starts /\ ~Restarts /\ ~Ends /\ ~(work.pc = "apply" /\ work'.pc = "check") /\ ~(work.pc = "follow" /\ work'.pc = "apply")
    <3>1. Written(c)'
      BY <2>3, <2>6, WrittenFrame, WrittenStays, Zenon
    <3>2. Written(cr)' /\ NadNamespace(cr)' = NadNamespace(c)
      BY <1>0, <2>1, <2>2, <3>1, Zenon DEF Written, NadNamespace, getManifestObjects
    <3>3. QED
      BY <2>1, <2>2, <2>3, <3>2, Zenon
  <2>7. QED
    BY <1>2, <2>4, <2>5, <2>6, Zenon
<1>8. QED
  BY <1>2, <1>3, <1>4, <1>5, <1>6, <1>7, StepKinds, Zenon

LEMMA DeployKept == DeployInv /\ [Next]_vars => DeployInv'
  BY TypeKept, CacheKept, WrittenKept, OutcomeKept, Zenon DEF DeployInv

LEMMA DeployInit == Init => DeployInv
<1>1. SUFFICES ASSUME Init PROVE DeployInv
  BY Zenon
<1>2. work.pc = "idle" /\ cr = NoNetwork
  BY <1>1, Zenon DEF Init, Idle
<1>3. TypeOK
  BY <1>1, InitType, Zenon
<1>4. QED
  BY <1>2, <1>3, Zenon DEF DeployInv, CacheInv, WrittenInv, Done, Outcome

\* Whatever was edited, refused, deleted or lost on the way: when the
\* controller has nothing left to do for a network, the NAD that its spec
\* describes is in the namespace it names, and the status says ready and
\* links to that NAD, unless the last report was lost.
THEOREM DeployedWhenQuiet == Spec => []QuietNetworkDeployed
<1>1. DeployInv => QuietNetworkDeployed
  BY Zenon DEF DeployInv, Outcome, QuietNetworkDeployed, Quiet, Deployed, Reported, Written
<1>2. QED
  BY <1>1, DeployInit, DeployKept, PTL DEF Spec

-----------------------------------------------------------------------------
(***************************************************************************)
(* Nothing stays in a former namespace.                                     *)
(***************************************************************************)

\* A copy of the network that notes another namespace than the network does
\* is out of step with itself too, so that a pass that works from it deletes
\* a NAD or notes a namespace.
Unlike(d) == d.uid = cr.uid => d.annot = cr.annot \/ d.annot = "none" \/ HasMoved(d)

Following == This.state.follows /\ cr # NoNetwork

AnnotInv == Following => Unlike(cache) /\ (work.pc # "idle" => Unlike(work.copy))

\* The former NAD is deleted before the new one is written.
MovedInv ==
  work.pc \in {"apply", "check", "note"} /\ This.state.follows /\ HasMoved(work.copy) => nad[work.copy.annot] = NoNad

\* Every NAD of the network is the noted one, one that the pass is about to
\* note, or left over.
NadInv ==
  Following =>
    \A ns \in Namespace : nad[ns].uid = cr.uid =>
      \/ ns \in leftover \/ ns = cr.annot
      \/ work.pc \in {"check", "note"} /\ ns = NadNamespace(work.copy) /\ work.copy.uid = cr.uid

FormerInv == DeployInv /\ AnnotInv /\ MovedInv /\ NadInv

\* Only the note changes what a network notes, and only the user its uid.
LEMMA NetworkKept ==
  ASSUME TypeOK, [Next]_vars, ~Notes, ~UserStep
  PROVE  cr'.uid = cr.uid /\ cr'.annot = cr.annot
<1>1. CASE Ends
  BY <1>1, ReportKeeps, Zenon DEF Ends
<1>2. CASE Advance \/ Starts \/ Restarts \/ observe \/ UNCHANGED vars
  BY <1>2, Zenon DEF Advance, Starts, Restarts, observe, vars
<1>3. CASE \E ns \in Namespace : observeNad(ns) \/ Removes(ns) \/ namespaceCreated(ns)
  BY <1>3, Zenon DEF observeNad, Removes, namespaceCreated
<1>4. QED
  BY <1>1, <1>2, <1>3, StepKinds, Zenon

LEMMA AnnotKept ==
  ASSUME TypeOK, CacheInv, AnnotInv, [Next]_vars
  PROVE  AnnotInv'
<1>0. /\ CopyOK(cr) /\ CopyOK(cache) /\ CopyOK(work.copy) /\ kind \in DOMAIN Kinds /\ kind' = kind /\ edits \in Nat
      /\ This' = This
  BY TypeFacts, KindKept, Zenon DEF This
<1>1. SUFFICES ASSUME This.state.follows, cr' # NoNetwork
               PROVE  Unlike(cache)' /\ (work'.pc # "idle" => Unlike(work.copy)')
  BY <1>0, Zenon DEF AnnotInv, Following
<1>2. PICK b, c, n : b = cache' /\ c = work'.copy /\ n = cr'
  BY Zenon
<1>3. HasMoved(b)' = HasMoved(b) /\ HasMoved(c)' = HasMoved(c)
  BY <1>0, RenderKept, Zenon
<1>4. /\ Unlike(cache)' <=> (b.uid = n.uid => b.annot = n.annot \/ b.annot = "none" \/ HasMoved(b))
      /\ Unlike(work.copy)' <=> (c.uid = n.uid => c.annot = n.annot \/ c.annot = "none" \/ HasMoved(c))
  BY <1>2, <1>3, Zenon DEF Unlike, HasMoved, NadNamespace, This
<1>5. CASE Notes
  <2>1. PICK d : d = work.copy
    BY Zenon
  <2>2. /\ d.annot = "none" \/ HasMoved(d)
        /\ c = n /\ cache = b /\ cr = d /\ work.pc = "note"
    BY <1>2, <1>5, <2>1, Zenon DEF Notes
  <2>3. b = d
    BY <2>1, <2>2, Zenon DEF CacheInv, Behind
  <2>4. QED
    BY <1>4, <2>2, <2>3, Zenon
<1>6. CASE UserStep
  <2>1. /\ UNCHANGED <<cache, work>>
        /\ \/ cr # NoNetwork /\ n.uid = cr.uid /\ n.annot = cr.annot
           \/ n.uid = edits + 1
    BY <1>1, <1>2, <1>6, UserEffect, Zenon
  <2>2. CASE cr # NoNetwork /\ n.uid = cr.uid /\ n.annot = cr.annot
    BY <1>1, <1>2, <1>4, <2>1, <2>2, Zenon DEF AnnotInv, Following, Unlike
  <2>3. CASE n.uid = edits + 1
    <3>1. cache.uid \in 0 .. edits /\ work.copy.uid \in 0 .. edits
      BY <1>0, Zenon DEF CopyOK, NetworkType
    <3>2. b.uid # n.uid /\ c.uid # n.uid
      BY <1>0, <1>2, <2>1, <2>3, <3>1, EditNumbers, ZenonT(60)
    <3>3. QED
      BY <1>4, <3>2, Zenon
  <2>4. QED
    BY <2>1, <2>2, <2>3, Zenon
<1>7. CASE ~Notes /\ ~UserStep
  <2>1. n.uid = cr.uid /\ n.annot = cr.annot
    BY <1>2, <1>7, NetworkKept, Zenon
  <2>2. cr # NoNetwork
    <3>1. n \in NetworkType' /\ (n.uid = 0 => n = NoNetwork)
      BY <1>2, TypeKept, TypeFacts, Zenon DEF TypeOK
    <3>2. QED
      BY <1>0, <1>1, <1>2, <2>1, <3>1, NoneType, Zenon
  <2>3. Unlike(cache) /\ (work.pc # "idle" => Unlike(work.copy))
    BY <1>1, <2>2, Zenon DEF AnnotInv, Following
  <2>4. cache' = cache \/ cache' = cr
    BY <1>7, StepKinds, Zenon DEF Advance, Ends, Starts, Restarts, observe, observeNad, Removes, namespaceCreated, vars, informers
  <2>5. work'.pc = "idle" \/ (work.pc # "idle" /\ work'.copy = work.copy) \/ work'.copy = cache
    <3>1. Idle.pc = "idle"
      BY Zenon DEF Idle
    <3>2. CASE Advance \/ Ends \/ Starts \/ Restarts
      BY <3>1, <3>2, Zenon DEF Advance, Ends, Starts, Restarts
    <3>3. CASE UNCHANGED work
      BY <3>3, Zenon
    <3>4. QED
      BY <1>7, <3>2, <3>3, StepKinds, Zenon DEF observe, observeNad, Removes, namespaceCreated, vars, informers
  <2>6. Unlike(cache)'
    BY <1>2, <1>4, <2>1, <2>3, <2>4, Zenon DEF Unlike
  <2>7. work'.pc # "idle" => Unlike(work.copy)'
    BY <1>2, <1>4, <2>1, <2>3, <2>5, Zenon DEF Unlike
  <2>8. QED
    BY <2>6, <2>7, Zenon
<1>8. QED
  BY <1>5, <1>6, <1>7, Zenon

\* What the steps do to the NADs.
LEMMA NadEffect ==
  ASSUME TypeOK, [Next]_vars, NEW ns \in Namespace
  PROVE  \/ nad'[ns] = nad[ns] \/ nad'[ns] = NoNad
         \/ /\ Advance /\ work.pc = "apply" /\ work'.pc = "check"
            /\ ns = NadNamespace(work.copy) /\ nad'[ns] = getManifestObjects(work.copy)
<1>0. nad \in [Namespace -> NadType] /\ exists \subseteq Namespace
  BY TypeFacts, Zenon DEF TypeOK
<1>1. ASSUME NEW n, NEW value, Put(n, value)
      PROVE  nad'[ns] = IF ns = n THEN value ELSE nad[ns]
  BY <1>0, <1>1, Zenon DEF Put
<1>2. CASE Advance
  <2>1. CASE Follow
    BY <1>1, <2>1, Zenon DEF Follow
  <2>2. CASE /\ work.pc = "apply" /\ work'.pc = "check"
             /\ Put(NadNamespace(work.copy), getManifestObjects(work.copy))
    BY <1>1, <1>2, <2>2, Zenon
  <2>3. CASE UNCHANGED nad
    BY <2>3, Zenon
  <2>4. QED
    BY <1>2, <2>1, <2>2, <2>3, Zenon DEF Advance
<1>3. CASE Notes \/ Ends \/ Starts \/ Restarts \/ observe \/ UserStep \/ UNCHANGED vars
  BY <1>3, UserEffect, Zenon DEF Notes, Ends, Starts, Restarts, observe, vars
<1>4. ASSUME NEW n \in Namespace, observeNad(n) \/ Removes(n) \/ namespaceCreated(n)
      PROVE  nad'[ns] = nad[ns] \/ nad'[ns] = NoNad
  BY <1>1, <1>4, Zenon DEF observeNad, Removes, namespaceCreated
<1>5. QED
  BY <1>2, <1>3, <1>4, StepKinds, Zenon

\* How a pass gets to where it is.
LEMMA PassEffect ==
  ASSUME TypeOK, [Next]_vars, This.state.follows
  PROVE  Advance \/ Notes \/ work'.pc \in {"idle", "follow"} \/ work' = work
<1>1. Idle.pc = "idle"
  BY Zenon DEF Idle
<1>2. CASE Starts \/ Restarts \/ Ends
  BY <1>1, <1>2, Zenon DEF Starts, Restarts, Ends
<1>3. CASE UNCHANGED work
  BY <1>3, Zenon
<1>4. observe \/ UserStep \/ (\E ns \in Namespace : observeNad(ns) \/ Removes(ns) \/ namespaceCreated(ns)) \/ UNCHANGED vars
      => UNCHANGED work
  BY UserEffect, Zenon DEF observe, observeNad, Removes, namespaceCreated, vars
<1>5. QED
  BY <1>2, <1>3, <1>4, StepKinds, Zenon

LEMMA MovedKept ==
  ASSUME TypeOK, MovedInv, [Next]_vars
  PROVE  MovedInv'
<1>0. /\ CopyOK(work.copy) /\ kind \in DOMAIN Kinds /\ kind' = kind /\ This' = This
      /\ nad \in [Namespace -> NadType]
  BY TypeFacts, KindKept, Zenon DEF This
<1>1. SUFFICES ASSUME work'.pc \in {"apply", "check", "note"}, This.state.follows, HasMoved(work.copy)'
               PROVE  nad'[work'.copy.annot] = NoNad
  BY <1>0, Zenon DEF MovedInv
<1>2. PICK c : c = work.copy
  BY Zenon
<1>3. work'.copy = c /\ (work'.pc = work.pc \/ Advance)
  BY <1>1, <1>2, PassEffect, Zenon DEF Advance, Notes
<1>4. HasMoved(c)
  BY <1>0, <1>1, <1>2, <1>3, Zenon DEF HasMoved, NadNamespace
<1>5. c.annot \in Namespace /\ c.annot # NadNamespace(c)
  BY <1>0, <1>2, <1>4, Zenon DEF HasMoved, CopyOK, NetworkType
<1>6. CASE work.pc = "follow" /\ Advance
  <2>1. Put(c.annot, NoNad)
    BY <1>1, <1>2, <1>4, <1>6, Zenon DEF Advance, Follow
  <2>2. QED
    BY <1>0, <1>3, <1>5, <2>1, Zenon DEF Put
<1>7. CASE work.pc \in {"apply", "check", "note"}
  <2>1. nad[c.annot] = NoNad
    BY <1>1, <1>2, <1>4, <1>7, Zenon DEF MovedInv
  <2>2. QED
    BY <1>2, <1>3, <1>5, <2>1, NadEffect, Zenon
<1>8. work.pc \in {"follow", "apply", "check", "note"} /\ (work.pc = "follow" => Advance)
  BY <1>1, <1>3, Zenon DEF Advance
<1>9. QED
  BY <1>6, <1>7, <1>8, Zenon

LEMMA NadKept ==
  ASSUME TypeOK, AnnotInv, MovedInv, NadInv, [Next]_vars
  PROVE  NadInv'
<1>0. /\ CopyOK(cr) /\ CopyOK(work.copy) /\ kind \in DOMAIN Kinds /\ kind' = kind /\ This' = This /\ edits \in Nat
      /\ nad \in [Namespace -> NadType]
  BY TypeFacts, KindKept, Zenon DEF This
<1>1. SUFFICES ASSUME This.state.follows, cr' # NoNetwork, NEW ns \in Namespace, nad'[ns].uid = cr'.uid
               PROVE  \/ ns \in leftover' \/ ns = cr'.annot
                      \/ work'.pc \in {"check", "note"} /\ ns = NadNamespace(work.copy)' /\ work'.copy.uid = cr'.uid
  BY <1>0, Zenon DEF NadInv, Following
<1>2. PICK c, d : c = work.copy /\ d = work'.copy
  BY Zenon
<1>3. /\ NadNamespace(work.copy)' = NadNamespace(d)
      /\ c \in NetworkType /\ NadNamespace(c) \in Namespace /\ getManifestObjects(c).uid = c.uid /\ NoNad.uid = 0
  BY <1>0, <1>1, <1>2, NadNamespaceType, Zenon DEF NadNamespace, CopyOK, getManifestObjects, NoNad
<1>4. cr'.uid # 0
  BY <1>1, TypeKept, Zenon DEF TypeOK
<1>5. nad'[ns] # NoNad
  BY <1>1, <1>3, <1>4, Zenon
<1>6. CASE UserStep
  <2>1. UNCHANGED <<nad, work>>
    BY <1>6, UserEffect, Zenon
  <2>2. CASE cr # NoNetwork /\ cr'.uid = cr.uid /\ cr'.annot = cr.annot /\ leftover' = leftover
    BY <1>1, <1>2, <1>3, <2>1, <2>2, Zenon DEF NadInv, Following
  <2>3. CASE cr'.uid = edits + 1
    <3>1. nad[ns].uid \in 0 .. edits
      BY <1>0, Zenon DEF NadType
    <3>2. QED
      BY <1>0, <1>1, <2>1, <2>3, <3>1, EditNumbers, ZenonT(60)
  <2>4. QED
    BY <1>1, <1>6, <2>2, <2>3, UserEffect, Zenon
<1>7. CASE Notes
  <2>1. /\ UNCHANGED <<nad, leftover>> /\ cr = c /\ cr' = Noted(c) /\ work.pc = "note" /\ c # NoNetwork
        /\ c.annot = "none" \/ HasMoved(c)
    BY <1>2, <1>7, Zenon DEF Notes, TypeOK
  <2>2. cr'.uid = cr.uid /\ cr'.annot = NadNamespace(c)
    BY <1>0, <1>3, <2>1, NotedKeeps, Zenon
  <2>3. ns \in leftover \/ ns = c.annot \/ ns = NadNamespace(c)
    BY <1>1, <1>2, <2>1, <2>2, Zenon DEF NadInv, Following
  <2>4. ns # c.annot
    <3>1. HasMoved(c) => nad[c.annot] = NoNad
      BY <1>1, <1>2, <2>1, Zenon DEF MovedInv
    <3>2. QED
      BY <1>1, <1>5, <2>1, <3>1, NetworkAssumption, Zenon
  <2>5. QED
    BY <2>1, <2>2, <2>3, <2>4, Zenon
<1>8. CASE ~UserStep /\ ~Notes
  <2>1. cr'.uid = cr.uid /\ cr'.annot = cr.annot
    BY <1>8, NetworkKept, Zenon
  <2>2. cr # NoNetwork
    BY <1>0, <1>4, <2>1, NoneType, Zenon
  <2>3. CASE /\ Advance /\ work.pc = "apply" /\ work'.pc = "check"
             /\ ns = NadNamespace(c) /\ nad'[ns] = getManifestObjects(c)
    <3>1. d = c
      BY <1>2, <2>3, Zenon DEF Advance
    <3>2. QED
      BY <1>1, <1>2, <1>3, <2>3, <3>1, Zenon
  <2>4. CASE nad'[ns] = nad[ns]
    <3>1. \/ ns \in leftover \/ ns = cr.annot
          \/ work.pc \in {"check", "note"} /\ ns = NadNamespace(c) /\ c.uid = cr.uid
      BY <1>1, <1>2, <2>1, <2>2, <2>4, Zenon DEF NadInv, Following
    <3>2. ns \in leftover => ns \in leftover'
      BY <1>8, StepKinds, Zenon DEF Advance, Ends, Starts, Restarts, Unnoted, observe, observeNad, Removes, namespaceCreated, vars
    <3>3. CASE work.pc \in {"check", "note"} /\ ns = NadNamespace(c) /\ c.uid = cr.uid /\ ns # c.annot
      <4>1. CASE Advance
        <5>1. d = c /\ (work'.pc \in {"check", "note"} \/ ns \in leftover')
          BY <1>1, <1>2, <3>3, <4>1, Zenon DEF Advance, HasMoved
        <5>2. QED
          BY <1>2, <1>3, <2>1, <3>3, <5>1, Zenon
      <4>2. CASE Restarts
        BY <1>2, <3>3, <4>2, Zenon DEF Restarts, Unnoted
      <4>3. CASE UNCHANGED work
        BY <1>2, <1>3, <2>1, <3>3, <4>3, Zenon
      <4>4. ~Starts /\ ~Ends
        BY <3>3, Zenon DEF Starts, Ends
      <4>5. QED
        BY <1>8, <4>1, <4>2, <4>3, <4>4, StepKinds, Zenon DEF observe, observeNad, Removes, namespaceCreated, vars
    <3>4. CASE work.pc \in {"check", "note"} /\ ns = NadNamespace(c) /\ c.uid = cr.uid /\ ns = c.annot
      <4>1. Unlike(c)
        BY <1>1, <1>2, <2>2, <3>4, Zenon DEF AnnotInv, Following
      <4>2. QED
        BY <2>1, <3>4, <4>1, NetworkAssumption, Zenon DEF Unlike, HasMoved
    <3>5. QED
      BY <2>1, <3>1, <3>2, <3>3, <3>4, Zenon
  <2>5. QED
    BY <1>2, <1>5, <2>3, <2>4, NadEffect, Zenon
<1>9. QED
  BY <1>6, <1>7, <1>8, Zenon

LEMMA FormerKept == FormerInv /\ [Next]_vars => FormerInv'
<1>1. SUFFICES ASSUME FormerInv, [Next]_vars PROVE FormerInv'
  BY Zenon
<1>2. TypeOK /\ CacheInv /\ DeployInv /\ AnnotInv /\ MovedInv /\ NadInv
  BY <1>1, Zenon DEF FormerInv, DeployInv
<1>3. QED
  BY <1>1, <1>2, DeployKept, AnnotKept, MovedKept, NadKept, Zenon DEF FormerInv

\* However often and at whatever moment the namespace of a MacvlanNetwork or
\* IPoIBNetwork changes, once the controller is done the NADs in its former
\* namespaces are gone, except those written by a pass that could not note
\* their namespace.
THEOREM NoFormerNads == Spec => []FormerNadsGone
<1>1. Init => FormerInv
  <2>1. SUFFICES ASSUME Init PROVE FormerInv
    BY Zenon
  <2>2. work.pc = "idle" /\ cr = NoNetwork
    BY <2>1, Zenon DEF Init, Idle
  <2>3. QED
    BY <2>1, <2>2, DeployInit, Zenon DEF FormerInv, AnnotInv, MovedInv, NadInv, Following
<1>2. FormerInv => FormerNadsGone
  BY Zenon DEF FormerInv, DeployInv, Outcome, NadInv, Following, FormerNadsGone, Quiet
<1>3. QED
  BY <1>1, <1>2, FormerKept, PTL DEF Spec
=============================================================================
