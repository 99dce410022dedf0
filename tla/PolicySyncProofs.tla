--------------------------- MODULE PolicySyncProofs ---------------------------
(***************************************************************************)
(* PolicySync for every set of node policies, any choice of components in   *)
(* each of them and any number of edits, faults and restarts: its types and  *)
(* what a pass has achieved so far.                                         *)
(***************************************************************************)
EXTENDS PolicySync, TLAPS

\* What the last pass over a policy asks of its objects.
Asked(p) == Wanted(p, spec[p][acting[p]])

Placed(p, c) ==
  \A o \in Objects(p) \ taken[p] :
    o[1] = c => obj[p][o].gen = IF o \in Asked(p) THEN acting[p] ELSE 0

\* What a pass has achieved so far: the components that it found ready or not
\* configured are in place, and so are the objects it has applied.
ResultsOK(w) ==
  \A i \in DOMAIN w.results : w.results[i] \in {"ready", "ignore"} =>
    /\ Placed(w.key, setup.of[w.key][i])
    /\ w.results[i] = "ignore" <=> spec[w.key][w.gen][setup.of[w.key][i]] = "off"

AppliedOK(w) ==
  \A k \in Range(GetManifestObjects(w.key, Comp(w), ModeOf(w))) \ Range(w.todo) :
    <<Comp(w), k>> \in taken[w.key] \/ obj[w.key][<<Comp(w), k>>].gen = w.gen

TodoOK(w) ==
  /\ w.pc = "sweep" => ModeOf(w) \in {"off", "plain", "full"}
  /\ w.pc \in {"apply", "check"} => ModeOf(w) \in {"plain", "full"}
  /\ w.pc \notin {"apply", "check"} => w.todo = <<>>
  /\ w.pc = "apply" => Range(w.todo) \subseteq Range(GetManifestObjects(w.key, Comp(w), ModeOf(w)))

PassInv(t) ==
  \A w \in {work[t]} : w.pc # "idle" =>
    /\ ResultsOK(w) /\ TodoOK(w)
    /\ w.pc \in {"apply", "sweep"} /\ ModeOf(w) # "off" => AppliedOK(w)
    /\ w.pc = "check" => Placed(w.key, Comp(w))

\* An object that others took is gone, or was deployed again for the same spec.
TakenInv(p) ==
  \A o \in taken[p] : obj[p][o].gen = 0 \/ (o \in Asked(p) /\ obj[p][o].gen = acting[p])

-----------------------------------------------------------------------------
(***************************************************************************)
(* The facts about sequences that are needed; the rest of the library's     *)
(* theorems would only be in the way of the provers.                        *)
(***************************************************************************)

LEMMA LenProperties ==
  ASSUME NEW S, NEW s \in Seq(S)
  PROVE  Len(s) \in Nat /\ s \in [1 .. Len(s) -> S] /\ DOMAIN s = 1 .. Len(s)
  OBVIOUS

LEMMA SeqDef == \A S : Seq(S) = UNION {[1 .. n -> S] : n \in Nat}
  OBVIOUS

LEMMA EmptySeq ==
  ASSUME NEW S
  PROVE  <<>> \in Seq(S) /\ Len(<<>>) = 0 /\ \A s \in Seq(S) : s # <<>> => Len(s) \in Nat \ {0}
  OBVIOUS

LEMMA RangeOfSeq ==
  ASSUME NEW S, NEW s \in Seq(S)
  PROVE  Range(s) \in SUBSET S
  BY DEF Range

LEMMA AppendProperties ==
  ASSUME NEW S, NEW s \in Seq(S), NEW e \in S
  PROVE  /\ Append(s, e) \in Seq(S) /\ Append(s, e) # <<>> /\ Len(Append(s, e)) = Len(s) + 1
         /\ \A i \in 1 .. Len(s) : Append(s, e)[i] = s[i]
         /\ Append(s, e)[Len(s) + 1] = e
  OBVIOUS

LEMMA HeadTailProperties ==
  ASSUME NEW S, NEW s \in Seq(S), s # <<>>
  PROVE  /\ Head(s) \in S /\ Tail(s) \in Seq(S) /\ Len(Tail(s)) = Len(s) - 1
         /\ \A i \in 1 .. Len(Tail(s)) : Tail(s)[i] = s[i + 1]
  OBVIOUS

-----------------------------------------------------------------------------
(***************************************************************************)
(* The components.                                                          *)
(***************************************************************************)

Kind == Range(GetSupportedGVKs)

LEMMA KindType == Kind = {"Support", "ConfigMap", "DaemonSet", "Deployment"}
  BY DEF Kind, GetSupportedGVKs, Range

\* What the proofs need to know of a component.
ComponentOK(c) ==
  /\ c.kinds \in Seq(Kind) /\ c.plain \in Seq(Kind)
  /\ Range(c.plain) \subseteq Range(c.kinds)

LEMMA ComponentFacts ==
  ASSUME NEW p \in Policy, NEW c \in DOMAIN States(p)
  PROVE  /\ ComponentOK(States(p)[c]) /\ "DaemonSet" \in GetWatchSources(States(p))
         /\ ~States(p)[c].shared => p = Ncp
<1>1. ComponentOK(stateRDMASharedDevicePlugin) /\ ComponentOK(stateSriovDp)
  BY KindType DEF ComponentOK, stateRDMASharedDevicePlugin, stateSriovDp, Component, Range
<1>2. ComponentOK(stateMultusCNI) /\ ComponentOK(docaTelemetryServiceState)
  BY KindType DEF ComponentOK, stateMultusCNI, docaTelemetryServiceState, Component, Range
<1>3. ComponentOK(stateCNIPlugins) /\ ComponentOK(stateIPoIBCNI) /\ ComponentOK(stateIBKubernetes)
  BY KindType DEF ComponentOK, stateCNIPlugins, stateIPoIBCNI, stateIBKubernetes, Fixed, Component
<1>4. /\ ComponentOK(stateNVIPAMCNI) /\ ComponentOK(stateNICFeatureDiscovery)
      /\ ComponentOK(stateSpectrumXOperator) /\ ComponentOK(stateNicConfigurationOperator)
  BY KindType DEF ComponentOK, stateNVIPAMCNI, stateNICFeatureDiscovery, stateSpectrumXOperator,
                  stateNicConfigurationOperator, Fixed, Component
<1>5. stateRDMASharedDevicePlugin.shared /\ stateSriovDp.shared /\ "DaemonSet" \in stateRDMASharedDevicePlugin.watches
  BY Zenon DEF stateRDMASharedDevicePlugin, stateSriovDp, Component
<1>6. CASE p = Ncp
  <2>1. ComponentOK(States(p)[c])
    BY <1>1, <1>2, <1>3, <1>4, <1>6 DEF States, newNicClusterPolicyStates
  <2>2. States(p)["rdma"] = stateRDMASharedDevicePlugin /\ "rdma" \in DOMAIN States(p)
    BY <1>6, Zenon DEF States, newNicClusterPolicyStates
  <2>3. QED
    BY <1>5, <1>6, <2>1, <2>2, Zenon DEF GetWatchSources
<1>7. CASE p # Ncp
  <2>1. States(p)[c] \in {stateRDMASharedDevicePlugin, stateSriovDp}
    BY <1>7 DEF States, newNicNodePolicyStates
  <2>2. States(p)["rdma"] = stateRDMASharedDevicePlugin /\ "rdma" \in DOMAIN States(p)
    BY <1>7, Zenon DEF States, newNicNodePolicyStates
  <2>3. QED
    BY <1>1, <1>5, <2>1, <2>2, Zenon DEF GetWatchSources
<1>8. QED
  BY <1>6, <1>7, Zenon

LEMMA ManifestType ==
  ASSUME NEW p \in Policy, NEW c \in DOMAIN States(p), NEW mode
  PROVE  /\ GetManifestObjects(p, c, mode) \in Seq(Kind)
         /\ Range(GetManifestObjects(p, c, mode)) \subseteq Range(States(p)[c].kinds)
  BY ComponentFacts, Zenon DEF GetManifestObjects, ComponentOK

\* The components of a policy, and its objects.
LEMMA OfType ==
  ASSUME setup \in Setups, NEW p \in Policy
  PROVE  /\ setup.of[p] \in Seq(DOMAIN States(p)) /\ Len(setup.of[p]) \in Nat
         /\ DOMAIN setup.of[p] = 1 .. Len(setup.of[p])
         /\ \A i \in 1 .. Len(setup.of[p]) : setup.of[p][i] \in Range(setup.of[p])
         /\ Range(setup.of[p]) \subseteq DOMAIN States(p)
  BY SyncAssumption DEF Range

LEMMA ObjectsType ==
  ASSUME setup \in Setups, NEW p \in Policy
  PROVE  /\ \A o \in Objects(p) : /\ o = <<o[1], o[2]>> /\ o[1] \in Range(setup.of[p]) /\ o[2] \in Kind
                                  /\ o[2] \in Range(States(p)[o[1]].kinds)
         /\ \A c \in Range(setup.of[p]) : \A k \in Range(States(p)[c].kinds) : <<c, k>> \in Objects(p)
<1>1. \A c \in Range(setup.of[p]) : Range(States(p)[c].kinds) \subseteq Kind
  BY OfType, ComponentFacts, RangeOfSeq, Zenon DEF ComponentOK
<1>2. \A o : o \in Objects(p) <=> \E c \in Range(setup.of[p]) : o \in {c} \X Range(States(p)[c].kinds)
  BY Zenon DEF Objects
<1>3. QED
  BY <1>1, <1>2

LEMMA WantedType ==
  ASSUME setup \in Setups, NEW p \in Policy, NEW s \in Specs(p) \cup {NoPolicy}
  PROVE  /\ Wanted(p, s) \subseteq Objects(p)
         /\ \A c \in DOMAIN s : \A k :
              <<c, k>> \in Wanted(p, s) <=> s[c] \in {"plain", "full"} /\ k \in Range(GetManifestObjects(p, c, s[c]))
<1>1. \A o : o \in Wanted(p, s) <=>
               \E c \in DOMAIN s : s[c] \in {"plain", "full"} /\ o \in {c} \X Range(GetManifestObjects(p, c, s[c]))
  BY Zenon DEF Wanted
<1>2. DOMAIN s \subseteq Range(setup.of[p])
  <2>1. CASE s = NoPolicy
    BY <2>1 DEF NoPolicy
  <2>2. CASE s \in Specs(p)
    BY <2>2, Zenon DEF Specs
  <2>3. QED
    BY <2>1, <2>2, Zenon
<1>3. Wanted(p, s) \subseteq Objects(p)
  <2> SUFFICES ASSUME NEW o \in Wanted(p, s) PROVE o \in Objects(p)
    BY Zenon
  <2>1. PICK c \in DOMAIN s : o \in {c} \X Range(GetManifestObjects(p, c, s[c]))
    BY <1>1, Zenon
  <2>2. PICK k \in Range(GetManifestObjects(p, c, s[c])) : o = <<c, k>>
    BY <2>1
  <2>3. k \in Range(States(p)[c].kinds)
    BY <1>2, <2>2, OfType, ManifestType, Zenon
  <2>4. QED
    BY <1>2, <2>2, <2>3, ObjectsType, Zenon
<1>4. QED
  BY <1>1, <1>3

-----------------------------------------------------------------------------
(***************************************************************************)
(* Type correctness.                                                        *)
(***************************************************************************)

\* A spec of a policy says something about each of its components.
LEMMA SpecType ==
  ASSUME setup \in Setups, NEW p \in Policy, NEW s \in Specs(p)
  PROVE  /\ DOMAIN s = Range(setup.of[p]) /\ \A c \in DOMAIN s : s[c] \in {"off", "plain", "full", "invalid"}
         /\ s # NoPolicy => Len(setup.of[p]) >= 1
<1>1. DOMAIN s = Range(setup.of[p]) /\ \A c \in DOMAIN s : s[c] \in {"off", "plain", "full", "invalid"}
  BY SyncAssumption, Zenon DEF Specs
<1>2. ASSUME Len(setup.of[p]) = 0 PROVE s = NoPolicy
  <2>1. Range(setup.of[p]) = {}
    BY <1>2, OfType DEF Range
  <2>2. QED
    BY <1>1, <2>1 DEF Specs, NoPolicy
<1>3. QED
  BY <1>1, <1>2, OfType

LEMMA IdleType == Idle \in WorkType /\ Idle.pc = "idle"
  BY EmptySeq, Zenon DEF Idle, WorkType, NoStatus, StatusType, Policy

LEMMA IdleOK ==
  ASSUME NEW t \in Thread, work'[t] = Idle
  PROVE  WorkOK(t)'
  BY IdleType, Zenon DEF WorkOK

LEMMA WorkKept ==
  ASSUME TypeOK, NEW t \in Thread, setup' = setup, work'[t] = work[t],
         work[t].pc # "idle" => /\ acting'[work[t].key] = acting[work[t].key]
                                /\ spec'[work[t].key][work[t].gen] = spec[work[t].key][work[t].gen]
  PROVE  WorkOK(t)'
<1>1. \A p : Specs(p)' = Specs(p)
  BY Zenon DEF Specs
<1>2. QED
  BY <1>1, Zenon DEF TypeOK, WorkOK

LEMMA PolicyKept ==
  ASSUME NEW p \in Policy, PolicyOK(p), setup' = setup, spec'[p] = spec[p], status'[p] = status[p],
         cache'[p] = cache[p], acting'[p] = acting[p], obj'[p] = obj[p], taken'[p] = taken[p]
  PROVE  PolicyOK(p)'
<1>1. Specs(p)' = Specs(p) /\ Objects(p)' = Objects(p)
  BY Zenon DEF Specs, Objects
<1>2. QED
  BY <1>1, Zenon DEF PolicyOK

\* The steps of one worker that leave its policies alone.
LEMMA WorkStepType ==
  ASSUME TypeOK, NEW t \in Thread, WorkOK(t)', DOMAIN work' = Thread,
         \A u \in Thread \ {t} : work'[u] = work[u],
         UNCHANGED <<users, status, cache, obj, history>>, queue' \subseteq Policy, unsaid' \subseteq Policy,
         faults' \in 0 .. setup.faults
  PROVE  TypeOK'
<1>1. \A u \in Thread : WorkOK(u)'
  BY WorkKept, Zenon DEF users, history
<1>2. \A p \in Policy : PolicyOK(p)'
  BY PolicyKept, Zenon DEF TypeOK, users, history
<1>3. QED
  BY <1>1, <1>2, Zenon DEF TypeOK, users, history

\* The pass of a worker and the component that it is at.
LEMMA PassType ==
  ASSUME TypeOK, NEW t \in Thread, work[t].pc \notin {"idle", "status"}
  PROVE  /\ work[t] \in WorkType /\ work[t].key \in Policy /\ work[t].gen = acting[work[t].key]
         /\ spec[work[t].key][work[t].gen] \in Specs(work[t].key)
         /\ work[t].at \in 1 .. Len(setup.of[work[t].key])
         /\ Comp(work[t]) \in Range(setup.of[work[t].key]) /\ Comp(work[t]) \in DOMAIN States(work[t].key)
         /\ Comp(work[t]) \in DOMAIN spec[work[t].key][work[t].gen]
         /\ ModeOf(work[t]) \in {"off", "plain", "full", "invalid"}
<1>1. /\ work[t] \in WorkType /\ work[t].key \in Policy /\ work[t].gen = acting[work[t].key]
      /\ spec[work[t].key][work[t].gen] \in Specs(work[t].key) /\ setup \in Setups
      /\ work[t].at \in 1 .. Len(setup.of[work[t].key]) + 1 /\ work[t].at # Len(setup.of[work[t].key]) + 1
  BY Zenon DEF TypeOK, WorkOK, WorkType
<1>2. work[t].at \in 1 .. Len(setup.of[work[t].key])
  BY <1>1, OfType
<1>3. Comp(work[t]) \in Range(setup.of[work[t].key]) /\ Comp(work[t]) \in DOMAIN States(work[t].key)
  BY <1>1, <1>2, OfType, Zenon DEF Comp
<1>4. QED
  BY <1>1, <1>2, <1>3, SpecType, Zenon DEF ModeOf

\* What Result makes of a pass.
LEMMA ResultWork ==
  ASSUME TypeOK, NEW t \in Thread, work[t].pc \in {"sync", "apply", "sweep", "check"},
         NEW r \in {"ready", "notReady", "ignore", "error"}, Result(t, r)
  PROVE  /\ DOMAIN work' = Thread /\ \A u \in Thread \ {t} : work'[u] = work[u]
         /\ work'[t] \in WorkType
         /\ work'[t].key = work[t].key /\ work'[t].gen = work[t].gen /\ work'[t].status = work[t].status
         /\ work'[t].at = work[t].at + 1 /\ work'[t].todo = <<>> /\ work'[t].found = FALSE
         /\ work'[t].results = Append(work[t].results, r)
         /\ work'[t].pc = IF work[t].at = Len(setup.of[work[t].key]) THEN "status" ELSE "sync"
<1>1. work[t] \in WorkType /\ DOMAIN work = Thread
  BY Zenon DEF TypeOK, WorkOK
<1>2. work'[t] = [work[t] EXCEPT !.results = Append(@, r), !.at = @ + 1, !.found = FALSE, !.todo = <<>>,
                    !.pc = IF work[t].at = Len(setup.of[work[t].key]) THEN "status" ELSE "sync"]
  BY <1>1, Zenon DEF Result
<1>3. DOMAIN work' = Thread /\ \A u \in Thread \ {t} : work'[u] = work[u]
  BY <1>1, Zenon DEF Result
<1>4. Append(work[t].results, r) \in Seq({"ready", "notReady", "ignore", "error"}) /\ work[t].at + 1 \in Nat
      /\ <<>> \in Seq(Range(GetSupportedGVKs))
  BY <1>1, AppendProperties, EmptySeq DEF WorkType
<1>5. QED
  BY <1>1, <1>2, <1>3, <1>4, Zenon DEF WorkType

LEMMA ResultType ==
  ASSUME TypeOK, NEW t \in Thread, work[t].pc \in {"sync", "apply", "sweep", "check"},
         NEW r \in {"ready", "notReady", "ignore", "error"}, Result(t, r),
         UNCHANGED <<users, status, cache, obj, queue, history, unsaid>>, faults' \in 0 .. setup.faults
  PROVE  TypeOK'
<1>1. /\ WorkOK(t) /\ work[t] \in WorkType /\ work[t].results \in Seq({"ready", "notReady", "ignore", "error"})
      /\ work[t].key \in Policy /\ setup \in Setups
  BY Zenon DEF TypeOK, WorkOK, WorkType
<1>2. Len(work'[t].results) = Len(work[t].results) + 1
  <2>1. work'[t].results = Append(work[t].results, r)
    BY ResultWork, Zenon
  <2>2. QED
    BY <1>1, <2>1, AppendProperties
<1>3. \A p : Specs(p)' = Specs(p)
  BY Zenon DEF Specs, users
<1>4. Len(setup.of[work[t].key]) \in Nat
  BY <1>1, OfType, Zenon
<1>5. WorkOK(t)'
  <2>1. /\ Worker(work[t].key) = t /\ work[t].gen = acting[work[t].key] /\ work[t].gen # 0
        /\ spec[work[t].key][work[t].gen] \in Specs(work[t].key) \ {NoPolicy}
        /\ Len(work[t].results) + 1 = work[t].at
    BY <1>1, Zenon DEF WorkOK
  <2>2. UNCHANGED <<setup, spec, acting>>
    BY Zenon DEF users, history
  <2>3. /\ work'[t].at \in 1 .. Len(setup.of[work[t].key]) + 1 /\ Len(work'[t].results) + 1 = work'[t].at
        /\ work'[t].pc = "status" <=> work'[t].at = Len(setup.of[work[t].key]) + 1
    <3>1. /\ work'[t].at = work[t].at + 1
          /\ work'[t].pc = IF work[t].at = Len(setup.of[work[t].key]) THEN "status" ELSE "sync"
      BY ResultWork, Zenon
    <3>2. work[t].at \in 1 .. Len(setup.of[work[t].key]) /\ work[t].at \in Nat /\ Len(work[t].results) \in Nat
      BY <1>1, PassType, LenProperties
    <3>3. \A n, a, b \in Nat : a \in 1 .. n /\ b = a + 1 => b \in 1 .. n + 1 /\ (a = n <=> b = n + 1)
      OBVIOUS
    <3>4. Len(work'[t].results) + 1 = work'[t].at /\ work'[t].at \in Nat
      BY <1>2, <2>1, <3>1, <3>2
    <3>5. /\ work'[t].at \in 1 .. Len(setup.of[work[t].key]) + 1
          /\ work[t].at = Len(setup.of[work[t].key]) <=> work'[t].at = Len(setup.of[work[t].key]) + 1
      BY <1>4, <2>1, <3>1, <3>2, <3>3, <3>4, ZenonT(60)
    <3>6. work'[t].pc = "status" <=> work[t].at = Len(setup.of[work[t].key])
      BY <3>1, Zenon
    <3>7. QED
      BY <3>4, <3>5, <3>6, Zenon
  <2>4. /\ work'[t] \in WorkType /\ work'[t].key = work[t].key /\ work'[t].gen = work[t].gen
    BY ResultWork, Zenon
  <2>5. QED
    BY <1>3, <2>1, <2>2, <2>3, <2>4, Zenon DEF WorkOK
<1>6. QED
  BY <1>5, ResultWork, WorkStepType, Zenon DEF TypeOK

\* One object of one policy changes.
ObjectStep(p, o, v) ==
  /\ DOMAIN obj' = Policy /\ \A q \in Policy \ {p} : obj'[q] = obj[q]
  /\ obj'[p] = [obj[p] EXCEPT ![o] = v]

LEMMA ObjectStepType ==
  ASSUME TypeOK, NEW p \in Policy, NEW o \in Objects(p), NEW v \in ObjectType, ObjectStep(p, o, v),
         v.gen <= acting[p], v.seen <= acting[p],
         taken' = taken \/ taken' = [taken EXCEPT ![p] = @ \cup {o}],
         UNCHANGED <<users, status, cache, acting>>
  PROVE  DOMAIN obj' = Policy /\ DOMAIN taken' = Policy /\ \A q \in Policy : PolicyOK(q)'
<1>1. DOMAIN obj' = Policy /\ DOMAIN taken' = Policy
  BY Zenon DEF ObjectStep, TypeOK
<1>2. ASSUME NEW q \in Policy, q # p PROVE PolicyOK(q)'
  BY <1>2, PolicyKept, Zenon DEF ObjectStep, TypeOK, users
<1>3. PolicyOK(p)'
  <2>1. UNCHANGED <<setup, spec, status, cache, acting>> /\ PolicyOK(p)
    BY Zenon DEF users, TypeOK
  <2>2. Specs(p)' = Specs(p) /\ Objects(p)' = Objects(p)
    BY <2>1, Zenon DEF Specs, Objects
  <2>3. taken'[p] \subseteq Objects(p)
    BY <2>1 DEF PolicyOK, TypeOK
  <2>4. /\ obj'[p] \in [Objects(p) -> ObjectType]
        /\ \A x \in Objects(p) : obj'[p][x].gen <= acting[p] /\ obj'[p][x].seen <= acting[p]
    BY <2>1, Zenon DEF ObjectStep, PolicyOK
  <2>5. QED
    BY <2>1, <2>2, <2>3, <2>4, Zenon DEF PolicyOK
<1>4. QED
  BY <1>1, <1>2, <1>3, Zenon

LEMMA NotifyType ==
  ASSUME TypeOK, NEW p \in Policy, NEW k
  PROVE  Notify(p, k) \subseteq Policy
  BY Zenon DEF Notify, TypeOK

\* What the environment does to one object.
LEMMA EnvironmentType ==
  ASSUME TypeOK, NEW p \in Policy, NEW o \in Objects(p), NEW v \in ObjectType, ObjectStep(p, o, v),
         v.gen <= acting[p], v.seen <= acting[p],
         taken' = taken \/ taken' = [taken EXCEPT ![p] = @ \cup {o}],
         UNCHANGED <<users, status, cache, acting, work, unsaid>>,
         queue' = Notify(p, o[2]), faults' \in 0 .. setup.faults
  PROVE  TypeOK'
<1>1. \A t \in Thread : WorkOK(t)'
  BY WorkKept, Zenon DEF users
<1>2. DOMAIN obj' = Policy /\ DOMAIN taken' = Policy /\ \A q \in Policy : PolicyOK(q)'
  BY ObjectStepType, Zenon
<1>3. QED
  BY <1>1, <1>2, NotifyType, Zenon DEF TypeOK, users

LEMMA GoneType == Gone \in ObjectType /\ Gone.gen = 0 /\ Gone.seen = 0 /\ ~Gone.full
  BY Zenon DEF Gone, ObjectType

LEMMA GenType ==
  ASSUME TypeOK, NEW p \in Policy
  PROVE  /\ Len(spec[p]) \in Nat /\ cache[p].gen \in Nat /\ acting[p] \in Nat
         /\ acting[p] <= cache[p].gen /\ cache[p].gen <= Len(spec[p])
<1>1. spec[p] \in Seq(Specs(p) \cup {NoPolicy}) /\ cache[p].gen \in 0 .. Len(spec[p]) /\ acting[p] \in 0 .. cache[p].gen
  BY Zenon DEF TypeOK, PolicyOK
<1>2. Len(spec[p]) \in Nat
  BY <1>1
<1>3. QED
  BY <1>1, <1>2

LEMMA SubmitEffect ==
  ASSUME TypeOK, NEW p \in Policy, NEW s \in Specs(p) \cup {NoPolicy}, Submit(p, s)
  PROVE  /\ spec'[p] = Append(spec[p], s) /\ spec'[p] \in Seq(Specs(p) \cup {NoPolicy})
         /\ Len(spec'[p]) = Len(spec[p]) + 1 /\ DOMAIN spec' = Policy
         /\ \A q \in Policy : \A g \in 1 .. Len(spec[q]) : spec'[q][g] = spec[q][g]
         /\ \A q \in Policy \ {p} : spec'[q] = spec[q]
<1>1. spec[p] \in Seq(Specs(p) \cup {NoPolicy}) /\ DOMAIN spec = Policy
  BY Zenon DEF TypeOK, PolicyOK
<1>2. spec'[p] = Append(spec[p], s) /\ DOMAIN spec' = Policy /\ \A q \in Policy \ {p} : spec'[q] = spec[q]
  BY <1>1, Zenon DEF Submit
<1>3. \A g \in 1 .. Len(spec[p]) : spec'[p][g] = spec[p][g]
  BY <1>1, <1>2, AppendProperties
<1>4. QED
  BY <1>1, <1>2, <1>3, AppendProperties

LEMMA SubmitType ==
  ASSUME TypeOK, NEW p \in Policy, NEW s \in Specs(p) \cup {NoPolicy}, Submit(p, s)
  PROVE  TypeOK'
<1>1. /\ setup \in Setups /\ UNCHANGED <<setup, crd, cache, obj, queue, work, history, unsaid, faults>>
      /\ spec' = [spec EXCEPT ![p] = Append(@, s)] /\ edits < setup.edits /\ edits' = edits + 1
      /\ DOMAIN status' = Policy /\ \A q \in Policy : q # p => status'[q] = status[q]
      /\ status'[p] \in {status[p], NoStatus}
  BY Zenon DEF Submit, TypeOK
<1>2. /\ spec'[p] \in Seq(Specs(p) \cup {NoPolicy}) /\ Len(spec'[p]) = Len(spec[p]) + 1
      /\ DOMAIN spec' = Policy /\ \A q \in Policy : q # p => spec'[q] = spec[q]
      /\ \A g \in 1 .. Len(spec[p]) : spec'[p][g] = spec[p][g]
  BY SubmitEffect, Zenon
<1>3. edits' \in 0 .. setup.edits
  BY <1>1, SyncAssumption DEF TypeOK
<1>4. ASSUME NEW q \in Policy, q # p PROVE PolicyOK(q)'
  BY <1>1, <1>2, <1>4, PolicyKept, Zenon DEF TypeOK, history
<1>5. PolicyOK(p)'
  <2>1. PolicyOK(p) /\ Len(spec[p]) \in Nat
    BY GenType, Zenon DEF TypeOK
  <2>2. Specs(p)' = Specs(p) /\ Objects(p)' = Objects(p)
    BY <1>1, Zenon DEF Specs, Objects
  <2>3. NoStatus \in StatusType /\ NoStatus.gen = 0 /\ Len(NoStatus.conditions) = 0
    BY EmptySeq, Zenon DEF NoStatus, StatusType
  <2>4. /\ \A x \in {status'[p], cache'[p].status} :
             x \in StatusType /\ x.gen <= Len(spec'[p]) /\ Len(x.conditions) \in {0, Len(setup.of[p])}
        /\ cache'[p].gen \in 0 .. Len(spec'[p])
    <3>1. \A x \in {status[p], cache[p].status} :
             x \in StatusType /\ x.gen \in Nat /\ x.gen <= Len(spec[p]) /\ Len(x.conditions) \in {0, Len(setup.of[p])}
      BY <2>1, Zenon DEF PolicyOK, StatusType
    <3>2. QED
      BY <1>1, <1>2, <2>1, <2>3, <3>1, GenType
  <2>5. QED
    BY <1>1, <1>2, <2>1, <2>2, <2>4, Zenon DEF PolicyOK, history
<1>6. ASSUME NEW t \in Thread PROVE WorkOK(t)'
  <2>1. work[t].pc # "idle" => work[t].key \in Policy /\ work[t].gen = acting[work[t].key] /\ work[t].gen # 0
    BY Zenon DEF TypeOK, WorkOK, WorkType
  <2>2. QED
    <3>1. work[t].pc # "idle" => work[t].gen \in 1 .. Len(spec[work[t].key])
      BY <2>1, GenType
    <3>2. QED
      BY <1>1, <1>2, <2>1, <3>1, WorkKept DEF history
<1>7. QED
  BY <1>1, <1>2, <1>3, <1>4, <1>5, <1>6, Zenon DEF TypeOK, history

\* A pass that stays at its component.
LEMMA PassKept ==
  ASSUME TypeOK, NEW t \in Thread, work[t].pc \notin {"idle", "status"}, UNCHANGED <<setup, spec, acting>>,
         work'[t] \in WorkType, work'[t].pc \notin {"idle", "status"},
         work'[t].key = work[t].key, work'[t].gen = work[t].gen, work'[t].at = work[t].at,
         work'[t].results = work[t].results
  PROVE  WorkOK(t)'
<1>1. \A p : Specs(p)' = Specs(p)
  BY Zenon DEF Specs
<1>2. WorkOK(t)
  BY Zenon DEF TypeOK
<1>3. QED
  BY <1>1, <1>2, Zenon DEF WorkOK

LEMMA ReconcileType ==
  ASSUME TypeOK, NEW p \in Policy, Reconcile(p)
  PROVE  TypeOK'
<1> DEFINE t == Worker(p)
<1>1. t \in Thread /\ setup \in Setups
  BY Zenon DEF Worker, Thread, TypeOK
<1>2. UNCHANGED <<users, status, cache, obj, unsaid, faults>> /\ queue' = queue \ {p}
  BY Zenon DEF Reconcile
<1>3. CASE UNCHANGED <<work, history>>
  <2>1. WorkOK(t)'
    BY <1>1, <1>2, <1>3, WorkKept, Zenon DEF users, history
  <2>2. QED
    BY <1>1, <1>2, <1>3, <2>1, WorkStepType, Zenon DEF TypeOK
<1>4. CASE ~UNCHANGED <<work, history>>
  <2>1. /\ cache[p].gen # 0 /\ spec[p][cache[p].gen] # NoPolicy
        /\ work' = [work EXCEPT ![t] = [Idle EXCEPT !.pc = "sync", !.key = p, !.at = 1,
                            !.gen = cache[p].gen, !.status = cache[p].status]]
        /\ acting' = [acting EXCEPT ![p] = cache[p].gen] /\ taken' = [taken EXCEPT ![p] = {}]
    BY <1>4, Zenon DEF Reconcile
  <2>2. /\ DOMAIN acting' = Policy /\ DOMAIN taken' = Policy /\ DOMAIN work' = Thread
        /\ acting'[p] = cache[p].gen /\ taken'[p] = {}
        /\ \A q \in Policy \ {p} : acting'[q] = acting[q] /\ taken'[q] = taken[q]
        /\ \A u \in Thread \ {t} : work'[u] = work[u]
    BY <2>1, Zenon DEF TypeOK
  <2>3. ASSUME NEW q \in Policy, q # p PROVE PolicyOK(q)'
    BY <1>2, <2>2, <2>3, PolicyKept, Zenon DEF TypeOK, users
  <2>4. \A q : Specs(q)' = Specs(q) /\ Objects(q)' = Objects(q)
    BY <1>2, Zenon DEF Specs, Objects, users
  <2>5. PolicyOK(p)'
    <3>1. PolicyOK(p) /\ \A o \in Objects(p) : obj[p][o].gen \in Nat /\ obj[p][o].seen \in Nat
      BY Zenon DEF TypeOK, PolicyOK, ObjectType
    <3>2. \A o \in Objects(p) : obj[p][o].gen <= cache[p].gen /\ obj[p][o].seen <= cache[p].gen
      BY <3>1, GenType DEF PolicyOK
    <3>3. QED
      BY <1>2, <2>2, <2>4, <3>1, <3>2, GenType DEF PolicyOK, users
  <2>6. ASSUME NEW u \in Thread, u # t PROVE WorkOK(u)'
    <3>1. work[u].pc # "idle" => work[u].key \in Policy \ {p}
      BY <2>6, Zenon DEF TypeOK, WorkOK, WorkType
    <3>2. QED
      BY <1>2, <2>2, <2>6, <3>1, WorkKept, Zenon DEF users
  <2>7. WorkOK(t)'
    <3>1. cache[p].gen \in 1 .. Len(spec[p]) /\ cache[p].status \in StatusType
      <4>1. cache[p].gen \in 1 .. Len(spec[p])
        BY <2>1, GenType
      <4>2. QED
        BY <4>1, Zenon DEF TypeOK, PolicyOK
    <3>2. spec[p][cache[p].gen] \in Specs(p) \ {NoPolicy} /\ Len(setup.of[p]) >= 1 /\ Len(setup.of[p]) \in Nat
      <4>1. spec[p] \in Seq(Specs(p) \cup {NoPolicy})
        BY Zenon DEF TypeOK, PolicyOK
      <4>2. spec[p][cache[p].gen] \in Specs(p)
        BY <2>1, <3>1, <4>1
      <4>3. QED
        BY <1>1, <2>1, <4>2, SpecType, OfType, Zenon
    <3>3. work'[t] = [Idle EXCEPT !.pc = "sync", !.key = p, !.at = 1, !.gen = cache[p].gen, !.status = cache[p].status]
      BY <1>1, <2>1, Zenon DEF TypeOK
    <3>4. /\ work'[t] \in WorkType /\ work'[t].pc = "sync" /\ work'[t].key = p /\ work'[t].gen = cache[p].gen
          /\ work'[t].at = 1 /\ work'[t].results = <<>>
      <4>1. cache[p].gen \in Nat
        BY GenType, Zenon
      <4>2. work'[t] \in WorkType
        <5>1. work'[t] = [pc |-> "sync", key |-> p, gen |-> cache[p].gen, status |-> cache[p].status,
                          at |-> 1, todo |-> <<>>, found |-> FALSE, results |-> <<>>]
          BY <3>3, Zenon DEF Idle
        <5>2. QED
          BY <3>1, <4>1, <5>1, EmptySeq DEF WorkType
      <4>3. QED
        BY <3>3, <4>2, Zenon DEF Idle
    <3>5. Len(work'[t].results) + 1 = 1 /\ 1 \in 1 .. Len(setup.of[p]) + 1 /\ 1 # Len(setup.of[p]) + 1
      BY <3>2, <3>4
    <3>6. UNCHANGED <<setup, spec>>
      BY <1>2, Zenon DEF users
    <3>7. QED
      BY <2>1, <2>2, <2>4, <3>2, <3>4, <3>5, <3>6, Zenon DEF WorkOK
  <2>8. QED
    BY <1>2, <2>2, <2>3, <2>5, <2>6, <2>7, Zenon DEF TypeOK, users
<1>5. QED
  BY <1>3, <1>4, Zenon

LEMMA SyncType ==
  ASSUME TypeOK, NEW t \in Thread, Sync(t)
  PROVE  TypeOK'
<1>1. /\ work[t].pc = "sync" /\ UNCHANGED <<users, status, cache, obj, queue, history, unsaid, faults>>
      /\ faults' \in 0 .. setup.faults /\ queue' \subseteq Policy /\ unsaid' \subseteq Policy
  BY Zenon DEF Sync, TypeOK
<1>2. CASE Result(t, "notReady")
  BY <1>1, <1>2, ResultType, Zenon
<1>3. CASE \/ work' = [work EXCEPT ![t].pc = "sweep"]
           \/ work' = [work EXCEPT ![t].pc = "apply",
                                   ![t].todo = GetManifestObjects(work[t].key, Comp(work[t]), ModeOf(work[t]))]
  <2>1. GetManifestObjects(work[t].key, Comp(work[t]), ModeOf(work[t])) \in Seq(Range(GetSupportedGVKs))
    BY <1>1, PassType, ManifestType, Zenon DEF Kind
  <2>2. DOMAIN work = Thread /\ work[t] \in WorkType
    BY Zenon DEF TypeOK, WorkOK
  <2>3. DOMAIN work' = Thread /\ \A u \in Thread \ {t} : work'[u] = work[u]
    BY <1>3, <2>2, Zenon
  <2>4. /\ work'[t] \in WorkType /\ work'[t].pc \in {"sweep", "apply"} /\ work'[t].key = work[t].key
        /\ work'[t].gen = work[t].gen /\ work'[t].at = work[t].at /\ work'[t].results = work[t].results
    BY <1>3, <2>1, <2>2 DEF WorkType
  <2>5. WorkOK(t)'
    BY <1>1, <2>4, PassKept, Zenon DEF users, history
  <2>6. QED
    BY <1>1, <2>3, <2>5, WorkStepType, Zenon
<1>4. QED
  BY <1>2, <1>3, Zenon DEF Sync

LEMMA MergeType ==
  ASSUME TypeOK, NEW p \in Policy, NEW o \in Objects(p), NEW gen
  PROVE  mergeObjects(obj[p][o], gen).gen = gen /\ mergeObjects(obj[p][o], gen).full = obj[p][o].full
<1>1. obj[p][o] \in ObjectType
  BY Zenon DEF TypeOK, PolicyOK
<1>2. PICK x \in ObjectType : x = obj[p][o]
  BY <1>1, Zenon
<1>3. [x EXCEPT !.gen = gen].gen = gen /\ [x EXCEPT !.gen = gen].full = x.full
  BY DEF ObjectType
<1>4. QED
  BY <1>2, <1>3, Zenon DEF mergeObjects

LEMMA ApplyType ==
  ASSUME TypeOK, NEW t \in Thread, createOrUpdateObjs(t), NEW o, o = <<Comp(work[t]), Head(work[t].todo)>>,
         o \in Objects(work[t].key)
  PROVE  /\ TypeOK' /\ DOMAIN work' = Thread /\ \A u \in Thread \ {t} : work'[u] = work[u]
         /\ work'[t].key = work[t].key /\ work'[t].gen = work[t].gen /\ work'[t].at = work[t].at
         /\ work'[t].results = work[t].results /\ work'[t].status = work[t].status
         /\ work'[t].todo = Tail(work[t].todo)
         /\ work'[t].pc = IF Len(work[t].todo) = 1 THEN "sweep" ELSE "apply"
         /\ ObjectStep(work[t].key, o, mergeObjects(obj[work[t].key][o], work[t].gen))
<1> DEFINE p == work[t].key
           v == mergeObjects(obj[p][o], work[t].gen)
<1>1. /\ work[t].pc = "apply" /\ work[t].todo # <<>> /\ obj' = [obj EXCEPT ![p][o] = v]
      /\ queue' = IF obj' = obj THEN queue ELSE Notify(p, o[2])
      /\ work' = [work EXCEPT ![t].todo = Tail(@), ![t].pc = IF Len(work[t].todo) = 1 THEN "sweep" ELSE "apply"]
      /\ UNCHANGED <<users, status, cache, history, unsaid, faults>>
  BY Zenon DEF createOrUpdateObjs
<1>2. DOMAIN work = Thread /\ work[t] \in WorkType /\ p \in Policy /\ work[t].gen = acting[p] /\ DOMAIN obj = Policy
  BY <1>1, PassType, Zenon DEF TypeOK
<1>3. Tail(work[t].todo) \in Seq(Range(GetSupportedGVKs))
  BY <1>1, <1>2 DEF WorkType
<1>4. DOMAIN work' = Thread /\ \A u \in Thread \ {t} : work'[u] = work[u]
  BY <1>1, <1>2, Zenon
<1>5. work'[t] = [work[t] EXCEPT !.todo = Tail(@), !.pc = IF Len(work[t].todo) = 1 THEN "sweep" ELSE "apply"]
  BY <1>1, <1>2, Zenon
<1>6. /\ work'[t] \in WorkType /\ work'[t].key = work[t].key /\ work'[t].gen = work[t].gen
      /\ work'[t].at = work[t].at /\ work'[t].results = work[t].results /\ work'[t].status = work[t].status
      /\ work'[t].todo = Tail(work[t].todo)
      /\ work'[t].pc = IF Len(work[t].todo) = 1 THEN "sweep" ELSE "apply"
  BY <1>2, <1>3, <1>5, Zenon DEF WorkType
<1>7. ObjectStep(p, o, v)
  BY <1>1, <1>2, Zenon DEF ObjectStep
<1>8. v \in ObjectType /\ v.gen <= acting[p] /\ v.seen <= acting[p]
  <2>1. obj[p][o] \in ObjectType /\ obj[p][o].seen <= acting[p] /\ acting[p] \in Nat
    BY <1>2, GenType, Zenon DEF TypeOK, PolicyOK
  <2>2. QED
    BY <1>2, <2>1 DEF mergeObjects, ObjectType
<1>9. DOMAIN obj' = Policy /\ DOMAIN taken' = Policy /\ \A q \in Policy : PolicyOK(q)'
  BY <1>1, <1>2, <1>7, <1>8, ObjectStepType, Zenon DEF history
<1>10. WorkOK(t)'
  <2>1. work'[t].pc \notin {"idle", "status"} /\ UNCHANGED <<setup, spec, acting>>
    BY <1>1, <1>6 DEF users, history
  <2>2. QED
    BY <1>1, <1>6, <2>1, PassKept, Zenon
<1>11. \A u \in Thread : WorkOK(u)'
  BY <1>1, <1>4, <1>10, WorkKept, Zenon DEF users, history
<1>12. queue' \subseteq Policy
  BY <1>1, <1>2, NotifyType, Zenon DEF TypeOK
<1>13. TypeOK'
  BY <1>1, <1>4, <1>9, <1>11, <1>12, Zenon DEF TypeOK, users, history
<1>14. QED
  BY <1>4, <1>6, <1>7, <1>13, Zenon

\* The object that a pass applies next is one that the spec asks for.
LEMMA ApplyObject ==
  ASSUME TypeOK, NEW t \in Thread, PassInv(t), work[t].pc = "apply", work[t].todo # <<>>
  PROVE  /\ <<Comp(work[t]), Head(work[t].todo)>> \in Objects(work[t].key)
         /\ <<Comp(work[t]), Head(work[t].todo)>> \in Wanted(work[t].key, spec[work[t].key][work[t].gen])
<1> DEFINE w == work[t]
           k == Head(w.todo)
<1>1. /\ w \in WorkType /\ w.key \in Policy /\ spec[w.key][w.gen] \in Specs(w.key) /\ setup \in Setups
      /\ Comp(w) \in DOMAIN spec[w.key][w.gen]
  BY PassType, Zenon DEF TypeOK
<1>2. k \in Range(w.todo)
  BY <1>1 DEF WorkType, Range
<1>3. k \in Range(GetManifestObjects(w.key, Comp(w), ModeOf(w))) /\ ModeOf(w) \in {"plain", "full"}
  BY <1>2, Zenon DEF PassInv, TodoOK
<1>4. <<Comp(w), k>> \in Wanted(w.key, spec[w.key][w.gen])
  BY <1>1, <1>3, WantedType, Zenon DEF ModeOf
<1>5. QED
  BY <1>1, <1>4, WantedType

\* The objects that a pass deletes are those of its own policy.
LEMMA StaleObject ==
  ASSUME TypeOK, NEW t \in Thread, work[t].pc = "sweep", NEW x \in Stale(work[t])
  PROVE  /\ x[1] = work[t].key /\ <<Comp(work[t]), x[2]>> \in Objects(work[t].key)
         /\ <<Comp(work[t]), x[2]>> \notin Wanted(work[t].key, spec[work[t].key][work[t].gen])
<1>1. work[t].key \in Policy /\ Comp(work[t]) \in DOMAIN States(work[t].key)
  BY PassType, Zenon
<1>2. Matching(work[t]) = {work[t].key}
  BY <1>1, ComponentFacts, Zenon DEF Matching
<1>3. x[1] = work[t].key
  BY <1>2, Zenon DEF Stale
<1>4. QED
  BY <1>3, Zenon DEF Stale

LEMMA SweepType ==
  ASSUME TypeOK, NEW t \in Thread, deleteStateRelatedObjects(t)
  PROVE  /\ TypeOK' /\ DOMAIN work' = Thread /\ \A u \in Thread \ {t} : work'[u] = work[u]
         /\ work'[t] = [work[t] EXCEPT !.found = TRUE] /\ work[t] \in WorkType
         /\ UNCHANGED <<users, status, cache, history, unsaid, faults>>
         /\ \E k \in Kind :
              LET o == <<Comp(work[t]), k>>
              IN  /\ o \in Objects(work[t].key) \ Wanted(work[t].key, spec[work[t].key][work[t].gen])
                  /\ ObjectStep(work[t].key, o, Gone) /\ queue' = Notify(work[t].key, k)
<1> DEFINE p == work[t].key
<1>1. /\ work[t].pc = "sweep" /\ work' = [work EXCEPT ![t].found = TRUE]
      /\ UNCHANGED <<users, status, cache, history, unsaid, faults>>
  BY Zenon DEF deleteStateRelatedObjects
<1>2. PICK x \in Stale(work[t]) : /\ obj' = [obj EXCEPT ![x[1]][<<Comp(work[t]), x[2]>>] = Gone]
                                  /\ queue' = Notify(x[1], x[2])
  BY Zenon DEF deleteStateRelatedObjects, First
<1>3. x[2] \in Kind
  BY Zenon DEF Stale, Kind
<1> DEFINE o == <<Comp(work[t]), x[2]>>
<1>4. x[1] = p /\ o \in Objects(p) /\ o \notin Wanted(p, spec[p][work[t].gen]) /\ p \in Policy
  BY <1>1, StaleObject, PassType, Zenon
<1>5. DOMAIN work = Thread /\ work[t] \in WorkType /\ DOMAIN obj = Policy
  BY <1>1, PassType, Zenon DEF TypeOK
<1>6. ObjectStep(p, o, Gone)
  BY <1>2, <1>4, <1>5, Zenon DEF ObjectStep
<1>7. DOMAIN obj' = Policy /\ DOMAIN taken' = Policy /\ \A q \in Policy : PolicyOK(q)'
  <2>1. Gone.gen <= acting[p] /\ Gone.seen <= acting[p]
    BY <1>4, GoneType, GenType
  <2>2. QED
    BY <1>1, <1>4, <1>6, <2>1, GoneType, ObjectStepType, Zenon DEF history
<1>8. /\ DOMAIN work' = Thread /\ \A u \in Thread \ {t} : work'[u] = work[u]
      /\ work'[t] = [work[t] EXCEPT !.found = TRUE]
  BY <1>1, <1>5, Zenon
<1>9. WorkOK(t)'
  <2>1. /\ work'[t] \in WorkType /\ work'[t].key = work[t].key /\ work'[t].gen = work[t].gen
        /\ work'[t].at = work[t].at /\ work'[t].results = work[t].results /\ work'[t].pc = "sweep"
    BY <1>1, <1>5, <1>8, Zenon DEF WorkType
  <2>2. QED
    BY <1>1, <2>1, PassKept, Zenon DEF users, history
<1>10. \A u \in Thread : WorkOK(u)'
  BY <1>1, <1>8, <1>9, WorkKept, Zenon DEF users, history
<1>11. queue' \subseteq Policy
  BY <1>2, <1>4, NotifyType, Zenon
<1>12. TypeOK'
  BY <1>1, <1>7, <1>8, <1>10, <1>11, Zenon DEF TypeOK, users, history
<1>13. QED
  BY <1>1, <1>2, <1>3, <1>4, <1>5, <1>6, <1>8, <1>12, Zenon

\* A Sync goes on to its check, or from one object to the next.
Checking(t) ==
  \/ /\ work[t].pc = "sweep" /\ ModeOf(work[t]) # "off"
     /\ work' = [work EXCEPT ![t].pc = "check",
                             ![t].todo = GetManifestObjects(work[t].key, Comp(work[t]), ModeOf(work[t]))]
  \/ /\ work[t].pc = "check" /\ work[t].todo # <<>>
     /\ work' = [work EXCEPT ![t].todo = Tail(@)]

LEMMA CheckWork ==
  ASSUME TypeOK, NEW t \in Thread, Checking(t)
  PROVE  /\ DOMAIN work' = Thread /\ \A u \in Thread \ {t} : work'[u] = work[u]
         /\ work'[t] \in WorkType /\ work'[t].pc = "check" /\ work'[t].key = work[t].key
         /\ work'[t].gen = work[t].gen /\ work'[t].at = work[t].at /\ work'[t].results = work[t].results
<1>1. DOMAIN work = Thread /\ work[t] \in WorkType
  BY Zenon DEF TypeOK, WorkOK
<1>2. DOMAIN work' = Thread /\ \A u \in Thread \ {t} : work'[u] = work[u]
  BY <1>1, Zenon DEF Checking
<1>3. PICK s \in Seq(Range(GetSupportedGVKs)) :
        \/ work'[t] = [work[t] EXCEPT !.pc = "check", !.todo = s]
        \/ work[t].pc = "check" /\ work'[t] = [work[t] EXCEPT !.todo = s]
  <2>1. CASE work[t].pc = "sweep"
    <3>1. GetManifestObjects(work[t].key, Comp(work[t]), ModeOf(work[t])) \in Seq(Range(GetSupportedGVKs))
      BY <2>1, PassType, ManifestType, Zenon DEF Kind
    <3>2. QED
      BY <1>1, <2>1, <3>1, Zenon DEF Checking
  <2>2. CASE work[t].pc = "check"
    <3>1. work[t].todo # <<>> /\ work' = [work EXCEPT ![t].todo = Tail(@)]
      BY <2>2, Zenon DEF Checking
    <3>2. Tail(work[t].todo) \in Seq(Range(GetSupportedGVKs))
      BY <1>1, <3>1 DEF WorkType
    <3>3. QED
      BY <1>1, <2>2, <3>1, <3>2, Zenon
  <2>3. QED
    BY <2>1, <2>2, Zenon DEF Checking
<1>4. QED
  BY <1>1, <1>2, <1>3, Zenon DEF WorkType

\* sweepDone, getSyncState and callFails end a Sync or go on with its check.
LEMMA SyncEnds ==
  ASSUME NEW t \in Thread, sweepDone(t) \/ getSyncState(t) \/ callFails(t)
  PROVE  \/ Checking(t)
         \/ \E r \in {"ready", "notReady", "ignore", "error"} : Result(t, r)
  BY Zenon DEF sweepDone, getSyncState, callFails, Checking

LEMMA SyncEndsType ==
  ASSUME TypeOK, NEW t \in Thread, sweepDone(t) \/ getSyncState(t) \/ callFails(t)
  PROVE  TypeOK'
<1>1. /\ work[t].pc \in {"apply", "sweep", "check"}
      /\ UNCHANGED <<users, status, cache, obj, queue, history, unsaid>>
  BY Zenon DEF sweepDone, getSyncState, callFails
<1>2. faults' \in 0 .. setup.faults
  BY SyncAssumption DEF sweepDone, getSyncState, callFails, Fault, TypeOK
<1>3. ASSUME NEW r \in {"ready", "notReady", "ignore", "error"}, Result(t, r) PROVE TypeOK'
  BY <1>1, <1>2, <1>3, ResultType, Zenon
<1>4. CASE Checking(t)
  <2>1. WorkOK(t)'
    BY <1>1, <1>4, CheckWork, PassKept, Zenon DEF users, history
  <2>2. QED
    BY <1>1, <1>2, <1>4, <2>1, CheckWork, WorkStepType, Zenon DEF TypeOK
<1>5. QED
  BY <1>3, <1>4, SyncEnds, Zenon

LEMMA ReportType ==
  ASSUME TypeOK, NEW t \in Thread, work[t].pc = "status"
  PROVE  /\ work[t].key \in Policy /\ work[t].gen = acting[work[t].key]
         /\ work[t].results \in Seq({"ready", "notReady", "ignore", "error"})
         /\ DOMAIN work[t].results = 1 .. Len(setup.of[work[t].key])
         /\ Report(work[t]) \in StatusType /\ Report(work[t]).gen = work[t].gen
         /\ Len(Report(work[t]).conditions) = Len(setup.of[work[t].key])
<1> DEFINE w == work[t]
           conditions == computePolicyConditions(w.results)
<1>1. /\ w \in WorkType /\ w.key \in Policy /\ w.gen = acting[w.key] /\ setup \in Setups
      /\ w.results \in Seq({"ready", "notReady", "ignore", "error"})
      /\ Len(w.results) + 1 = w.at /\ w.at = Len(setup.of[w.key]) + 1
  BY Zenon DEF TypeOK, WorkOK, WorkType
<1>2. Len(w.results) = Len(setup.of[w.key]) /\ DOMAIN w.results = 1 .. Len(setup.of[w.key]) /\ Len(w.results) \in Nat
  <2>1. /\ Len(setup.of[w.key]) \in Nat /\ Len(w.results) \in Nat /\ DOMAIN w.results = 1 .. Len(w.results)
        /\ Len(w.results) + 1 = Len(setup.of[w.key]) + 1
    BY <1>1, OfType, LenProperties, Zenon
  <2>2. \A m, n \in Nat : m + 1 = n + 1 => m = n
    OBVIOUS
  <2>3. QED
    BY <2>1, <2>2, Zenon
<1>3. conditions \in Seq({"", "True", "False"}) /\ Len(conditions) = Len(setup.of[w.key])
  <2>1. conditions = [i \in 1 .. Len(w.results) |-> Condition(w.results[i])]
    BY <1>1, <1>2, Zenon DEF computePolicyConditions
  <2>2. \A i \in 1 .. Len(w.results) : Condition(w.results[i]) \in {"", "True", "False"}
    BY Zenon DEF Condition
  <2>3. conditions \in [1 .. Len(w.results) -> {"", "True", "False"}]
    BY <2>1, <2>2, Zenon
  <2>4. conditions \in Seq({"", "True", "False"}) /\ DOMAIN conditions = 1 .. Len(w.results)
    BY <1>2, <2>3, SeqDef, Zenon
  <2> HIDE DEF conditions
  <2>5. Len(conditions) \in Nat /\ DOMAIN conditions = 1 .. Len(conditions)
    BY <2>4, LenProperties, Zenon
  <2>6. \A m, n \in Nat : 1 .. m = 1 .. n => m = n
    OBVIOUS
  <2>7. QED
    BY <1>2, <2>4, <2>5, <2>6, Zenon
<1>4. ReadyCondition(conditions) \in BOOLEAN /\ SyncState(w.results) \in {"ready", "notReady"} /\ w.gen \in Nat
  BY <1>1, GenType, Zenon DEF ReadyCondition, SyncState
<1>5. QED
  BY <1>1, <1>2, <1>3, <1>4, Zenon DEF Report, StatusType

LEMMA PassEndsType ==
  ASSUME TypeOK, NEW t \in Thread, updatePolicyCRStatus(t) \/ statusUpdateFails(t)
  PROVE  TypeOK'
<1>0. work[t].pc = "status"
  BY Zenon DEF updatePolicyCRStatus, statusUpdateFails
<1>1. PICK p \in Policy : p = work[t].key
  BY <1>0, ReportType, Zenon
<1>2. /\ work' = [work EXCEPT ![t] = Idle] /\ queue' = Requeue(work[t]) /\ UNCHANGED <<users, cache, obj, history>>
      /\ unsaid' \in {unsaid, unsaid \ {p}, unsaid \cup {p}}
      /\ status' = status \/ status' = [status EXCEPT ![p] = Report(work[t])]
  BY <1>1, Zenon DEF updatePolicyCRStatus, statusUpdateFails
<1>3. faults' \in 0 .. setup.faults
  BY SyncAssumption DEF updatePolicyCRStatus, statusUpdateFails, Fault, TypeOK
<1>4. queue' \subseteq Policy /\ unsaid' \subseteq Policy
  BY <1>1, <1>2, Zenon DEF Requeue, TypeOK
<1>5. DOMAIN work' = Thread /\ work'[t] = Idle /\ \A u \in Thread \ {t} : work'[u] = work[u]
  BY <1>2, Zenon DEF TypeOK
<1>6. \A u \in Thread : WorkOK(u)'
  BY <1>2, <1>5, IdleOK, WorkKept, Zenon DEF users, history
<1>7. DOMAIN status' = Policy /\ \A q \in Policy \ {p} : status'[q] = status[q]
  BY <1>2, Zenon DEF TypeOK
<1>8. ASSUME NEW q \in Policy, q # p PROVE PolicyOK(q)'
  BY <1>2, <1>7, <1>8, PolicyKept, Zenon DEF TypeOK, users, history
<1>9. PolicyOK(p)'
  <2>1. status'[p] \in {status[p], Report(work[t])} /\ UNCHANGED <<setup, spec, cache, obj, acting, taken>>
    BY <1>2, Zenon DEF TypeOK, users, history
  <2>2. Specs(p)' = Specs(p) /\ Objects(p)' = Objects(p)
    BY <2>1, Zenon DEF Specs, Objects
  <2>3. /\ Report(work[t]) \in StatusType /\ Report(work[t]).gen = acting[p]
        /\ Len(Report(work[t]).conditions) = Len(setup.of[p])
    BY <1>0, <1>1, ReportType, Zenon
  <2>4. Report(work[t]).gen <= Len(spec[p])
    BY <2>3, GenType
  <2>5. QED
    BY <2>1, <2>2, <2>3, <2>4, Zenon DEF PolicyOK, TypeOK
<1>10. QED
  BY <1>2, <1>3, <1>4, <1>5, <1>6, <1>7, <1>8, <1>9, Zenon DEF TypeOK, users, history

LEMMA NowType ==
  ASSUME TypeOK, NEW p \in Policy, UNCHANGED <<users, status, obj, history>>,
         cache'[p] = [gen |-> Len(spec[p]), status |-> status[p]]
  PROVE  PolicyOK(p)'
<1>1. UNCHANGED <<setup, spec, acting, taken>> /\ PolicyOK(p)
  BY Zenon DEF users, history, TypeOK
<1>2. Specs(p)' = Specs(p) /\ Objects(p)' = Objects(p)
  BY <1>1, Zenon DEF Specs, Objects
<1>3. Len(spec[p]) \in 0 .. Len(spec[p]) /\ acting[p] \in 0 .. Len(spec[p])
  BY GenType
<1>4. QED
  BY <1>1, <1>2, <1>3 DEF PolicyOK

LEMMA RestartType ==
  ASSUME TypeOK, operatorRestarts
  PROVE  TypeOK'
<1>1. /\ UNCHANGED <<users, status, obj, history, unsaid>> /\ DOMAIN work' = Thread /\ DOMAIN cache' = Policy
      /\ \A t \in Thread : work'[t] = Idle
      /\ \A p \in Policy : cache'[p] = [gen |-> Len(spec[p]), status |-> status[p]]
      /\ queue' \subseteq Policy
  BY Zenon DEF operatorRestarts
<1>2. faults' \in 0 .. setup.faults
  BY SyncAssumption DEF operatorRestarts, Fault, TypeOK
<1>3. QED
  BY <1>1, <1>2, NowType, IdleOK, Zenon DEF TypeOK, users, history

LEMMA ObserveType ==
  ASSUME TypeOK, NEW p \in Policy, observe(p)
  PROVE  TypeOK'
<1>1. /\ UNCHANGED <<users, status, obj, work, history, unsaid, faults>> /\ DOMAIN cache' = Policy
      /\ cache'[p] = [gen |-> Len(spec[p]), status |-> status[p]]
      /\ \A q \in Policy \ {p} : cache'[q] = cache[q]
      /\ queue' \subseteq Policy
  BY Zenon DEF observe, TypeOK
<1>2. \A q \in Policy : PolicyOK(q)'
  BY <1>1, NowType, PolicyKept, Zenon DEF TypeOK, users, history
<1>3. \A t \in Thread : WorkOK(t)'
  BY <1>1, WorkKept, Zenon DEF users, history
<1>4. QED
  BY <1>1, <1>2, <1>3, Zenon DEF TypeOK, users, history

\* What happens to an object while no pass touches it.
LEMMA ClusterEffect ==
  ASSUME TypeOK, NEW p \in Policy, NEW o \in Objects(p),
         daemonSetObserved(p, o) \/ podsChange(p, o) \/ garbageCollected(p, o) \/ deletedByHand(p, o)
  PROVE  /\ UNCHANGED <<users, status, cache, acting, work, unsaid>> /\ queue' = Notify(p, o[2])
         /\ \E v \in ObjectType :
              /\ ObjectStep(p, o, v) /\ v.gen <= acting[p] /\ v.seen <= acting[p]
              /\ \/ v = Gone /\ taken' = [taken EXCEPT ![p] = @ \cup {o}]
                 \/ v.gen = obj[p][o].gen /\ taken' = taken /\ o[2] = "DaemonSet"
<1>1. obj[p][o] \in ObjectType /\ obj[p][o].gen <= acting[p] /\ obj[p][o].seen <= acting[p] /\ DOMAIN obj = Policy
      /\ obj[p] \in [Objects(p) -> ObjectType]
  BY Zenon DEF TypeOK, PolicyOK
<1>2. CASE garbageCollected(p, o) \/ deletedByHand(p, o)
  <2>1. /\ obj' = [obj EXCEPT ![p][o] = Gone] /\ taken' = [taken EXCEPT ![p] = @ \cup {o}] /\ queue' = Notify(p, o[2])
        /\ UNCHANGED <<users, status, cache, acting, work, unsaid>>
    BY <1>2, Zenon DEF garbageCollected, deletedByHand, Vanishes
  <2>2. ObjectStep(p, o, Gone)
    BY <1>1, <2>1, Zenon DEF ObjectStep
  <2>3. QED
    BY <2>1, <2>2, GoneType, GenType
<1>3. CASE daemonSetObserved(p, o)
  <2>1. PICK full \in {FALSE, obj[p][o].full} :
          obj' = [obj EXCEPT ![p][o].seen = obj[p][o].gen, ![p][o].full = full]
    BY <1>3, Zenon DEF daemonSetObserved
  <2> DEFINE v == [obj[p][o] EXCEPT !.seen = obj[p][o].gen, !.full = full]
  <2>2. v \in ObjectType /\ v.gen = obj[p][o].gen /\ v.seen = obj[p][o].gen
    BY <1>1, Zenon DEF ObjectType
  <2>3. ObjectStep(p, o, v)
    BY <1>1, <2>1, Zenon DEF ObjectStep
  <2>4. QED
    BY <1>1, <1>3, <2>2, <2>3, Zenon DEF daemonSetObserved, history
<1>4. CASE podsChange(p, o)
  <2> DEFINE v == [obj[p][o] EXCEPT !.full = ~@]
  <2>1. v \in ObjectType /\ v.gen = obj[p][o].gen /\ v.seen = obj[p][o].seen
    BY <1>1, Zenon DEF ObjectType
  <2>2. ObjectStep(p, o, v)
    BY <1>1, <1>4, Zenon DEF ObjectStep, podsChange
  <2>3. QED
    BY <1>1, <1>4, <2>1, <2>2, Zenon DEF podsChange, history
<1>5. QED
  BY <1>2, <1>3, <1>4, Zenon

LEMMA CrdType ==
  ASSUME TypeOK, crdInstalled
  PROVE  TypeOK'
<1>1. UNCHANGED <<setup, spec, edits, status, cache, obj, queue, work, history, unsaid, faults>> /\ crd' = TRUE
  BY Zenon DEF crdInstalled
<1>2. \A q \in Policy : PolicyOK(q)'
  BY <1>1, PolicyKept, Zenon DEF TypeOK, history
<1>3. \A t \in Thread : WorkOK(t)'
  BY <1>1, WorkKept, Zenon DEF history
<1>4. QED
  BY <1>1, <1>2, <1>3, Zenon DEF TypeOK, history

LEMMA InitType == Init => TypeOK
<1> SUFFICES ASSUME Init PROVE TypeOK
  BY Zenon
<1>1. setup \in Setups /\ crd \in BOOLEAN /\ edits \in 0 .. setup.edits /\ faults \in 0 .. setup.faults
  <2>1. setup \in Setups /\ edits = 0 /\ faults = 0
    BY Zenon DEF Init
  <2>2. setup.edits \in Nat /\ setup.faults \in Nat
    BY <2>1, SyncAssumption, Zenon
  <2>3. crd \in BOOLEAN
    BY Zenon DEF Init
  <2>4. QED
    BY <2>1, <2>2, <2>3
<1>2. ASSUME NEW p \in Policy PROVE PolicyOK(p)
  <2>1. NoStatus \in StatusType /\ NoStatus.gen = 0 /\ Len(NoStatus.conditions) = 0
    BY EmptySeq, Zenon DEF NoStatus, StatusType
  <2>2. spec[p] = <<>> /\ status[p] = NoStatus /\ cache[p] = [gen |-> 0, status |-> NoStatus] /\ acting[p] = 0
        /\ taken[p] = {} /\ obj[p] = [o \in Objects(p) |-> Gone]
    BY Zenon DEF Init
  <2>3. spec[p] \in Seq(Specs(p) \cup {NoPolicy}) /\ Len(spec[p]) = 0
    BY <2>2, EmptySeq, Zenon
  <2>4. QED
    BY <2>1, <2>2, <2>3, GoneType DEF PolicyOK
<1>3. \A t \in Thread : WorkOK(t)
  BY IdleType, Zenon DEF Init, WorkOK
<1>4. QED
  BY <1>1, <1>2, <1>3, Zenon DEF Init, TypeOK

LEMMA NextType == TypeOK /\ (\A t \in Thread : PassInv(t)) /\ [Next]_vars => TypeOK'
<1> SUFFICES ASSUME TypeOK, \A t \in Thread : PassInv(t), [Next]_vars PROVE TypeOK'
  BY Zenon
<1>1. CASE UNCHANGED vars
  <2>1. \A q \in Policy : PolicyOK(q)'
    BY <1>1, PolicyKept, Zenon DEF TypeOK, vars
  <2>2. \A t \in Thread : WorkOK(t)'
    BY <1>1, WorkKept, Zenon DEF vars
  <2>3. QED
    BY <1>1, <2>1, <2>2, Zenon DEF TypeOK, vars
<1>2. ASSUME NEW p \in Policy, userDeletes(p) \/ \E s \in Specs(p) : userSubmits(p, s) PROVE TypeOK'
  BY <1>2, SubmitType, Zenon DEF userDeletes, userSubmits
<1>3. ASSUME NEW t \in Thread, createOrUpdateObjs(t) PROVE TypeOK'
  BY <1>3, ApplyObject, ApplyType, Zenon DEF createOrUpdateObjs
<1>4. ASSUME NEW p \in Policy, NEW o \in Objects(p),
             daemonSetObserved(p, o) \/ podsChange(p, o) \/ garbageCollected(p, o) \/ deletedByHand(p, o)
      PROVE  TypeOK'
  <2>1. faults' \in 0 .. setup.faults
    BY <1>4, SyncAssumption DEF daemonSetObserved, podsChange, garbageCollected, deletedByHand, Fault, TypeOK
  <2>2. PICK v \in ObjectType :
          /\ ObjectStep(p, o, v) /\ v.gen <= acting[p] /\ v.seen <= acting[p]
          /\ taken' = taken \/ taken' = [taken EXCEPT ![p] = @ \cup {o}]
    BY <1>4, ClusterEffect, Zenon
  <2>3. UNCHANGED <<users, status, cache, acting, work, unsaid>> /\ queue' = Notify(p, o[2])
    BY <1>4, ClusterEffect, Zenon
  <2>4. QED
    BY <2>1, <2>2, <2>3, EnvironmentType, Zenon
<1>5. QED
  BY <1>1, <1>2, <1>3, <1>4, ReconcileType, ObserveType, SyncType, SweepType, SyncEndsType, PassEndsType, RestartType,
     CrdType, Zenon DEF Next, Step

-----------------------------------------------------------------------------
(***************************************************************************)
(* What a pass achieves.                                                    *)
(***************************************************************************)

\* The wishes of the spec that is acted on and what meets them, while objects
\* of the policy are only taken.
LEMMA PlacedKept ==
  ASSUME setup' = setup, NEW p \in Policy, acting'[p] = acting[p],
         spec'[p][acting[p]] = spec[p][acting[p]], taken[p] \subseteq taken'[p],
         \A o \in Objects(p) \ taken'[p] : obj'[p][o].gen = obj[p][o].gen
  PROVE  /\ Asked(p)' = Asked(p) /\ Objects(p)' = Objects(p)
         /\ \A c : Placed(p, c) => Placed(p, c)'
<1>1. Asked(p)' = Asked(p)
  BY Zenon DEF Asked
<1>2. Objects(p)' = Objects(p)
  BY Zenon DEF Objects
<1>3. QED
  BY <1>1, <1>2, Zenon DEF Placed

\* The results of a pass that goes on with them are as good as they were.
LEMMA ResultsKept ==
  ASSUME NEW w, NEW v, ResultsOK(w), v.key = w.key, v.gen = w.gen, v.results = w.results, setup' = setup,
         spec'[w.key][w.gen] = spec[w.key][w.gen], \A c : Placed(w.key, c) => Placed(w.key, c)'
  PROVE  ResultsOK(v)'
<1>1. ASSUME NEW i \in DOMAIN v.results, v.results[i] \in {"ready", "ignore"}
      PROVE  /\ Placed(v.key, setup.of[v.key][i])'
             /\ v.results[i] = "ignore" <=> spec'[v.key][v.gen][setup'.of[v.key][i]] = "off"
  <2>1. PICK c : c = setup.of[w.key][i]
    BY Zenon
  <2>2. Placed(w.key, c) /\ (w.results[i] = "ignore" <=> spec[w.key][w.gen][c] = "off")
    BY <1>1, <2>1, ZenonT(60) DEF ResultsOK
  <2>3. Placed(w.key, c)'
    BY <2>2, Zenon
  <2>4. QED
    BY <2>1, <2>2, <2>3, ZenonT(60) DEF Placed
<1>2. QED
  BY <1>1, ZenonT(60) DEF ResultsOK

LEMMA PassFrame ==
  ASSUME TypeOK, NEW t \in Thread, PassInv(t), setup' = setup, work'[t] = work[t],
         NEW w, w = work[t], w.pc # "idle" =>
           /\ acting'[w.key] = acting[w.key] /\ spec'[w.key][w.gen] = spec[w.key][w.gen]
           /\ taken[w.key] \subseteq taken'[w.key]
           /\ \A o \in Objects(w.key) \ taken'[w.key] : obj'[w.key][o].gen = obj[w.key][o].gen
  PROVE  PassInv(t)'
<1> SUFFICES ASSUME w.pc # "idle"
             PROVE  /\ ResultsOK(w)' /\ TodoOK(w)'
                    /\ w.pc \in {"apply", "sweep"} /\ ModeOf(w)' # "off" => AppliedOK(w)'
                    /\ w.pc = "check" => Placed(w.key, Comp(w))'
  BY Zenon DEF PassInv
<1>1. ResultsOK(w) /\ TodoOK(w)
  BY Zenon DEF PassInv
<1>2. w.key \in Policy /\ w.gen = acting[w.key] /\ setup \in Setups
  BY Zenon DEF TypeOK, WorkOK, WorkType
<1>3. \A c : Placed(w.key, c) => Placed(w.key, c)'
  BY <1>2, PlacedKept, Zenon
<1>4. Comp(w)' = Comp(w) /\ ModeOf(w)' = ModeOf(w)
  BY Zenon DEF Comp, ModeOf
<1>5. ResultsOK(w)'
  BY <1>1, <1>3, ResultsKept, Zenon
<1>6. TodoOK(w)'
  BY <1>1, <1>4, Zenon DEF TodoOK
<1>7. ASSUME w.pc \in {"apply", "sweep"}, ModeOf(w)' # "off" PROVE AppliedOK(w)'
  <2>1. \A k \in Range(GetManifestObjects(w.key, Comp(w), ModeOf(w))) : <<Comp(w), k>> \in Objects(w.key)
    BY <1>2, <1>7, PassType, ManifestType, ObjectsType, Zenon
  <2>2. AppliedOK(w)
    BY <1>4, <1>7, Zenon DEF PassInv
  <2>3. QED
    BY <1>4, <2>1, <2>2 DEF AppliedOK
<1>8. ASSUME w.pc = "check" PROVE Placed(w.key, Comp(w))'
  BY <1>3, <1>4, <1>8 DEF PassInv, Placed
<1>9. QED
  BY <1>5, <1>6, <1>7, <1>8, Zenon

LEMMA ResultPass ==
  ASSUME TypeOK, NEW t \in Thread, PassInv(t), work[t].pc \in {"sync", "apply", "sweep", "check"},
         NEW r \in {"ready", "notReady", "ignore", "error"}, Result(t, r), UNCHANGED <<users, obj, history>>,
         r \in {"ready", "ignore"} => Placed(work[t].key, Comp(work[t])) /\ (r = "ignore" <=> ModeOf(work[t]) = "off")
  PROVE  PassInv(t)'
<1>1. PICK w : w = work[t]
  BY Zenon
<1>2. PICK v : v = work'[t]
  BY Zenon
<1>3. /\ v.results = Append(w.results, r) /\ v.key = w.key /\ v.gen = w.gen
      /\ v.pc \in {"status", "sync"} /\ v.todo = <<>>
  BY <1>1, <1>2, ResultWork, Zenon
<1>4. /\ w.results \in Seq({"ready", "notReady", "ignore", "error"}) /\ Len(w.results) + 1 = w.at /\ w.at \in Nat
      /\ w.key \in Policy
  BY <1>1, Zenon DEF TypeOK, WorkOK, WorkType
<1>5. UNCHANGED <<setup, spec, acting, taken, obj>>
  BY Zenon DEF users, history
<1>6. \A c : Placed(w.key, c) => Placed(w.key, c)'
  BY <1>4, <1>5, PlacedKept, Zenon
<1>7. ASSUME NEW i \in DOMAIN v.results, v.results[i] \in {"ready", "ignore"}
      PROVE  /\ Placed(w.key, setup.of[w.key][i])
             /\ v.results[i] = "ignore" <=> spec[w.key][w.gen][setup.of[w.key][i]] = "off"
  <2>1. i \in 1 .. Len(w.results) + 1
    BY <1>3, <1>4, <1>7, AppendProperties
  <2>2. CASE i = Len(w.results) + 1
    <3>1. v.results[i] = r /\ i = w.at
      BY <1>3, <1>4, <2>2, AppendProperties
    <3>2. QED
      BY <1>1, <1>7, <3>1, Zenon DEF Comp, ModeOf
  <2>3. CASE i # Len(w.results) + 1
    <3>1. i \in DOMAIN w.results /\ v.results[i] = w.results[i]
      BY <1>3, <1>4, <2>1, <2>3, AppendProperties
    <3>2. QED
      BY <1>1, <1>7, <3>1, Zenon DEF PassInv, ResultsOK
  <2>4. QED
    BY <2>2, <2>3, Zenon
<1>8. ResultsOK(v)'
  BY <1>3, <1>5, <1>6, <1>7, Zenon DEF ResultsOK
<1>9. TodoOK(v)'
  BY <1>3, Zenon DEF TodoOK
<1>10. QED
  BY <1>2, <1>3, <1>8, <1>9, Zenon DEF PassInv

LEMMA SweptPlaced ==
  ASSUME TypeOK, NEW t \in Thread, PassInv(t), work[t].pc = "sweep", Stale(work[t]) = {}
  PROVE  Placed(work[t].key, Comp(work[t]))
<1>1. PICK w : w = work[t]
  BY Zenon
<1>2. PICK p \in Policy : p = w.key
  BY <1>1, PassType, Zenon
<1>3. PICK c : c = Comp(w)
  BY Zenon
<1>4. /\ w.gen = acting[p] /\ spec[p][w.gen] \in Specs(p) /\ c \in DOMAIN States(p) /\ c \in DOMAIN spec[p][w.gen]
      /\ setup \in Setups /\ ModeOf(w) = spec[p][w.gen][c]
  BY <1>1, <1>2, <1>3, PassType, Zenon DEF TypeOK, ModeOf
<1>5. Matching(w) = {p}
  BY <1>2, <1>3, <1>4, ComponentFacts, Zenon DEF Matching
<1>6. ASSUME NEW o \in Objects(p) \ taken[p], o[1] = c
      PROVE  obj[p][o].gen = IF o \in Asked(p) THEN acting[p] ELSE 0
  <2>1. o = <<c, o[2]>> /\ o[2] \in Kind
    BY <1>4, <1>6, ObjectsType, Zenon
  <2>2. CASE o \in Asked(p)
    <3>1. o[2] \in Range(GetManifestObjects(p, c, ModeOf(w))) /\ ModeOf(w) \in {"plain", "full"}
      BY <1>4, <2>1, <2>2, WantedType DEF Asked
    <3>2. AppliedOK(w) /\ w.todo = <<>>
      BY <1>1, <3>1, Zenon DEF PassInv, TodoOK
    <3>3. Range(w.todo) = {}
      BY <3>2 DEF Range
    <3>4. QED
      BY <1>2, <1>3, <1>4, <1>6, <2>1, <2>2, <3>1, <3>2, <3>3, Zenon DEF AppliedOK
  <2>3. CASE o \notin Asked(p)
    <3>1. PICK x : x = <<p, o[2]>>
      BY Zenon
    <3>2. x \in Matching(w) \X Range(GetSupportedGVKs) /\ x[1] = p /\ x[2] = o[2]
      BY <1>5, <2>1, <3>1, Zenon DEF Kind
    <3>3. x \notin Stale(w)
      BY <1>1, Zenon
    <3>4. obj[p][o].gen = 0
      BY <1>2, <1>3, <1>4, <1>6, <2>1, <2>3, <3>2, <3>3, Zenon DEF Stale, Asked
    <3>5. QED
      BY <2>3, <3>4, Zenon
  <2>4. QED
    BY <2>2, <2>3, Zenon
<1>7. QED
  BY <1>1, <1>2, <1>3, <1>6, Zenon DEF Placed

LEMMA SyncPass ==
  ASSUME TypeOK, NEW t \in Thread, PassInv(t), Sync(t)
  PROVE  PassInv(t)'
<1>1. work[t].pc = "sync" /\ UNCHANGED <<users, status, cache, obj, queue, history, unsaid, faults>>
  BY Zenon DEF Sync
<1>2. CASE Result(t, "notReady")
  BY <1>1, <1>2, ResultPass, Zenon
<1>3. PICK w : w = work[t]
  BY Zenon
<1>4. PICK v : v = work'[t]
  BY Zenon
<1>5. /\ UNCHANGED <<setup, spec, acting, taken, obj>> /\ w.pc = "sync" /\ w.key \in Policy /\ w \in WorkType
      /\ ModeOf(w) \in {"off", "plain", "full", "invalid"} /\ ResultsOK(w) /\ w.todo = <<>>
  BY <1>1, <1>3, PassType, Zenon DEF users, history, PassInv, TodoOK
<1>6. CASE ~Result(t, "notReady")
  <2>1. \/ ModeOf(w) = "off" /\ work' = [work EXCEPT ![t].pc = "sweep"]
        \/ /\ ModeOf(w) \in {"plain", "full"}
           /\ work' = [work EXCEPT ![t].pc = "apply", ![t].todo = GetManifestObjects(w.key, Comp(w), ModeOf(w))]
    BY <1>3, <1>5, <1>6, Zenon DEF Sync
  <2>2. DOMAIN work = Thread
    BY Zenon DEF TypeOK
  <2>3. /\ v.key = w.key /\ v.gen = w.gen /\ v.at = w.at /\ v.results = w.results
        /\ \/ v.pc = "sweep" /\ ModeOf(w) = "off" /\ v.todo = <<>>
           \/ v.pc = "apply" /\ ModeOf(w) \in {"plain", "full"} /\ v.todo = GetManifestObjects(w.key, Comp(w), ModeOf(w))
    BY <1>3, <1>4, <1>5, <2>1, <2>2 DEF WorkType
  <2>4. Comp(v)' = Comp(w) /\ ModeOf(v)' = ModeOf(w)
    BY <1>5, <2>3, Zenon DEF Comp, ModeOf
  <2>5. \A c : Placed(w.key, c) => Placed(w.key, c)'
    BY <1>5, PlacedKept, Zenon
  <2>6. ResultsOK(v)'
    BY <1>5, <2>3, <2>5, ResultsKept, Zenon
  <2>7. TodoOK(v)'
    BY <2>3, <2>4, Zenon DEF TodoOK
  <2>8. v.pc = "apply" => AppliedOK(v)'
    BY <2>3, <2>4, Zenon DEF AppliedOK
  <2>9. QED
    BY <1>4, <2>3, <2>4, <2>6, <2>7, <2>8, Zenon DEF PassInv
<1>7. QED
  BY <1>2, <1>6, Zenon

\* An object of a policy moves to what the spec that is acted on asks for.
LEMMA PlacedStep ==
  ASSUME TypeOK, UNCHANGED <<setup, spec, acting, taken>>, NEW p \in Policy, NEW o \in Objects(p), NEW v,
         ObjectStep(p, o, v), v.gen = IF o \in Asked(p) THEN acting[p] ELSE 0
  PROVE  /\ Asked(p)' = Asked(p) /\ Objects(p)' = Objects(p)
         /\ \A c : Placed(p, c) => Placed(p, c)'
<1>1. Asked(p)' = Asked(p) /\ Objects(p)' = Objects(p)
  BY Zenon DEF Asked, Objects
<1>2. \A x \in Objects(p) : obj'[p][x] = IF x = o THEN v ELSE obj[p][x]
  BY Zenon DEF ObjectStep, TypeOK, PolicyOK
<1>3. QED
  BY <1>1, <1>2, Zenon DEF Placed

LEMMA ApplyPass ==
  ASSUME TypeOK, NEW t \in Thread, PassInv(t), createOrUpdateObjs(t)
  PROVE  PassInv(t)'
<1>1. PICK w : w = work[t]
  BY Zenon
<1>2. PICK v : v = work'[t]
  BY Zenon
<1>3. PICK c : c = Comp(w)
  BY Zenon
<1>4. w.pc = "apply" /\ w.todo # <<>> /\ UNCHANGED <<users, status, cache, history, unsaid, faults>>
  BY <1>1, Zenon DEF createOrUpdateObjs
<1>5. PICK p \in Policy : p = w.key
  BY <1>1, <1>4, PassType, Zenon
<1>6. PICK o : o = <<c, Head(w.todo)>>
  BY Zenon
<1>7. o \in Objects(p) /\ o \in Asked(p) /\ w.gen = acting[p] /\ ModeOf(w) \in {"plain", "full"} /\ w.todo \in Seq(Kind)
  <2>1. o \in Objects(p) /\ o \in Wanted(p, spec[p][w.gen])
    BY <1>1, <1>3, <1>4, <1>5, <1>6, ApplyObject, Zenon
  <2>2. w.gen = acting[p] /\ w.todo \in Seq(Kind)
    BY <1>1, <1>4, <1>5, PassType, Zenon DEF WorkType, Kind
  <2>3. ModeOf(w) \in {"plain", "full"}
    BY <1>1, <1>4, Zenon DEF PassInv, TodoOK
  <2>4. QED
    BY <2>1, <2>2, <2>3, Zenon DEF Asked
<1>8. /\ v.key = p /\ v.gen = w.gen /\ v.at = w.at /\ v.results = w.results /\ v.todo = Tail(w.todo)
      /\ v.pc = IF Len(w.todo) = 1 THEN "sweep" ELSE "apply"
      /\ ObjectStep(p, o, mergeObjects(obj[p][o], w.gen))
  BY <1>1, <1>2, <1>3, <1>5, <1>6, <1>7, ApplyType, Zenon
<1>9. PICK m : m = mergeObjects(obj[p][o], w.gen)
  BY Zenon
<1>10. m.gen = w.gen
  BY <1>7, <1>9, MergeType, Zenon
<1>11. UNCHANGED <<setup, spec, acting, taken>>
  BY <1>4, Zenon DEF users, history
<1>12. \A d : Placed(p, d) => Placed(p, d)'
  BY <1>7, <1>8, <1>9, <1>10, <1>11, PlacedStep, Zenon
<1>13. Comp(v)' = c /\ ModeOf(v)' = ModeOf(w)
  BY <1>3, <1>5, <1>8, <1>11, Zenon DEF Comp, ModeOf
<1>14. ResultsOK(v)'
  <2>1. ResultsOK(w)
    BY <1>1, <1>4, Zenon DEF PassInv
  <2>2. QED
    BY <1>5, <1>8, <1>11, <1>12, <2>1, ResultsKept, Zenon
<1>15. /\ Range(w.todo) = Range(Tail(w.todo)) \cup {Head(w.todo)}
       /\ Len(w.todo) = 1 => Tail(w.todo) = <<>>
  <2>1. \A i \in 1 .. Len(w.todo) : i = 1 \/ (i - 1 \in 1 .. Len(Tail(w.todo)) /\ w.todo[i] = Tail(w.todo)[i - 1])
    BY <1>4, <1>7
  <2>2. \A i \in 1 .. Len(Tail(w.todo)) : i + 1 \in 1 .. Len(w.todo) /\ Tail(w.todo)[i] = w.todo[i + 1]
    BY <1>4, <1>7
  <2>3. 1 \in 1 .. Len(w.todo) /\ Head(w.todo) = w.todo[1]
    BY <1>4, <1>7
  <2>4. DOMAIN w.todo = 1 .. Len(w.todo) /\ DOMAIN Tail(w.todo) = 1 .. Len(Tail(w.todo))
    BY <1>4, <1>7
  <2>5. \A k \in Range(w.todo) : k \in Range(Tail(w.todo)) \cup {Head(w.todo)}
    BY <2>1, <2>3, <2>4, ZenonT(60) DEF Range
  <2>6. \A k \in Range(Tail(w.todo)) : k \in Range(w.todo)
    BY <2>2, <2>4, Zenon DEF Range
  <2>7. Head(w.todo) \in Range(w.todo)
    BY <2>3, <2>4, Zenon DEF Range
  <2>8. Len(w.todo) = 1 => Tail(w.todo) = <<>>
    <3>1. PICK s : s = Tail(w.todo)
      BY Zenon
    <3>2. s \in Seq(Kind) /\ (Len(w.todo) = 1 => Len(s) = 0)
      BY <1>4, <1>7, <3>1, HeadTailProperties
    <3>3. QED
      BY <3>1, <3>2, EmptySeq, Zenon
  <2>9. QED
    BY <2>5, <2>6, <2>7, <2>8, Zenon
<1>16. Range(w.todo) \subseteq Range(GetManifestObjects(p, c, ModeOf(w)))
  BY <1>1, <1>3, <1>4, <1>5, Zenon DEF PassInv, TodoOK
<1>17. TodoOK(v)'
  BY <1>5, <1>7, <1>8, <1>13, <1>15, <1>16, Zenon DEF TodoOK
<1>18. AppliedOK(v)'
  <2>1. AppliedOK(w)
    BY <1>1, <1>4, <1>7, Zenon DEF PassInv
  <2>2. \A k \in Range(GetManifestObjects(p, c, ModeOf(w))) : <<c, k>> \in Objects(p)
    BY <1>1, <1>3, <1>4, <1>5, PassType, ManifestType, ObjectsType, ZenonT(60) DEF TypeOK
  <2>3. \A x \in Objects(p) : obj'[p][x] = IF x = o THEN m ELSE obj[p][x]
    BY <1>7, <1>8, <1>9, ZenonT(60) DEF ObjectStep, TypeOK, PolicyOK
  <2>4. QED
    BY <1>3, <1>5, <1>6, <1>8, <1>10, <1>11, <1>13, <1>15, <2>1, <2>2, <2>3, ZenonT(60) DEF AppliedOK
<1>19. QED
  BY <1>2, <1>8, <1>14, <1>17, <1>18, Zenon DEF PassInv

LEMMA SweepPass ==
  ASSUME TypeOK, NEW t \in Thread, PassInv(t), deleteStateRelatedObjects(t)
  PROVE  PassInv(t)'
<1>1. PICK w : w = work[t]
  BY Zenon
<1>2. PICK v : v = work'[t]
  BY Zenon
<1>3. PICK c : c = Comp(w)
  BY Zenon
<1>4. w.pc = "sweep"
  BY <1>1, Zenon DEF deleteStateRelatedObjects
<1>5. PICK p \in Policy : p = w.key
  BY <1>1, <1>4, PassType, Zenon
<1>6. PICK k \in Kind : /\ <<c, k>> \in Objects(p) /\ <<c, k>> \notin Wanted(p, spec[p][w.gen])
                       /\ ObjectStep(p, <<c, k>>, Gone)
  BY <1>1, <1>3, <1>5, SweepType, Zenon
<1>7. PICK o : o = <<c, k>>
  BY Zenon
<1>8. UNCHANGED <<setup, spec, acting, taken>> /\ w.gen = acting[p]
  BY <1>1, <1>4, <1>5, SweepType, PassType, Zenon DEF users, history
<1>9. /\ v.key = p /\ v.gen = w.gen /\ v.at = w.at /\ v.results = w.results /\ v.todo = w.todo
      /\ v.pc = "sweep"
  BY <1>1, <1>2, <1>4, <1>5, SweepType, ZenonT(60) DEF WorkType
<1>10. o \notin Asked(p)
  BY <1>6, <1>7, <1>8, Zenon DEF Asked
<1>11. \A d : Placed(p, d) => Placed(p, d)'
  BY <1>6, <1>7, <1>8, <1>10, GoneType, PlacedStep, Zenon
<1>12. Comp(v)' = c /\ ModeOf(v)' = ModeOf(w)
  BY <1>3, <1>5, <1>8, <1>9, Zenon DEF Comp, ModeOf
<1>13. ResultsOK(v)'
  <2>1. ResultsOK(w)
    BY <1>1, <1>4, Zenon DEF PassInv
  <2>2. QED
    BY <1>5, <1>8, <1>9, <1>11, <2>1, ResultsKept, Zenon
<1>14. TodoOK(v)'
  <2>1. TodoOK(w)
    BY <1>1, <1>4, Zenon DEF PassInv
  <2>2. QED
    BY <1>4, <1>9, <1>12, <2>1, Zenon DEF TodoOK
<1>15. ModeOf(w) # "off" => AppliedOK(v)'
  <2>1. SUFFICES ASSUME ModeOf(w) # "off" PROVE AppliedOK(v)'
    BY Zenon
  <2>2. AppliedOK(w) /\ ModeOf(w) \in {"plain", "full"}
    BY <1>1, <1>4, <2>1, Zenon DEF PassInv, TodoOK
  <2>3. c \in DOMAIN States(p) /\ c \in DOMAIN spec[p][w.gen] /\ ModeOf(w) = spec[p][w.gen][c]
        /\ spec[p][w.gen] \in Specs(p) /\ c \in Range(setup.of[p])
    BY <1>1, <1>3, <1>4, <1>5, PassType, Zenon DEF ModeOf
  <2>4. \A j \in Range(GetManifestObjects(p, c, ModeOf(w))) :
          /\ <<c, j>> \in Objects(p) /\ <<c, j>> \in Wanted(p, spec[p][w.gen])
    BY <2>2, <2>3, ManifestType, ObjectsType, WantedType, Zenon DEF TypeOK
  <2>5. \A x \in Objects(p) : obj'[p][x] = IF x = o THEN Gone ELSE obj[p][x]
    BY <1>6, <1>7, Zenon DEF ObjectStep, TypeOK, PolicyOK
  <2>6. QED
    BY <1>3, <1>5, <1>6, <1>7, <1>8, <1>9, <1>12, <2>2, <2>4, <2>5, Zenon DEF AppliedOK
<1>16. QED
  BY <1>2, <1>9, <1>12, <1>13, <1>14, <1>15, Zenon DEF PassInv

LEMMA SyncEndsPass ==
  ASSUME TypeOK, NEW t \in Thread, PassInv(t), sweepDone(t) \/ getSyncState(t) \/ callFails(t)
  PROVE  PassInv(t)'
<1>1. work[t].pc \in {"apply", "sweep", "check"} /\ UNCHANGED <<users, obj, history>>
  BY Zenon DEF sweepDone, getSyncState, callFails
<1>2. CASE callFails(t)
  <2>1. PICK r \in {"error", "notReady"} : Result(t, r)
    BY <1>2, Zenon DEF callFails
  <2>2. QED
    BY <1>1, <2>1, ResultPass, Zenon
<1>3. ASSUME Checking(t), Placed(work[t].key, Comp(work[t])) PROVE PassInv(t)'
  <2>1. PICK w : w = work[t]
    BY Zenon
  <2>2. PICK v : v = work'[t]
    BY Zenon
  <2>3. PICK p \in Policy : p = w.key
    BY <1>1, <2>1, PassType, Zenon
  <2>4. PICK c : c = Comp(w)
    BY Zenon
  <2>5. v.key = p /\ v.gen = w.gen /\ v.at = w.at /\ v.results = w.results /\ v.pc = "check"
    BY <1>3, <2>1, <2>2, <2>3, CheckWork, Zenon
  <2>6. UNCHANGED <<setup, spec, acting, taken, obj>>
    BY <1>1, Zenon DEF users, history
  <2>7. Comp(v)' = c /\ ModeOf(v)' = ModeOf(w)
    BY <2>3, <2>4, <2>5, <2>6, Zenon DEF Comp, ModeOf
  <2>8. \A d : Placed(p, d) => Placed(p, d)'
    BY <2>6, PlacedKept, Zenon
  <2>9. ResultsOK(w) /\ TodoOK(w)
    BY <1>1, <2>1, Zenon DEF PassInv
  <2>10. ResultsOK(v)'
    BY <2>3, <2>5, <2>6, <2>8, <2>9, ResultsKept, Zenon
  <2>11. ModeOf(w) \in {"plain", "full"}
    BY <1>3, <2>1, <2>9, Zenon DEF Checking, TodoOK
  <2>12. TodoOK(v)'
    BY <2>5, <2>7, <2>11, Zenon DEF TodoOK
  <2>13. Placed(p, c)'
    BY <1>3, <2>1, <2>3, <2>4, <2>8, Zenon
  <2>14. Placed(v.key, Comp(v))'
    BY <2>5, <2>7, <2>13, Zenon DEF Placed
  <2>15. QED
    BY <2>2, <2>5, <2>10, <2>12, <2>14, Zenon DEF PassInv
<1>4. CASE getSyncState(t)
  <2>1. work[t].pc = "check"
    BY <1>4, Zenon DEF getSyncState
  <2>2. Placed(work[t].key, Comp(work[t])) /\ ModeOf(work[t]) # "off"
    BY <2>1, Zenon DEF PassInv, TodoOK
  <2>3. Checking(t) \/ \E r \in {"ready", "notReady"} : Result(t, r)
    BY <1>4, Zenon DEF getSyncState, Checking
  <2>4. QED
    BY <1>1, <1>3, <2>2, <2>3, ResultPass, Zenon
<1>5. CASE sweepDone(t)
  <2>1. work[t].pc = "sweep" /\ Stale(work[t]) = {}
    BY <1>5, Zenon DEF sweepDone
  <2>2. Placed(work[t].key, Comp(work[t]))
    BY <2>1, SweptPlaced, Zenon
  <2>3. \/ Checking(t) \/ Result(t, "notReady")
        \/ Result(t, "ignore") /\ ModeOf(work[t]) = "off"
    BY <1>5, Zenon DEF sweepDone, Checking
  <2>4. QED
    BY <1>1, <1>3, <2>2, <2>3, ResultPass, Zenon
<1>6. QED
  BY <1>2, <1>4, <1>5, Zenon

\* The pass of the other controller is about another policy.
LEMMA OtherPass ==
  ASSUME TypeOK, NEW p \in Policy, NEW t \in Thread, t # Worker(p), work[t].pc # "idle"
  PROVE  work[t].key \in Policy /\ work[t].key # p
  BY Zenon DEF TypeOK, WorkOK, WorkType

\* A step of one controller's pass, seen from the other's.
LEMMA OtherPassKept ==
  ASSUME TypeOK, NEW p \in Policy, NEW t \in Thread, PassInv(t), t # Worker(p), setup' = setup, work'[t] = work[t],
         \A q \in Policy \ {p} : /\ acting'[q] = acting[q] /\ spec'[q] = spec[q]
                                 /\ taken'[q] = taken[q] /\ obj'[q] = obj[q]
  PROVE  PassInv(t)'
<1>1. PICK w : w = work[t]
  BY Zenon
<1>2. w.pc # "idle" => w.key \in Policy \ {p}
  BY <1>1, OtherPass, Zenon
<1>3. QED
  BY <1>1, <1>2, PassFrame, Zenon

LEMMA IdlePass ==
  ASSUME NEW t \in Thread, work'[t].pc = "idle"
  PROVE  PassInv(t)'
  BY Zenon DEF PassInv

LEMMA ReconcilePass ==
  ASSUME TypeOK, NEW p \in Policy, Reconcile(p), \A t \in Thread : PassInv(t), NEW t \in Thread
  PROVE  PassInv(t)'
<1>1. /\ UNCHANGED <<setup, spec, obj>> /\ \A q \in Policy \ {p} : acting'[q] = acting[q] /\ taken'[q] = taken[q]
      /\ \A u \in Thread \ {Worker(p)} : work'[u] = work[u]
  BY Zenon DEF Reconcile, users, history, TypeOK
<1>2. CASE t # Worker(p)
  BY <1>1, <1>2, OtherPassKept, Zenon
<1>3. CASE t = Worker(p) /\ UNCHANGED <<work, history>>
  <2>1. PICK w : w = work[t]
    BY Zenon
  <2>2. work'[t] = w /\ UNCHANGED <<acting, taken>>
    BY <1>3, <2>1, Zenon DEF history
  <2>3. QED
    BY <1>1, <2>1, <2>2, PassFrame, Zenon
<1>4. CASE t = Worker(p) /\ ~UNCHANGED <<work, history>>
  <2>1. PICK v : v = work'[t]
    BY Zenon
  <2>2. v = [Idle EXCEPT !.pc = "sync", !.key = p, !.at = 1, !.gen = cache[p].gen, !.status = cache[p].status]
    BY <1>4, <2>1, Zenon DEF Reconcile, TypeOK
  <2>3. v.pc = "sync" /\ v.results = <<>> /\ v.todo = <<>>
    BY <2>2, Zenon DEF Idle
  <2>4. ResultsOK(v)'
    BY <2>3 DEF ResultsOK
  <2>5. TodoOK(v)'
    BY <2>3, Zenon DEF TodoOK
  <2>6. QED
    BY <2>1, <2>3, <2>4, <2>5, Zenon DEF PassInv
<1>5. QED
  BY <1>2, <1>3, <1>4, Zenon

LEMMA ClusterPass ==
  ASSUME TypeOK, NEW p \in Policy, NEW o \in Objects(p), NEW t \in Thread, PassInv(t),
         daemonSetObserved(p, o) \/ podsChange(p, o) \/ garbageCollected(p, o) \/ deletedByHand(p, o)
  PROVE  PassInv(t)'
<1>1. UNCHANGED <<setup, spec, acting, work>>
  BY ClusterEffect, Zenon DEF users
<1>2. PICK v \in ObjectType :
        /\ ObjectStep(p, o, v)
        /\ \/ v = Gone /\ taken' = [taken EXCEPT ![p] = @ \cup {o}]
           \/ v.gen = obj[p][o].gen /\ taken' = taken
  BY ClusterEffect, Zenon
<1>3. CASE t # Worker(p)
  <2>1. \A q \in Policy \ {p} : taken'[q] = taken[q] /\ obj'[q] = obj[q]
    BY <1>2, Zenon DEF ObjectStep, TypeOK
  <2>2. QED
    BY <1>1, <1>3, <2>1, OtherPassKept, Zenon
<1>4. CASE t = Worker(p)
  <2>1. PICK w : w = work[t]
    BY Zenon
  <2>2. \A q \in Policy : taken[q] \subseteq taken'[q] /\ (q # p => obj'[q] = obj[q])
    BY <1>2, ZenonT(60) DEF ObjectStep, TypeOK
  <2>3. \A x \in Objects(p) : obj'[p][x] = IF x = o THEN v ELSE obj[p][x]
    BY <1>2, Zenon DEF ObjectStep, TypeOK, PolicyOK
  <2>4. v = Gone => o \in taken'[p] \/ v.gen = obj[p][o].gen
    BY <1>2, Zenon DEF TypeOK
  <2>5. \A x \in Objects(p) \ taken'[p] : obj'[p][x].gen = obj[p][x].gen
    BY <1>2, <2>3, <2>4, Zenon
  <2>6. w.pc # "idle" => w.key \in Policy
    BY <2>1, Zenon DEF TypeOK, WorkOK, WorkType
  <2>7. QED
    BY <1>1, <2>1, <2>2, <2>5, <2>6, PassFrame, ZenonT(60)
<1>5. QED
  BY <1>3, <1>4, Zenon

\* What a step of a pass leaves alone.
LEMMA StepEffect ==
  ASSUME TypeOK, \A t \in Thread : PassInv(t), NEW u \in Thread, Step(u) \/ callFails(u) \/ statusUpdateFails(u)
  PROVE  /\ work[u].pc # "idle" /\ work[u].key \in Policy /\ Worker(work[u].key) = u
         /\ UNCHANGED <<setup, spec, cache, acting, taken>>
         /\ \A t \in Thread \ {u} : work'[t] = work[t]
         /\ work'[u].pc = "idle" \/ work'[u].key = work[u].key
         /\ \A q \in Policy \ {work[u].key} : status'[q] = status[q] /\ obj'[q] = obj[q]
         /\ queue \subseteq queue' /\ unsaid \ {work[u].key} \subseteq unsaid'
<1>1. work[u].pc # "idle"
  BY Zenon DEF Step, Sync, createOrUpdateObjs, deleteStateRelatedObjects, sweepDone, getSyncState, updatePolicyCRStatus,
         callFails, statusUpdateFails
<1>2. work[u].key \in Policy /\ Worker(work[u].key) = u /\ work[u] \in WorkType
  BY <1>1, Zenon DEF TypeOK, WorkOK, WorkType
<1>3. CASE createOrUpdateObjs(u)
  <2>1. work[u].pc = "apply" /\ work[u].todo # <<>> /\ UNCHANGED <<users, status, cache, history, unsaid, faults>>
    BY <1>3, Zenon DEF createOrUpdateObjs
  <2>2. PICK o : o = <<Comp(work[u]), Head(work[u].todo)>>
    BY Zenon
  <2>3. o \in Objects(work[u].key)
    BY <2>1, <2>2, ApplyObject, Zenon
  <2>4. /\ work'[u].key = work[u].key /\ \A t \in Thread \ {u} : work'[t] = work[t]
        /\ ObjectStep(work[u].key, o, mergeObjects(obj[work[u].key][o], work[u].gen))
    BY <1>3, <2>2, <2>3, ApplyType, Zenon
  <2>5. queue \subseteq queue'
    BY <1>3, Zenon DEF createOrUpdateObjs, Notify
  <2>6. QED
    BY <1>1, <1>2, <2>1, <2>4, <2>5, Zenon DEF ObjectStep, users, history
<1>4. CASE deleteStateRelatedObjects(u)
  <2>1. /\ UNCHANGED <<users, status, cache, history, unsaid, faults>> /\ \A t \in Thread \ {u} : work'[t] = work[t]
        /\ work'[u] = [work[u] EXCEPT !.found = TRUE]
    BY <1>4, SweepType, Zenon
  <2>2. work'[u].key = work[u].key
    BY <1>2, <2>1, Zenon DEF WorkType
  <2>3. PICK k \in Kind : /\ ObjectStep(work[u].key, <<Comp(work[u]), k>>, Gone)
                         /\ queue' = Notify(work[u].key, k)
    BY <1>4, SweepType, Zenon
  <2>4. QED
    BY <1>1, <1>2, <2>1, <2>2, <2>3, Zenon DEF ObjectStep, Notify, users, history
<1>5. CASE Sync(u) \/ sweepDone(u) \/ getSyncState(u) \/ callFails(u)
  <2>1. UNCHANGED <<users, status, cache, obj, queue, history, unsaid>>
    BY <1>5, Zenon DEF Sync, sweepDone, getSyncState, callFails
  <2>2. /\ \A t \in Thread \ {u} : work'[t] = work[t]
        /\ work'[u].key = work[u].key
    <3>1. \/ Checking(u) \/ \E r \in {"ready", "notReady", "ignore", "error"} : Result(u, r)
          \/ \E pc : work' = [work EXCEPT ![u].pc = pc]
          \/ \E todo : work' = [work EXCEPT ![u].pc = "apply", ![u].todo = todo]
      BY <1>5, SyncEnds, Zenon DEF Sync
    <3>2. DOMAIN work = Thread
      BY Zenon DEF TypeOK
    <3>3. CASE \E r \in {"ready", "notReady", "ignore", "error"} : Result(u, r)
      BY <1>2, <3>2, <3>3 DEF Result, WorkType
    <3>4. CASE \E pc : work' = [work EXCEPT ![u].pc = pc]
      BY <1>2, <3>2, <3>4 DEF WorkType
    <3>5. CASE \E todo : work' = [work EXCEPT ![u].pc = "apply", ![u].todo = todo]
      BY <1>2, <3>2, <3>5 DEF WorkType
    <3>6. QED
      BY <3>1, <3>3, <3>4, <3>5, CheckWork, Zenon
  <2>3. QED
    BY <1>1, <1>2, <2>1, <2>2, Zenon DEF users, history
<1>6. CASE updatePolicyCRStatus(u) \/ statusUpdateFails(u)
  <2>1. UNCHANGED <<users, cache, obj, history>> /\ queue' = Requeue(work[u])
    BY <1>6, Zenon DEF updatePolicyCRStatus, statusUpdateFails
  <2>2. work'[u].pc = "idle" /\ \A t \in Thread \ {u} : work'[t] = work[t]
    BY <1>6 DEF updatePolicyCRStatus, statusUpdateFails, Idle, TypeOK
  <2>3. /\ \A q \in Policy \ {work[u].key} : status'[q] = status[q]
        /\ unsaid \ {work[u].key} \subseteq unsaid'
    BY <1>6, Zenon DEF updatePolicyCRStatus, statusUpdateFails, TypeOK
  <2>4. QED
    BY <1>1, <1>2, <2>1, <2>2, <2>3, Zenon DEF Requeue, users, history
<1>7. QED
  BY <1>3, <1>4, <1>5, <1>6, Zenon DEF Step

LEMMA StepPass ==
  ASSUME TypeOK, \A t \in Thread : PassInv(t), NEW t \in Thread, NEW u \in Thread,
         Step(u) \/ callFails(u) \/ statusUpdateFails(u)
  PROVE  PassInv(t)'
<1>1. CASE t = u
  <2>1. CASE updatePolicyCRStatus(u) \/ statusUpdateFails(u)
    <3>1. work'[t].pc = "idle"
      BY <1>1, <2>1 DEF updatePolicyCRStatus, statusUpdateFails, Idle, TypeOK
    <3>2. QED
      BY <3>1, IdlePass, Zenon
  <2>2. QED
    BY <1>1, <2>1, SyncPass, ApplyPass, SweepPass, SyncEndsPass, Zenon DEF Step
<1>2. CASE t # u
  <2>1. PICK p \in Policy : p = work[u].key /\ Worker(p) = u
    BY StepEffect, Zenon
  <2>2. /\ UNCHANGED <<setup, spec, acting, taken>> /\ work'[t] = work[t]
        /\ \A q \in Policy \ {p} : obj'[q] = obj[q]
    BY <1>2, <2>1, StepEffect, Zenon
  <2>3. QED
    BY <1>2, <2>1, <2>2, OtherPassKept, Zenon
<1>3. QED
  BY <1>1, <1>2, Zenon

LEMMA NextPass ==
  TypeOK /\ (\A t \in Thread : PassInv(t)) /\ [Next]_vars => \A t \in Thread : PassInv(t)'
<1> SUFFICES ASSUME TypeOK, \A t \in Thread : PassInv(t), [Next]_vars, NEW t \in Thread
             PROVE  PassInv(t)'
  BY Zenon
<1>1. PICK w : w = work[t]
  BY Zenon
<1>2. ASSUME NEW p \in Policy, NEW s \in Specs(p) \cup {NoPolicy}, Submit(p, s)
      PROVE  PassInv(t)'
  <2>1. UNCHANGED <<setup, work, acting, taken, obj>>
    BY <1>2, Zenon DEF Submit, history
  <2>2. \A q \in Policy : \A g \in 1 .. Len(spec[q]) : spec'[q][g] = spec[q][g]
    BY <1>2, SubmitEffect, Zenon
  <2>3. w.pc # "idle" => w.key \in Policy /\ w.gen = acting[w.key] /\ w.gen # 0
    BY <1>1, Zenon DEF TypeOK, WorkOK, WorkType
  <2>4. w.pc # "idle" => w.gen \in 1 .. Len(spec[w.key])
    BY <2>3, GenType
  <2>5. QED
    BY <1>1, <2>1, <2>2, <2>3, <2>4, PassFrame, Zenon
<1>3. CASE UNCHANGED <<setup, spec, work, acting, taken, obj>>
  BY <1>1, <1>3, PassFrame, Zenon
<1>4. CASE operatorRestarts
  <2>1. work'[t].pc = "idle"
    BY <1>4, Zenon DEF operatorRestarts, Idle
  <2>2. QED
    BY <2>1, IdlePass, Zenon
<1>5. CASE crdInstalled \/ (\E p \in Policy : observe(p)) \/ UNCHANGED vars
  BY <1>3, <1>5, Zenon DEF crdInstalled, observe, users, history, vars
<1>6. CASE \E p \in Policy : userDeletes(p) \/ \E s \in Specs(p) : userSubmits(p, s)
  BY <1>2, <1>6, Zenon DEF userDeletes, userSubmits
<1>7. QED
  BY <1>4, <1>5, <1>6, ReconcilePass, StepPass, ClusterPass, Zenon DEF Next

-----------------------------------------------------------------------------
(***************************************************************************)
(* Objects that others took.                                                *)
(***************************************************************************)

LEMMA TakenKept ==
  ASSUME NEW p \in Policy, TakenInv(p), setup' = setup, acting'[p] = acting[p],
         acting[p] # 0 => spec'[p][acting[p]] = spec[p][acting[p]],
         \A o \in taken'[p] : \/ obj'[p][o].gen = 0
                              \/ acting[p] # 0 /\ o \in Asked(p) /\ obj'[p][o].gen = acting[p]
                              \/ o \in taken[p] /\ obj'[p][o].gen = obj[p][o].gen
  PROVE  TakenInv(p)'
<1>1. CASE acting[p] # 0
  <2>1. Asked(p)' = Asked(p)
    BY <1>1, Zenon DEF Asked
  <2>2. QED
    BY <2>1, Zenon DEF TakenInv
<1>2. CASE acting[p] = 0
  BY <1>2, Zenon DEF TakenInv
<1>3. QED
  BY <1>1, <1>2, Zenon

LEMMA NextTaken ==
  ASSUME TypeOK, \A t \in Thread : PassInv(t), [Next]_vars, NEW p \in Policy, TakenInv(p)
  PROVE  TakenInv(p)'
<1>1. CASE UNCHANGED <<setup, spec, acting, taken, obj>>
  BY <1>1, TakenKept, Zenon
<1>2. ASSUME NEW q \in Policy, NEW s \in Specs(q) \cup {NoPolicy}, Submit(q, s)
      PROVE  TakenInv(p)'
  <2>1. UNCHANGED <<setup, acting, taken, obj>>
    BY <1>2, Zenon DEF Submit, history
  <2>2. \A g \in 1 .. Len(spec[p]) : spec'[p][g] = spec[p][g]
    BY <1>2, SubmitEffect, Zenon
  <2>3. acting[p] # 0 => acting[p] \in 1 .. Len(spec[p])
    BY GenType
  <2>4. QED
    BY <2>1, <2>2, <2>3, TakenKept, Zenon
<1>3. ASSUME NEW q \in Policy, Reconcile(q)
      PROVE  TakenInv(p)'
  <2>1. /\ UNCHANGED <<setup, spec, obj>>
        /\ taken'[p] = {} \/ (acting'[p] = acting[p] /\ taken'[p] = taken[p])
    BY <1>3, Zenon DEF Reconcile, users, history, TypeOK
  <2>2. CASE taken'[p] = {}
    BY <2>2, Zenon DEF TakenInv
  <2>3. QED
    BY <2>1, <2>2, TakenKept, Zenon
<1>4. ASSUME NEW t \in Thread, createOrUpdateObjs(t)
      PROVE  TakenInv(p)'
  <2>1. work[t].pc = "apply" /\ work[t].todo # <<>> /\ UNCHANGED <<setup, spec, acting, taken>>
    BY <1>4, Zenon DEF createOrUpdateObjs, users, history
  <2>2. PICK q \in Policy : q = work[t].key
    BY <2>1, PassType, Zenon
  <2>3. PICK o : o = <<Comp(work[t]), Head(work[t].todo)>>
    BY Zenon
  <2>4. o \in Objects(q) /\ o \in Wanted(q, spec[q][work[t].gen]) /\ work[t].gen = acting[q] /\ work[t].gen # 0
    <3>1. work[t].gen = acting[q] /\ work[t].gen # 0
      BY <2>1, <2>2, Zenon DEF TypeOK, WorkOK
    <3>2. QED
      BY <2>1, <2>2, <2>3, <3>1, ApplyObject, Zenon
  <2>5. PICK m : m = mergeObjects(obj[q][o], work[t].gen)
    BY Zenon
  <2>6. ObjectStep(q, o, m)
    BY <1>4, <2>2, <2>3, <2>4, <2>5, ApplyType, Zenon
  <2>7. m.gen = acting[q]
    BY <2>4, <2>5, MergeType
  <2>8. \A x \in Objects(p) : obj'[p][x] = IF p = q /\ x = o THEN m ELSE obj[p][x]
    BY <2>6, Zenon DEF ObjectStep, TypeOK, PolicyOK
  <2>9. taken[p] \subseteq Objects(p)
    BY Zenon DEF TypeOK, PolicyOK
  <2>10. o \in Asked(q)
    BY <2>4, Zenon DEF Asked
  <2>11. QED
    BY <2>1, <2>4, <2>7, <2>8, <2>9, <2>10, TakenKept, Zenon
<1>5. ASSUME NEW t \in Thread, deleteStateRelatedObjects(t)
      PROVE  TakenInv(p)'
  <2>1. UNCHANGED <<setup, spec, acting, taken>>
    BY <1>5, SweepType, Zenon DEF users, history
  <2>2. PICK q \in Policy : q = work[t].key
    BY <1>5, PassType, Zenon DEF deleteStateRelatedObjects
  <2>3. PICK k \in Kind : <<Comp(work[t]), k>> \in Objects(q) /\ ObjectStep(q, <<Comp(work[t]), k>>, Gone)
    BY <1>5, <2>2, SweepType, Zenon
  <2>4. PICK o : o = <<Comp(work[t]), k>>
    BY Zenon
  <2>5. \A x \in Objects(p) : obj'[p][x] = IF p = q /\ x = o THEN Gone ELSE obj[p][x]
    BY <2>3, <2>4, Zenon DEF ObjectStep, TypeOK, PolicyOK
  <2>6. taken[p] \subseteq Objects(p)
    BY Zenon DEF TypeOK, PolicyOK
  <2>7. QED
    BY <2>1, <2>5, <2>6, GoneType, TakenKept, Zenon
<1>6. ASSUME NEW q \in Policy, NEW o \in Objects(q),
             daemonSetObserved(q, o) \/ podsChange(q, o) \/ garbageCollected(q, o) \/ deletedByHand(q, o)
      PROVE  TakenInv(p)'
  <2>1. UNCHANGED <<setup, spec, acting>>
    BY <1>6, ClusterEffect, Zenon DEF users
  <2>2. PICK v \in ObjectType :
          /\ ObjectStep(q, o, v)
          /\ \/ v = Gone /\ taken' = [taken EXCEPT ![q] = @ \cup {o}]
             \/ v.gen = obj[q][o].gen /\ taken' = taken
    BY <1>6, ClusterEffect, Zenon
  <2>3. \A x \in Objects(p) : obj'[p][x] = IF p = q /\ x = o THEN v ELSE obj[p][x]
    BY <2>2, Zenon DEF ObjectStep, TypeOK, PolicyOK
  <2>4. taken[p] \subseteq Objects(p) /\ DOMAIN taken = Policy
    BY Zenon DEF TypeOK, PolicyOK
  <2>5. QED
    BY <2>1, <2>2, <2>3, <2>4, GoneType, TakenKept, Zenon
<1>7. ASSUME NEW t \in Thread,
             \/ Sync(t) \/ sweepDone(t) \/ getSyncState(t) \/ updatePolicyCRStatus(t)
             \/ callFails(t) \/ statusUpdateFails(t)
      PROVE  TakenInv(p)'
  BY <1>1, <1>7, Zenon DEF Sync, sweepDone, getSyncState, updatePolicyCRStatus, callFails, statusUpdateFails, users, history
<1>8. CASE operatorRestarts \/ crdInstalled \/ (\E q \in Policy : observe(q)) \/ UNCHANGED vars
  BY <1>1, <1>8, Zenon DEF operatorRestarts, crdInstalled, observe, users, history, vars
<1>9. CASE \E q \in Policy : userDeletes(q) \/ \E s \in Specs(q) : userSubmits(q, s)
  BY <1>2, <1>9, Zenon DEF userDeletes, userSubmits
<1>10. QED
  BY <1>3, <1>4, <1>5, <1>6, <1>7, <1>8, <1>9, Zenon DEF Next, Step

\* What the theorems rest on.
Inv == TypeOK /\ (\A t \in Thread : PassInv(t)) /\ (\A p \in Policy : TakenInv(p))

LEMMA InitInv == Init => Inv
<1> SUFFICES ASSUME Init PROVE Inv
  BY Zenon
<1>1. \A t \in Thread : PassInv(t)
  BY DEF Init, Idle, PassInv
<1>2. \A p \in Policy : TakenInv(p)
  BY Zenon DEF Init, TakenInv
<1>3. QED
  BY <1>1, <1>2, InitType, Zenon DEF Inv

LEMMA NextInv == Inv /\ [Next]_vars => Inv'
<1> SUFFICES ASSUME Inv, [Next]_vars PROVE Inv'
  BY Zenon
<1>1. TypeOK'
  BY NextType, Zenon DEF Inv
<1>2. \A t \in Thread : PassInv(t)'
  BY NextPass, Zenon DEF Inv
<1>3. \A p \in Policy : TakenInv(p)'
  BY NextTaken, Zenon DEF Inv
<1>4. QED
  BY <1>1, <1>2, <1>3, Zenon DEF Inv

\* The controllers keep their state well formed: no cache, pass or object is
\* ahead of the specs, each controller works on its own policies with one
\* result per component it is through with, and a report covers all
\* components or none.
THEOREM TypeCorrect == Spec => []TypeOK
<1>1. Inv => TypeOK
  BY Zenon DEF Inv
<1>2. QED
  BY <1>1, InitInv, NextInv, PTL DEF Spec
=============================================================================
