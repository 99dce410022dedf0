--------------------------- MODULE MofedWaitProofs ---------------------------
(***************************************************************************)
(* MofedWait for every set of nodes, NICs, policies and selections: types,  *)
(* and that the label of a node with a managed driver is right when neither *)
(* controller has anything left to do.                                      *)
(***************************************************************************)
EXTENDS MofedWait, TLAPS

WorkType ==
  [pc : {"idle", "exclude", "list", "patch"}, key : Owner, mode : {"absent", "plain", "ofed"},
   skip : SUBSET Node, todo : [Node -> Patch], again : BOOLEAN, logged : BOOLEAN]

LEMMA IdleType == Idle \in WorkType /\ Idle.pc = "idle" /\ \A n \in Node : Idle.todo[n] = "done"
  BY Zenon DEF Idle, WorkType, Owner, Patch

LEMMA CoversType ==
  ASSUME NEW o \in Owner
  PROVE  Covers(o) \subseteq Node
  BY MofedAssumption, Zenon DEF Covers, Owner

LEMMA SyncedType ==
  ASSUME Types, NEW o \in Owner
  PROVE  /\ Synced(o) \in BOOLEAN
         /\ policy[o] = "ofed" => (Synced(o) <=> /\ Covers(o) \cap Nic # {}
                                                 /\ Covers(o) \cap Nic \subseteq PodsOf(o) \cap reported)
<1>1. policy[o] \in {"absent", "plain", "ofed"}
  BY Zenon DEF Types
<1>2. CASE policy[o] = "absent"
  BY <1>2, Zenon DEF Synced
<1>3. CASE policy[o] = "plain"
  BY <1>3, Zenon DEF Synced
<1>4. CASE policy[o] = "ofed"
  BY <1>4, Zenon DEF Synced
<1>5. QED
  BY <1>1, <1>2, <1>3, <1>4, Zenon

\* The patches that a list leads to.
LEMMA PatchTypes ==
  ASSUME Types
  PROVE  /\ \A P : FromPods(P) \in [Node -> Patch] /\ WithFallback \in [Node -> Patch]
         /\ \A skip : NoConfig(skip) \in [Node -> Patch] /\ ClearOrphans \in [Node -> Patch]
         /\ \A P : [n \in Node |-> IF n \in P THEN "true" ELSE "done"] \in [Node -> Patch]
  BY Zenon DEF FromPods, WithFallback, NoConfig, ClearOrphans, Patch

\* A worker starts, with what it read of the policy.
Began(t, o, w) ==
  /\ w \in WorkType /\ work' = [work EXCEPT ![t] = w]
  /\ w.pc = (IF t = "ncp" /\ policy[o] # "ofed" THEN "exclude" ELSE "list")
  /\ w.key = o /\ w.mode = policy[o] /\ (w.again <=> ~Synced(o)) /\ ~w.logged
  /\ w.skip = {} /\ \A n \in Node : w.todo[n] = "done"

LEMMA ReconcileEffect ==
  ASSUME Types, NEW t \in Thread, NEW o \in Owner, Reconcile(t, o)
  PROVE  /\ work[t].pc = "idle" /\ o \in queue \cap Keys(t)
         /\ UNCHANGED <<setup, policy, pod, ready, reported, nodeReady, label, faults>>
         /\ dsets' = IF policy[o] = "ofed" THEN dsets \cup {o} ELSE dsets \ {o}
         /\ \/ t = "nnp" /\ policy[o] = "plain" /\ work' = [work EXCEPT ![t] = Idle] /\ queue' \in {queue, queue \ {o}}
            \/ ~(t = "nnp" /\ policy[o] = "plain") /\ queue' = queue \ {o} /\ \E w : Began(t, o, w)
<1>1. /\ work[t].pc = "idle" /\ o \in queue \cap Keys(t)
      /\ UNCHANGED <<setup, policy, pod, ready, reported, nodeReady, label, faults>>
      /\ dsets' = IF policy[o] = "ofed" THEN dsets \cup {o} ELSE dsets \ {o}
  BY Zenon DEF Reconcile, Outside
<1>2. CASE t = "nnp" /\ policy[o] = "plain"
  BY <1>1, <1>2, Zenon DEF Reconcile
<1>3. CASE ~(t = "nnp" /\ policy[o] = "plain")
  <2>1. PICK pc, again, m : /\ pc = (IF t = "ncp" /\ policy[o] # "ofed" THEN "exclude" ELSE "list")
                            /\ again = ~Synced(o) /\ m = policy[o]
    BY Zenon
  <2>2. PICK w : w = [Idle EXCEPT !.key = o, !.mode = m, !.again = again, !.pc = pc]
    BY Zenon
  <2>3. work' = [work EXCEPT ![t] = w] /\ queue' = queue \ {o}
    BY <1>3, <2>1, <2>2, Zenon DEF Reconcile
  <2>4. again \in BOOLEAN /\ pc \in {"exclude", "list"} /\ m \in {"absent", "plain", "ofed"}
    BY <2>1, SyncedType, Zenon DEF Types
  <2>5. /\ w \in WorkType /\ w.pc = pc /\ w.key = o /\ w.mode = m /\ w.again = again /\ w.logged = Idle.logged
        /\ w.todo = Idle.todo /\ w.skip = Idle.skip
    BY <2>2, <2>4, IdleType, Zenon DEF WorkType
  <2>6. ~Idle.logged /\ Idle.skip = {}
    BY Zenon DEF Idle
  <2>7. Began(t, o, w)
    BY <2>1, <2>3, <2>5, <2>6, IdleType, Zenon DEF Began
  <2>8. QED
    BY <1>1, <1>3, <2>3, <2>7, Zenon
<1>4. QED
  BY <1>2, <1>3, Zenon

\* What a list makes of the worker.
Todo(t) ==
  LET w == work[t]
      mine == PodsOf(w.key)
  IN  IF t = "ncp" THEN (IF w.mode = "ofed" THEN WithFallback ELSE NoConfig(w.skip))
      ELSE IF w.mode # "absent" THEN FromPods(mine)
      ELSE IF mine # {} THEN [n \in Node |-> IF n \in mine THEN "true" ELSE "done"]
      ELSE ClearOrphans

Listed(t, w) ==
  /\ work[t].pc = "list" /\ UNCHANGED <<setup, policy, pod, ready, reported, nodeReady, dsets, label, queue, faults>>
  /\ work' = [work EXCEPT ![t] = w]
  /\ w.pc = "patch" /\ w.key = work[t].key /\ w.mode = work[t].mode /\ w.again = work[t].again
  /\ w.todo = Todo(t) /\ (w.logged => t = "nnp" /\ work[t].mode = "absent") /\ w.skip = work[t].skip

LEMMA ListEffect ==
  ASSUME Types, NEW t \in Thread, list(t)
  PROVE  \E w \in WorkType : Listed(t, w)
<1>1. t \in {"ncp", "nnp"}
  BY Zenon DEF Thread
<1>2. PICK todo : todo = CASE t = "ncp" /\ work[t].mode = "ofed" -> WithFallback
                           [] t = "ncp" /\ work[t].mode # "ofed" -> NoConfig(work[t].skip)
                           [] t = "nnp" /\ ~(work[t].mode = "absent") -> FromPods(PodsOf(work[t].key))
                           [] t = "nnp" /\ work[t].mode = "absent" /\ PodsOf(work[t].key) # {} ->
                                [n \in Node |-> IF n \in PodsOf(work[t].key) THEN "true" ELSE "done"]
                           [] t = "nnp" /\ work[t].mode = "absent" /\ PodsOf(work[t].key) = {} -> ClearOrphans
  BY Zenon
<1>3. PICK logged : logged = (t = "nnp" /\ work[t].mode = "absent" /\ PodsOf(work[t].key) = {})
  BY Zenon
<1>4. work' = [work EXCEPT ![t].pc = "patch", ![t].todo = todo, ![t].logged = logged]
  BY <1>2, <1>3, Zenon DEF list
<1>5. todo = Todo(t)
  BY <1>1, <1>2, Zenon DEF Todo
<1>6. Todo(t) \in [Node -> Patch]
  BY <1>1, PatchTypes, Zenon DEF Todo
<1>7. PICK u : u = work[t]
  BY Zenon
<1>8. u \in WorkType /\ work \in [Thread -> WorkType] /\ logged \in BOOLEAN
  BY <1>3, <1>7, Zenon DEF Types, WorkType
<1>9. PICK w : w = [u EXCEPT !.pc = "patch", !.todo = todo, !.logged = logged]
  BY Zenon
<1>10. work' = [work EXCEPT ![t] = w]
  BY <1>4, <1>7, <1>8, <1>9, Zenon
<1>11. /\ w \in WorkType /\ w.pc = "patch" /\ w.key = u.key /\ w.mode = u.mode /\ w.again = u.again
       /\ w.todo = todo /\ w.logged = logged /\ w.skip = u.skip
  BY <1>5, <1>6, <1>8, <1>9, Zenon DEF WorkType
<1>12. work[t].pc = "list" /\ UNCHANGED <<setup, policy, pod, ready, reported, nodeReady, dsets, label, queue, faults>>
  BY Zenon DEF list, Outside
<1>13. QED
  BY <1>3, <1>5, <1>7, <1>10, <1>11, <1>12, Zenon DEF Listed

LEMMA TypeFacts ==
  ASSUME Types
  PROVE  /\ work \in [Thread -> WorkType] /\ \A t \in Thread : work[t] \in WorkType
         /\ policy \in [Owner -> {"absent", "plain", "ofed"}] /\ pod \in [Node -> Owner \cup {NoPod}]
         /\ label \in [Node -> {"", "true", "false"}] /\ dsets \subseteq Owner /\ queue \subseteq Owner
         /\ ready \subseteq Node /\ reported \subseteq Node /\ nodeReady \subseteq Node /\ Existing \subseteq Owner
  BY Zenon DEF Types, WorkType, Existing, Owner

LEMMA SetupType ==
  ASSUME Types
  PROVE  setup \in Setups /\ setup.faults \in Nat /\ faults \in 0 .. setup.faults
  BY MofedAssumption, Zenon DEF Types

LEMMA FaultType ==
  ASSUME Types, UNCHANGED setup, UNCHANGED faults \/ (faults < setup.faults /\ faults' = faults + 1)
  PROVE  faults' \in 0 .. setup'.faults
<1>1. PICK m : m = setup.faults
  BY Zenon
<1>2. m \in Nat /\ faults \in 0 .. m /\ (faults' = faults \/ (faults < m /\ faults' = faults + 1))
  BY <1>1, SetupType, Zenon
<1>3. faults' \in 0 .. m
  BY <1>2
<1>4. QED
  BY <1>1, <1>3, Zenon

\* A step of a worker.
LEMMA WorkerType ==
  ASSUME Types, NEW t \in Thread, NEW w \in WorkType, work' = [work EXCEPT ![t] = w],
         UNCHANGED <<setup, policy, pod, ready, reported, nodeReady>>,
         UNCHANGED faults \/ (faults < setup.faults /\ faults' = faults + 1),
         dsets' \subseteq Owner, queue' \subseteq Owner, label' \in [Node -> {"", "true", "false"}]
  PROVE  Types'
<1>1. work' \in [Thread -> WorkType]
  BY TypeFacts, Zenon
<1>2. faults' \in 0 .. setup'.faults
  BY FaultType, Zenon
<1>3. QED
  BY <1>1, <1>2, Zenon DEF Types, WorkType

\* What reading a node leads to.
LEMMA ValueType ==
  ASSUME NEW n
  PROVE  LabelValue(n) \in {"true", "false"} /\ (LabelValue(n) = "false" => n \in nodeReady)
  BY Zenon DEF LabelValue

\* A worker has read a node.
ReadNode(t, n, w) ==
  /\ work[t].pc = "patch" /\ work[t].todo[n] = "ifNodeReady" /\ work' = [work EXCEPT ![t] = w]
  /\ w.pc = "patch" /\ w.key = work[t].key /\ w.mode = work[t].mode /\ w.logged = work[t].logged
  /\ w.again = work[t].again /\ w.skip = work[t].skip
  /\ w.todo = [work[t].todo EXCEPT ![n] = LabelValue(n)]
  /\ UNCHANGED <<setup, policy, pod, ready, reported, nodeReady, dsets, label, queue, faults>>

LEMMA ReadEffect ==
  ASSUME Types, NEW t \in Thread, NEW n \in Node, processOFEDPodsForWaitLabels(t, n)
  PROVE  \E w \in WorkType : ReadNode(t, n, w)
<1>1. work[t] \in WorkType /\ work \in [Thread -> WorkType]
  BY TypeFacts, Zenon
<1>2. PICK u : u = work[t]
  BY Zenon
<1>3. PICK todo : todo = [u.todo EXCEPT ![n] = LabelValue(n)]
  BY Zenon
<1>4. todo \in [Node -> Patch]
  BY <1>1, <1>2, <1>3, ValueType, Zenon DEF WorkType, Patch
<1>5. PICK w : w = [u EXCEPT !.todo = todo]
  BY Zenon
<1>6. work' = [work EXCEPT ![t] = w]
  BY <1>1, <1>2, <1>3, <1>5, Zenon DEF processOFEDPodsForWaitLabels
<1>7. /\ w \in WorkType /\ w.pc = u.pc /\ w.key = u.key /\ w.mode = u.mode /\ w.logged = u.logged
      /\ w.again = u.again /\ w.todo = todo /\ w.skip = u.skip
  BY <1>1, <1>2, <1>4, <1>5, Zenon DEF WorkType
<1>8. UNCHANGED <<setup, policy, pod, ready, reported, nodeReady, dsets, label, queue, faults>>
  BY Zenon DEF processOFEDPodsForWaitLabels, Outside
<1>9. ReadNode(t, n, w)
  BY <1>2, <1>3, <1>6, <1>7, <1>8, Zenon DEF ReadNode, processOFEDPodsForWaitLabels
<1>10. QED
  BY <1>7, <1>9, Zenon

\* A worker has patched one.
Patched(t, n, v, w) ==
  /\ work[t].pc = "patch" /\ v = work[t].todo[n] /\ v \notin {"done", "ifNodeReady"}
  /\ label' = [label EXCEPT ![n] = v] /\ queue' = LabelEvents(n, v)
  /\ work' = [work EXCEPT ![t] = w]
  /\ w.pc = "patch" /\ w.key = work[t].key /\ w.mode = work[t].mode /\ w.logged = work[t].logged
  /\ w.again <=> work[t].again \/ v = "true"
  /\ w.todo = [work[t].todo EXCEPT ![n] = "done"] /\ w.skip = work[t].skip
  /\ UNCHANGED <<setup, policy, pod, ready, reported, nodeReady, dsets, faults>>

LEMMA PatchEffect ==
  ASSUME Types, NEW t \in Thread, NEW n \in Node, setNodeLabel(t, n)
  PROVE  \E v \in {"", "true", "false"}, w \in WorkType : Patched(t, n, v, w)
<1>1. work[t] \in WorkType /\ work \in [Thread -> WorkType]
  BY TypeFacts, Zenon
<1>2. PICK u : u = work[t]
  BY Zenon
<1>3. PICK v : v = u.todo[n]
  BY Zenon
<1>4. u.todo[n] \in Patch /\ u.todo[n] \notin {"done", "ifNodeReady"} /\ u.pc = "patch" /\ u.again \in BOOLEAN
  BY <1>1, <1>2, Zenon DEF setNodeLabel, WorkType
<1>5. v \in {"", "true", "false"}
  BY <1>3, <1>4, Zenon DEF Patch
<1>6. PICK again : again = (u.again \/ v = "true")
  BY Zenon
<1>7. PICK todo : todo = [u.todo EXCEPT ![n] = "done"]
  BY Zenon
<1>8. todo \in [Node -> Patch] /\ again \in BOOLEAN
  BY <1>1, <1>2, <1>6, <1>7, Zenon DEF WorkType, Patch
<1>9. work' = [work EXCEPT ![t] = [u EXCEPT !.todo = todo, !.again = again]]
  BY <1>1, <1>2, <1>3, <1>6, <1>7, Zenon DEF setNodeLabel, Again
<1>10. PICK w : w = [u EXCEPT !.todo = todo, !.again = again]
  BY Zenon
<1>11. /\ w \in WorkType /\ w.pc = u.pc /\ w.key = u.key /\ w.mode = u.mode /\ w.logged = u.logged
       /\ w.again = again /\ w.todo = todo /\ w.skip = u.skip
  BY <1>1, <1>2, <1>8, <1>10, Zenon DEF WorkType
<1>12. label' = [label EXCEPT ![n] = v] /\ queue' = LabelEvents(n, v)
  BY <1>2, <1>3, Zenon DEF setNodeLabel
<1>13. UNCHANGED <<setup, policy, pod, ready, reported, nodeReady, dsets, faults>>
  BY Zenon DEF setNodeLabel, Outside
<1>14. QED
  <2>1. Patched(t, n, v, w)
    BY <1>2, <1>3, <1>4, <1>6, <1>7, <1>9, <1>10, <1>11, <1>12, <1>13, Zenon DEF Patched
  <2>2. QED
    BY <1>5, <1>11, <2>1, Zenon

\* The nodes of the NicNodePolicies with a driver.
OfedNodes == UNION {Selects[q] : q \in {p \in Policy : policy[p] = "ofed"}}

\* The cluster policy's worker has asked for the nodes of the others.
Excluded(w) ==
  /\ work["ncp"].pc = "exclude" /\ work' = [work EXCEPT !["ncp"] = w]
  /\ w.pc = "list" /\ w.key = work["ncp"].key /\ w.mode = work["ncp"].mode
  /\ w.again = work["ncp"].again /\ w.logged = work["ncp"].logged /\ w.todo = work["ncp"].todo
  /\ w.skip = OfedNodes \/ (w.skip = work["ncp"].skip /\ faults < setup.faults)
  /\ UNCHANGED <<setup, policy, pod, ready, reported, nodeReady, dsets, label, queue>>
  /\ UNCHANGED faults \/ (faults < setup.faults /\ faults' = faults + 1)

LEMMA ExcludeEffect ==
  ASSUME Types, handleMOFEDWaitLabelsNoConfig \/ exclusionFails
  PROVE  \E w \in WorkType : Excluded(w)
<1>1. PICK u : u = work["ncp"]
  BY Zenon
<1>2. u \in WorkType /\ work \in [Thread -> WorkType] /\ "ncp" \in Thread
  BY <1>1, Zenon DEF Types, WorkType, Thread
<1>3. PICK skip : /\ skip \in SUBSET Node /\ work' = [work EXCEPT !["ncp"] = [u EXCEPT !.pc = "list", !.skip = skip]]
                  /\ skip = OfedNodes \/ (skip = u.skip /\ faults < setup.faults)
  <2>1. CASE handleMOFEDWaitLabelsNoConfig
    <3>1. PICK skip : skip = OfedNodes
      BY Zenon
    <3>2. skip \subseteq Node
      BY <3>1, MofedAssumption DEF OfedNodes
    <3>3. work' = [work EXCEPT !["ncp"] = [u EXCEPT !.pc = "list", !.skip = skip]]
      BY <1>1, <1>2, <2>1, <3>1, Zenon DEF handleMOFEDWaitLabelsNoConfig, OfedNodes
    <3>4. QED
      BY <3>1, <3>2, <3>3, Zenon
  <2>2. CASE exclusionFails
    <3>1. PICK skip : skip = u.skip
      BY Zenon
    <3>2. skip \subseteq Node /\ [u EXCEPT !.pc = "list"] = [u EXCEPT !.pc = "list", !.skip = skip]
      BY <1>2, <3>1, Zenon DEF WorkType
    <3>3. work' = [work EXCEPT !["ncp"] = [u EXCEPT !.pc = "list"]]
      BY <1>1, <1>2, <2>2, Zenon DEF exclusionFails
    <3>4. faults < setup.faults
      BY <2>2, Zenon DEF exclusionFails
    <3>5. QED
      BY <3>1, <3>2, <3>3, <3>4, Zenon
  <2>3. QED
    BY <2>1, <2>2, Zenon
<1>4. PICK w : w = [u EXCEPT !.pc = "list", !.skip = skip]
  BY Zenon
<1>5. /\ w \in WorkType /\ w.pc = "list" /\ w.key = u.key /\ w.mode = u.mode
      /\ w.again = u.again /\ w.logged = u.logged /\ w.todo = u.todo /\ w.skip = skip
  BY <1>2, <1>3, <1>4, Zenon DEF WorkType
<1>6. /\ work["ncp"].pc = "exclude"
      /\ UNCHANGED <<setup, policy, pod, ready, reported, nodeReady, dsets, label, queue>>
      /\ UNCHANGED faults \/ (faults < setup.faults /\ faults' = faults + 1)
  BY Zenon DEF handleMOFEDWaitLabelsNoConfig, exclusionFails, Outside
<1>7. QED
  BY <1>1, <1>3, <1>4, <1>5, <1>6, Zenon DEF Excluded

\* A pass ends, whether it is through or a call failed.
Ends(t) ==
  /\ UNCHANGED <<setup, policy, pod, ready, reported, nodeReady, dsets, label>>
  /\ work' = [work EXCEPT ![t] = Idle] /\ work[t].pc \in {"list", "patch"}
  /\ UNCHANGED faults \/ (faults < setup.faults /\ faults' = faults + 1)
  /\ queue' \in {queue, queue \cup {work[t].key}}
  /\ work[t].key \in queue' \/ work[t].logged
     \/ (work[t].pc = "patch" /\ ~work[t].again /\ \A n \in Node : work[t].todo[n] = "done")

LEMMA EndEffect ==
  ASSUME Types, NEW t \in Thread, finish(t) \/ callFails(t)
  PROVE  Ends(t)
<1>1. CASE finish(t)
  BY <1>1, Zenon DEF finish, Ends, Outside
<1>2. CASE callFails(t)
  BY <1>2, Zenon DEF callFails, Ends, Outside
<1>3. QED
  BY <1>1, <1>2, Zenon

\* All that a worker does, or a failing call to it.
WorkerStep(t) == Worker(t) \/ callFails(t) \/ (t = "ncp" /\ exclusionFails)

LEMMA WorkerKept ==
  ASSUME Types, NEW t \in Thread, WorkerStep(t)
  PROVE  Types'
<1>0. /\ work[t] \in WorkType /\ Idle \in WorkType /\ dsets \subseteq Owner /\ queue \subseteq Owner /\ Existing \subseteq Owner
      /\ label \in [Node -> {"", "true", "false"}]
  BY TypeFacts, IdleType, Zenon
<1>1. ASSUME NEW o \in Owner, Reconcile(t, o)
      PROVE  Types'
  <2>1. /\ UNCHANGED <<setup, policy, pod, ready, reported, nodeReady, label, faults>>
        /\ dsets' = (IF policy[o] = "ofed" THEN dsets \cup {o} ELSE dsets \ {o})
        /\ queue' \in {queue, queue \ {o}}
        /\ \E w \in WorkType : work' = [work EXCEPT ![t] = w]
    <3>1. /\ UNCHANGED <<setup, policy, pod, ready, reported, nodeReady, label, faults>>
          /\ dsets' = (IF policy[o] = "ofed" THEN dsets \cup {o} ELSE dsets \ {o})
      BY <1>1, ReconcileEffect, Zenon
    <3>2. CASE work' = [work EXCEPT ![t] = Idle] /\ queue' \in {queue, queue \ {o}}
      BY <1>0, <3>1, <3>2, Zenon
    <3>3. ASSUME NEW w, Began(t, o, w), queue' = queue \ {o}
          PROVE  queue' \in {queue, queue \ {o}} /\ \E v \in WorkType : work' = [work EXCEPT ![t] = v]
      BY <3>3, Zenon DEF Began
    <3>4. QED
      BY <1>1, <3>1, <3>2, <3>3, ReconcileEffect, Zenon
  <2>2. dsets' \subseteq Owner /\ queue' \subseteq Owner
    BY <1>0, <2>1, Zenon
  <2>3. QED
    BY <1>0, <2>1, <2>2, WorkerType, Zenon
<1>2. CASE t = "ncp" /\ (handleMOFEDWaitLabelsNoConfig \/ exclusionFails)
  <2>1. PICK w \in WorkType : Excluded(w)
    BY <1>2, ExcludeEffect, Zenon
  <2>2. QED
    BY <1>0, <1>2, <2>1, WorkerType, Zenon DEF Excluded
<1>3. CASE list(t)
  <2>1. PICK w \in WorkType : Listed(t, w)
    BY <1>3, ListEffect, Zenon
  <2>2. QED
    BY <1>0, <2>1, WorkerType, Zenon DEF Listed
<1>7. ASSUME NEW n \in Node, processOFEDPodsForWaitLabels(t, n)
      PROVE  Types'
  <2>1. PICK w \in WorkType : ReadNode(t, n, w)
    BY <1>7, ReadEffect, Zenon
  <2>2. QED
    BY <1>0, <2>1, WorkerType, Zenon DEF ReadNode
<1>4. ASSUME NEW n \in Node, setNodeLabel(t, n)
      PROVE  Types'
  <2>0. PICK v \in {"", "true", "false"}, w \in WorkType : Patched(t, n, v, w)
    BY <1>4, PatchEffect, Zenon
  <2>1. /\ label' = [label EXCEPT ![n] = v] /\ queue' = LabelEvents(n, v) /\ work' = [work EXCEPT ![t] = w]
        /\ UNCHANGED <<setup, policy, pod, ready, reported, nodeReady, dsets, faults>>
    BY <2>0, Zenon DEF Patched
  <2>2. queue' \subseteq Owner /\ label' \in [Node -> {"", "true", "false"}]
    BY <1>0, <2>1, Zenon DEF LabelEvents
  <2>3. QED
    BY <1>0, <2>1, <2>2, WorkerType, Zenon
<1>5. CASE finish(t) \/ callFails(t)
  <2>1. Ends(t)
    BY <1>5, EndEffect, Zenon
  <2>2. queue' \subseteq Owner
    BY <1>0, <2>1, Zenon DEF Ends, WorkType
  <2>3. QED
    BY <1>0, <2>1, <2>2, WorkerType, Zenon DEF Ends
<1>6. QED
  BY <1>1, <1>2, <1>3, <1>4, <1>5, <1>7, Zenon DEF WorkerStep, Worker

\* What the cluster and a restart do.
LEMMA ClusterKept ==
  ASSUME Types, Cluster \/ operatorRestarts \/ \E n \in Node : statusReported(n)
  PROVE  Types'
<1>0. /\ work \in [Thread -> WorkType] /\ Idle \in WorkType
      /\ policy \in [Owner -> {"absent", "plain", "ofed"}] /\ pod \in [Node -> Owner \cup {NoPod}]
      /\ dsets \subseteq Owner /\ queue \subseteq Owner /\ Existing \subseteq Owner /\ Ncp \in Owner
      /\ ready \subseteq Node /\ reported \subseteq Node /\ nodeReady \subseteq Node
      /\ label \in [Node -> {"", "true", "false"}]
  BY TypeFacts, IdleType, Zenon DEF Owner
<1>1. ASSUME UNCHANGED <<setup, label>>, UNCHANGED faults \/ (faults < setup.faults /\ faults' = faults + 1),
             work' \in [Thread -> WorkType], policy' \in [Owner -> {"absent", "plain", "ofed"}],
             pod' \in [Node -> Owner \cup {NoPod}], dsets' \subseteq Owner, queue' \subseteq Owner,
             ready' \subseteq Node, reported' \subseteq Node, nodeReady' \subseteq Node
      PROVE  Types'
  <2>1. faults' \in 0 .. setup'.faults
    BY <1>1, FaultType, Zenon
  <2>2. QED
    BY <1>1, <2>1, Zenon DEF Types, WorkType
<1>2. ASSUME NEW o \in Owner, NEW m \in {"absent", "plain", "ofed"}, PolicyChanges(o, m)
      PROVE  Types'
  BY <1>0, <1>1, <1>2, Zenon DEF PolicyChanges
<1>3. ASSUME NEW n \in Node, NEW o \in Owner, podStarts(n, o)
      PROVE  Types'
  BY <1>0, <1>1, <1>3, Zenon DEF podStarts
<1>4. ASSUME NEW n \in Node, podGone(n)
      PROVE  Types'
  BY <1>0, <1>1, <1>4, Zenon DEF podGone, Owned
<1>5. ASSUME NEW n \in Node, podReadiness(n)
      PROVE  Types'
  BY <1>0, <1>1, <1>5, Zenon DEF podReadiness
<1>6. ASSUME NEW n \in Node, nodeReadiness(n)
      PROVE  Types'
  BY <1>0, <1>1, <1>6, Zenon DEF nodeReadiness, ReadyEvents, driver
<1>7. ASSUME NEW o \in Owner, otherEvent(o)
      PROVE  Types'
  BY <1>0, <1>1, <1>7, Zenon DEF otherEvent, driver
<1>8. ASSUME NEW n \in Node, statusReported(n)
      PROVE  Types'
  BY <1>0, <1>1, <1>8, Zenon DEF statusReported, Owned
<1>9. CASE operatorRestarts
  <2>1. work' \in [Thread -> WorkType] /\ queue' \subseteq Owner
    BY <1>0, <1>9, Zenon DEF operatorRestarts
  <2>2. QED
    BY <1>0, <1>1, <1>9, <2>1, Zenon DEF operatorRestarts, driver
<1>10. QED
  BY <1>2, <1>3, <1>4, <1>5, <1>6, <1>7, <1>8, <1>9, Zenon DEF Cluster

LEMMA NextSplit ==
  ASSUME Next
  PROVE  (\E t \in Thread : WorkerStep(t)) \/ Cluster \/ operatorRestarts \/ \E n \in Node : statusReported(n)
  BY Zenon DEF Next, Fault, WorkerStep, Thread

LEMMA TypeKept == Types /\ [Next]_vars => Types'
<1>1. SUFFICES ASSUME Types, [Next]_vars PROVE Types'
  BY Zenon
<1>2. CASE UNCHANGED vars
  BY <1>1, <1>2, Zenon DEF vars, Types
<1>3. QED
  BY <1>1, <1>2, NextSplit, WorkerKept, ClusterKept, Zenon

LEMMA InitType == Init => Types
<1>1. SUFFICES ASSUME Init PROVE Types
  BY Zenon
<1>2. setup \in Setups /\ faults = 0 /\ setup.faults \in Nat
  BY <1>1, MofedAssumption, Zenon DEF Init
<1>3. faults \in 0 .. setup.faults
  BY <1>2
<1>4. work \in [Thread -> WorkType] /\ queue \subseteq Owner
  BY <1>1, IdleType, Zenon DEF Init, Owner
<1>5. QED
  BY <1>1, <1>3, <1>4, Zenon DEF Init, Types, WorkType, Owner

-----------------------------------------------------------------------------
(***************************************************************************)
(* The gate.                                                                *)
(***************************************************************************)

\* The nodes a policy runs drivers on, and the worker that reconciles it.
Hosts(o) == Covers(o) \cap Nic

Th(o) == IF o = Ncp THEN "ncp" ELSE "nnp"

Busy(o) == work[Th(o)].pc # "idle" /\ work[Th(o)].key = o

\* A policy whose next pass is not due.
Wants(o) == policy[o] = "ofed" /\ o \notin queue

Serving(o) == \A n \in Hosts(o) : pod[n] = o /\ n \in reported

Open(n) == n \in nodeReady /\ label[n] = "false"

\* What a pass has still to do to a node of its policy, or has done.
Due(w, n) ==
  \/ w.todo[n] \in {"ifNodeReady", "true"}
  \/ w.todo[n] = "false" /\ n \in nodeReady
  \/ w.todo[n] = "done" /\ Open(n)

\* A policy with ofedDriver whose next pass is not due has its drivers up and
\* its nodes open, or a pass is about to find that out or to ask for another.
OwnerInv(o) ==
  Wants(o) =>
    /\ o \in dsets
    /\ ~Busy(o) => Serving(o) /\ \A n \in Hosts(o) : Open(n)
    /\ Busy(o) => /\ work[Th(o)].mode = "ofed" /\ work[Th(o)].pc \in {"list", "patch"} /\ ~work[Th(o)].logged
                  /\ ~work[Th(o)].again => Hosts(o) # {} /\ Serving(o)
                  /\ ~work[Th(o)].again /\ work[Th(o)].pc = "patch" => \A n \in Hosts(o) : Due(work[Th(o)], n)

LEMMA OwnerType ==
  ASSUME NEW o \in Owner
  PROVE  Th(o) \in Thread /\ Hosts(o) \subseteq Node /\ o # NoPod /\ (o # Ncp => o \in Policy)
  BY CoversType, MofedAssumption, Zenon DEF Th, Thread, Hosts, Owner

\* A step that is not one of the policy's own pass.
LEMMA OwnerFrame ==
  ASSUME NEW o \in Owner, OwnerInv(o), Wants(o)' => Wants(o), o \in dsets => o \in dsets', UNCHANGED nodeReady,
         Busy(o)' <=> Busy(o), Busy(o) => work'[Th(o)] = work[Th(o)],
         Serving(o) => Serving(o)', Serving(o) => \A n \in Hosts(o) : Open(n) => Open(n)'
  PROVE  OwnerInv(o)'
<1>1. SUFFICES ASSUME Wants(o)' PROVE OwnerInv(o)'
  BY Zenon DEF OwnerInv
<1>2. Wants(o) /\ Hosts(o)' = Hosts(o) /\ Th(o)' = Th(o) /\ o \in dsets'
  BY <1>1, Zenon DEF OwnerInv, Hosts, Th, Covers
<1>3. CASE ~Busy(o)
  <2>1. Serving(o) /\ \A n \in Hosts(o) : Open(n)
    BY <1>2, <1>3, Zenon DEF OwnerInv
  <2>2. QED
    BY <1>2, <1>3, <2>1, Zenon DEF OwnerInv
<1>4. CASE Busy(o)
  <2>1. PICK w : w = work[Th(o)]
    BY Zenon
  <2>2. work'[Th(o)] = w
    BY <1>4, <2>1, Zenon
  <2>3. /\ w.mode = "ofed" /\ w.pc \in {"list", "patch"} /\ ~w.logged
        /\ ~w.again => Hosts(o) # {} /\ Serving(o)
        /\ ~w.again /\ w.pc = "patch" => \A n \in Hosts(o) : Due(w, n)
    BY <1>2, <1>4, <2>1, Zenon DEF OwnerInv
  <2>4. /\ ~w.again => Serving(o)'
        /\ ~w.again /\ w.pc = "patch" =>
             \A n \in Hosts(o) : \/ w.todo[n] \in {"ifNodeReady", "true"} \/ (w.todo[n] = "false" /\ n \in nodeReady')
                                 \/ (w.todo[n] = "done" /\ Open(n)')
    BY <2>3, Zenon DEF Due
  <2>5. QED
    BY <1>2, <1>4, <2>2, <2>3, <2>4, Zenon DEF OwnerInv, Due
<1>5. QED
  BY <1>3, <1>4, Zenon

\* Where the driver is configured in the cluster policy only, the worker of
\* the node policies does no more than clear orphaned labels.
ClusterInv ==
  ClusterOnly =>
    /\ \A q \in Policy : policy[q] # "ofed" /\ q \notin dsets
    /\ \A n \in Node : pod[n] \notin Policy /\ work["nnp"].todo[n] \in {"done", "false"}
    /\ work["nnp"].pc # "idle" => work["nnp"].mode = "absent"

\* A worker reconciles the policies of its own kind.
KeyInv == \A t \in Thread : work[t].pc # "idle" => work[t].key \in Keys(t)

\* Pods run where their policy wants them.
PodInv == \A n \in Node : pod[n] # NoPod => n \in Hosts(pod[n])

\* A step of a worker on another policy.
LEMMA OthersPass ==
  ASSUME Types, NEW o \in Owner, OwnerInv(o), NEW t \in Thread, ~(t = Th(o) /\ Busy(o)),
         ~(\E p \in Owner : p = o /\ Reconcile(t, p)), WorkerStep(t),
         o = Ncp => ClusterInv /\ ClusterOnly, KeyInv
  PROVE  OwnerInv(o)'
<1>0. /\ work \in [Thread -> WorkType] /\ Th(o) \in Thread /\ Hosts(o) \subseteq Node /\ Hosts(o)' = Hosts(o)
      /\ Idle.pc = "idle" /\ Th(o)' = Th(o) /\ label \in [Node -> {"", "true", "false"}]
  BY TypeFacts, OwnerType, IdleType, Zenon DEF Hosts, Covers, Th
<1>1. ASSUME UNCHANGED <<policy, pod, reported, nodeReady, label>>, o \in queue => o \in queue', o \in dsets => o \in dsets',
             NEW w, work' = [work EXCEPT ![t] = w], w.pc = "idle" \/ (w.key # o) \/ (t # Th(o))
      PROVE  OwnerInv(o)'
  <2>1. (Wants(o)' => Wants(o)) /\ (Serving(o) => Serving(o)') /\ \A n \in Hosts(o) : Open(n) => Open(n)'
    BY <1>0, <1>1, Zenon DEF Wants, Serving, Open
  <2>2. (Busy(o)' <=> Busy(o)) /\ (Busy(o) => work'[Th(o)] = work[Th(o)])
    BY <1>0, <1>1, Zenon DEF Busy
  <2>3. QED
    BY <1>1, <2>1, <2>2, OwnerFrame, Zenon
<1>2. ASSUME NEW p \in Owner, Reconcile(t, p)
      PROVE  OwnerInv(o)'
  <2>0. p # o
    BY <1>2, Zenon
  <2>1. /\ UNCHANGED <<policy, pod, reported, nodeReady, label>>
        /\ dsets' = IF policy[p] = "ofed" THEN dsets \cup {p} ELSE dsets \ {p}
    BY <1>2, ReconcileEffect, Zenon
  <2>2. CASE work' = [work EXCEPT ![t] = Idle] /\ queue' \in {queue, queue \ {p}}
    BY <1>0, <1>1, <2>0, <2>1, <2>2, Zenon
  <2>3. ASSUME NEW w, Began(t, p, w), queue' = queue \ {p}
        PROVE  OwnerInv(o)'
    <3>1. work' = [work EXCEPT ![t] = w] /\ w.key = p
      BY <2>3, Zenon DEF Began
    <3>2. QED
      BY <1>1, <2>0, <2>1, <2>3, <3>1, Zenon
  <2>4. QED
    BY <1>2, <2>2, <2>3, ReconcileEffect, Zenon
<1>3. CASE t = "ncp" /\ (handleMOFEDWaitLabelsNoConfig \/ exclusionFails)
  <2>1. PICK w \in WorkType : Excluded(w)
    BY <1>3, ExcludeEffect, Zenon
  <2>2. w.key # o \/ t # Th(o)
    BY <1>3, <2>1, Zenon DEF Excluded, Busy
  <2>3. QED
    BY <1>1, <1>3, <2>1, <2>2, Zenon DEF Excluded
<1>4. CASE list(t)
  <2>1. PICK w \in WorkType : Listed(t, w)
    BY <1>4, ListEffect, Zenon
  <2>2. w.key # o \/ t # Th(o)
    BY <2>1, Zenon DEF Listed, Busy
  <2>3. QED
    BY <1>1, <2>1, <2>2, Zenon DEF Listed
<1>8. ASSUME NEW n \in Node, processOFEDPodsForWaitLabels(t, n)
      PROVE  OwnerInv(o)'
  <2>1. PICK w \in WorkType : ReadNode(t, n, w)
    BY <1>8, ReadEffect, Zenon
  <2>2. w.key # o \/ t # Th(o)
    BY <2>1, Zenon DEF ReadNode, Busy
  <2>3. QED
    BY <1>1, <2>1, <2>2, Zenon DEF ReadNode
<1>5. ASSUME NEW n \in Node, setNodeLabel(t, n)
      PROVE  OwnerInv(o)'
  <2>0. PICK v \in {"", "true", "false"}, w \in WorkType : Patched(t, n, v, w)
    BY <1>5, PatchEffect, Zenon
  <2>1. /\ label' = [label EXCEPT ![n] = v] /\ queue' = LabelEvents(n, v) /\ work' = [work EXCEPT ![t] = w]
        /\ UNCHANGED <<policy, pod, reported, nodeReady, dsets>> /\ w.key = work[t].key /\ work[t].pc = "patch"
        /\ work[t].todo[n] # "done" /\ v = work[t].todo[n]
    BY <2>0, Zenon DEF Patched
  <2>2. w.key # o \/ t # Th(o)
    BY <2>1, Zenon DEF Busy
  <2>3. queue \subseteq queue'
    BY <2>1, Zenon DEF LabelEvents
  <2>4. CASE label[n] = v
    <3>1. label' = label
      BY <1>0, <2>1, <2>4, Zenon
    <3>2. QED
      BY <1>1, <2>1, <2>2, <2>3, <3>1, Zenon
  <2>5. CASE label[n] # v /\ o # Ncp
    <3>1. policy[o] = "ofed" => o \in queue'
      BY <2>1, <2>5, OwnerType, Zenon DEF LabelEvents, Existing
    <3>2. QED
      BY <2>1, <3>1, Zenon DEF OwnerInv, Wants
  <2>6. CASE o = Ncp
    <3>1. t = "nnp"
      BY <2>1, <2>2, <2>6, Zenon DEF Thread, Th, KeyInv, Keys
    <3>2. work[t].todo[n] = "false"
      BY <2>1, <2>6, <3>1, Zenon DEF ClusterInv
    <3>3. v = "false"
      BY <2>1, <3>2, Zenon
    <3>4. (Wants(o)' => Wants(o)) /\ (Serving(o) => Serving(o)') /\ \A m \in Hosts(o) : Open(m) => Open(m)'
      BY <1>0, <2>1, <2>3, <3>3, Zenon DEF Wants, Serving, Open
    <3>5. (Busy(o)' <=> Busy(o)) /\ (Busy(o) => work'[Th(o)] = work[Th(o)])
      BY <1>0, <2>1, <2>2, Zenon DEF Busy
    <3>6. QED
      BY <2>1, <3>4, <3>5, OwnerFrame, Zenon
  <2>7. QED
    BY <2>4, <2>5, <2>6, Zenon
<1>6. CASE finish(t) \/ callFails(t)
  <2>1. Ends(t)
    BY <1>6, EndEffect, Zenon
  <2>2. QED
    BY <1>0, <1>1, <2>1, Zenon DEF Ends
<1>7. QED
  BY <1>2, <1>3, <1>4, <1>5, <1>6, <1>8, Zenon DEF WorkerStep, Worker

\* A step of the policy's own pass.
LEMMA OwnPass ==
  ASSUME Types, NEW o \in Owner, OwnerInv(o), NEW t \in Thread, t = Th(o), Busy(o), WorkerStep(t)
  PROVE  OwnerInv(o)'
<1>0. /\ work \in [Thread -> WorkType] /\ work[t] \in WorkType /\ Hosts(o) \subseteq Node /\ Hosts(o)' = Hosts(o)
      /\ Idle.pc = "idle" /\ Th(o)' = Th(o) /\ label \in [Node -> {"", "true", "false"}]
      /\ work[t].pc # "idle" /\ work[t].key = o
  BY TypeFacts, OwnerType, IdleType, Zenon DEF Hosts, Covers, Th, Busy
<1>1. SUFFICES ASSUME Wants(o)' PROVE OwnerInv(o)'
  BY Zenon DEF OwnerInv
<1>2. ASSUME Wants(o)
      PROVE  /\ o \in dsets /\ work[t].mode = "ofed" /\ work[t].pc \in {"list", "patch"} /\ ~work[t].logged
             /\ ~work[t].again => Hosts(o) # {} /\ Serving(o)
             /\ ~work[t].again /\ work[t].pc = "patch" => \A n \in Hosts(o) : Due(work[t], n)
  BY <1>2, Zenon DEF OwnerInv
<1>3. ASSUME NEW w, work' = [work EXCEPT ![t] = w], w.pc = "patch", w.key = o, w.mode = "ofed", ~w.logged, o \in dsets',
             ~w.again => Hosts(o) # {} /\ Serving(o)',
             ~w.again => \A n \in Hosts(o) : \/ w.todo[n] \in {"ifNodeReady", "true"}
                                             \/ w.todo[n] = "false" /\ n \in nodeReady'
                                             \/ w.todo[n] = "done" /\ Open(n)'
      PROVE  OwnerInv(o)'
  <2>1. work'[Th(o)] = w
    BY <1>0, <1>3, Zenon
  <2>2. Busy(o)'
    BY <1>0, <1>3, <2>1, Zenon DEF Busy
  <2>3. QED
    BY <1>0, <1>3, <2>1, <2>2, Zenon DEF OwnerInv, Due
<1>4. CASE list(t)
  <2>1. PICK w \in WorkType : Listed(t, w)
    BY <1>4, ListEffect, Zenon
  <2>2. Wants(o) /\ o \in dsets' /\ (Serving(o) => Serving(o)')
    BY <1>0, <1>1, <1>2, <2>1, Zenon DEF Listed, Wants, Serving
  <2>3. /\ work' = [work EXCEPT ![t] = w] /\ w.pc = "patch" /\ w.key = o /\ w.mode = "ofed" /\ ~w.logged
        /\ w.again = work[t].again /\ w.todo = Todo(t)
    BY <1>0, <1>2, <2>1, <2>2, Zenon DEF Listed
  <2>4. ASSUME ~w.again, NEW n \in Hosts(o)
        PROVE  Todo(t)[n] \in {"ifNodeReady", "true"}
    <3>1. n \in PodsOf(o) /\ o # NoPod
      BY <1>0, <1>2, <2>2, <2>3, <2>4, OwnerType, Zenon DEF Serving, PodsOf
    <3>2. Todo(t) = FromPods(PodsOf(o))
      <4>1. CASE t = "ncp"
        <5>1. o = Ncp
          BY <4>1, Zenon DEF Th
        <5>2. QED
          BY <1>0, <1>2, <2>2, <3>1, <4>1, <5>1, Zenon DEF Todo, WithFallback
      <4>2. CASE t # "ncp"
        BY <1>0, <1>2, <2>2, <4>2, Zenon DEF Todo
      <4>3. QED
        BY <4>1, <4>2, Zenon
    <3>3. QED
      BY <1>0, <3>1, <3>2, Zenon DEF FromPods
  <2>5. QED
    BY <1>2, <1>3, <2>2, <2>3, <2>4, Zenon
<1>10. ASSUME NEW m \in Node, processOFEDPodsForWaitLabels(t, m)
       PROVE  OwnerInv(o)'
  <2>1. PICK w \in WorkType : ReadNode(t, m, w)
    BY <1>10, ReadEffect, Zenon
  <2>2. /\ work' = [work EXCEPT ![t] = w] /\ w.pc = "patch" /\ w.key = o /\ w.mode = work[t].mode /\ w.logged = work[t].logged
        /\ w.again = work[t].again /\ w.todo = [work[t].todo EXCEPT ![m] = LabelValue(m)] /\ work[t].pc = "patch"
        /\ UNCHANGED <<policy, pod, reported, nodeReady, dsets, label, queue>>
    BY <1>0, <2>1, Zenon DEF ReadNode
  <2>3. Wants(o) /\ o \in dsets' /\ (Serving(o) => Serving(o)')
    BY <1>0, <1>1, <1>2, <2>2, Zenon DEF Wants, Serving
  <2>4. ASSUME ~w.again, NEW n \in Hosts(o)
        PROVE  \/ w.todo[n] \in {"ifNodeReady", "true"} \/ (w.todo[n] = "false" /\ n \in nodeReady')
               \/ (w.todo[n] = "done" /\ Open(n)')
    <3>1. work[t].todo \in [Node -> Patch] /\ n \in Node
      BY <1>0, Zenon DEF WorkType
    <3>2. Due(work[t], n)
      BY <1>2, <2>2, <2>3, <2>4, Zenon
    <3>3. CASE n = m
      BY <2>2, <3>1, <3>3, ValueType, Zenon
    <3>4. CASE n # m
      <4>1. w.todo[n] = work[t].todo[n]
        BY <2>2, <3>1, <3>4, Zenon
      <4>2. QED
        BY <2>2, <3>2, <4>1, Zenon DEF Due, Open
    <3>5. QED
      BY <3>3, <3>4, Zenon
  <2>5. w.mode = "ofed" /\ ~w.logged /\ (~w.again => Hosts(o) # {} /\ Serving(o)')
    BY <1>2, <2>2, <2>3, Zenon
  <2>6. QED
    BY <1>3, <2>2, <2>3, <2>4, <2>5, Zenon
<1>5. ASSUME NEW m \in Node, setNodeLabel(t, m)
      PROVE  OwnerInv(o)'
  <2>0. PICK v \in {"", "true", "false"}, w \in WorkType : Patched(t, m, v, w)
    BY <1>5, PatchEffect, Zenon
  <2>1. /\ label' = [label EXCEPT ![m] = v] /\ queue' = LabelEvents(m, v) /\ work' = [work EXCEPT ![t] = w]
        /\ UNCHANGED <<policy, pod, reported, nodeReady, dsets>> /\ w.key = o /\ work[t].pc = "patch" /\ w.pc = "patch"
        /\ v = work[t].todo[m] /\ v \notin {"done", "ifNodeReady"} /\ w.mode = work[t].mode /\ w.logged = work[t].logged
        /\ (w.again <=> work[t].again \/ v = "true") /\ w.todo = [work[t].todo EXCEPT ![m] = "done"]
    BY <1>0, <2>0, Zenon DEF Patched
  <2>2. queue \subseteq queue'
    BY <2>1, Zenon DEF LabelEvents
  <2>3. Wants(o) /\ o \in dsets' /\ (Serving(o) => Serving(o)')
    BY <1>0, <1>1, <1>2, <2>1, <2>2, Zenon DEF Wants, Serving
  <2>4. ASSUME ~w.again, NEW n \in Hosts(o)
        PROVE  \/ w.todo[n] \in {"ifNodeReady", "true"} \/ (w.todo[n] = "false" /\ n \in nodeReady')
               \/ (w.todo[n] = "done" /\ Open(n)')
    <3>1. work[t].todo \in [Node -> Patch] /\ n \in Node
      BY <1>0, Zenon DEF WorkType
    <3>2. Due(work[t], n)
      BY <1>2, <2>1, <2>3, <2>4, Zenon
    <3>3. CASE n = m
      <4>1. v # "true"
        BY <2>1, <2>4, Zenon
      <4>2. v = "false" /\ n \in nodeReady
        BY <2>1, <3>2, <3>3, <4>1, Zenon DEF Due
      <4>3. w.todo[n] = "done" /\ label'[n] = "false"
        BY <1>0, <2>1, <3>1, <3>3, <4>2, Zenon
      <4>4. QED
        BY <2>1, <4>2, <4>3, Zenon DEF Open
    <3>4. CASE n # m
      <4>1. w.todo[n] = work[t].todo[n] /\ label'[n] = label[n]
        BY <1>0, <2>1, <3>1, <3>4, Zenon
      <4>2. QED
        BY <2>1, <3>2, <4>1, Zenon DEF Due, Open
    <3>5. QED
      BY <3>3, <3>4, Zenon
  <2>5. w.mode = "ofed" /\ ~w.logged /\ (~w.again => Hosts(o) # {} /\ Serving(o)')
    BY <1>2, <2>1, <2>3, Zenon
  <2>6. QED
    BY <1>3, <2>1, <2>3, <2>4, <2>5, Zenon
<1>6. CASE finish(t) \/ callFails(t)
  <2>1. Ends(t)
    BY <1>6, EndEffect, Zenon
  <2>2. /\ work' = [work EXCEPT ![t] = Idle] /\ UNCHANGED <<policy, pod, reported, nodeReady, label, dsets>>
        /\ queue \subseteq queue'
        /\ o \in queue' \/ work[t].logged
             \/ (work[t].pc = "patch" /\ ~work[t].again /\ \A n \in Node : work[t].todo[n] = "done")
    BY <1>0, <2>1, Zenon DEF Ends
  <2>3. Wants(o) /\ o \notin queue'
    BY <1>1, <2>2, Zenon DEF Wants
  <2>4. Serving(o) /\ \A n \in Hosts(o) : Open(n)
    BY <1>0, <1>2, <2>2, <2>3, Zenon DEF Due
  <2>5. Serving(o)' /\ \A n \in Hosts(o) : Open(n)'
    BY <1>0, <2>2, <2>4, Zenon DEF Serving, Open
  <2>6. ~Busy(o)' /\ o \in dsets'
    BY <1>0, <1>2, <2>2, <2>3, Zenon DEF Busy
  <2>7. QED
    BY <1>0, <2>5, <2>6, Zenon DEF OwnerInv
<1>7. CASE t = "ncp" /\ (handleMOFEDWaitLabelsNoConfig \/ exclusionFails)
  <2>1. PICK w \in WorkType : Excluded(w)
    BY <1>7, ExcludeEffect, Zenon
  <2>2. Wants(o) /\ work[t].pc = "exclude"
    BY <1>1, <1>7, <2>1, Zenon DEF Excluded, Wants
  <2>3. QED
    BY <1>2, <2>2, Zenon
<1>8. ~(\E p \in Owner : Reconcile(t, p))
  BY <1>0, Zenon DEF Reconcile
<1>9. QED
  BY <1>4, <1>5, <1>6, <1>7, <1>8, <1>10, Zenon DEF WorkerStep, Worker

\* A pass of the policy begins.
LEMMA OwnStart ==
  ASSUME Types, NEW o \in Owner, NEW t \in Thread, t = Th(o), Reconcile(t, o)
  PROVE  OwnerInv(o)'
<1>0. /\ work \in [Thread -> WorkType] /\ Hosts(o) \subseteq Node /\ Hosts(o)' = Hosts(o) /\ Th(o)' = Th(o)
  BY TypeFacts, OwnerType, Zenon DEF Hosts, Covers, Th
<1>1. SUFFICES ASSUME Wants(o)' PROVE OwnerInv(o)'
  BY Zenon DEF OwnerInv
<1>2. /\ UNCHANGED <<policy, pod, reported>>
      /\ dsets' = IF policy[o] = "ofed" THEN dsets \cup {o} ELSE dsets \ {o}
  BY ReconcileEffect, Zenon
<1>3. policy[o] = "ofed" /\ o \in dsets'
  BY <1>1, <1>2, Zenon DEF Wants
<1>4. PICK w : Began(t, o, w)
  BY <1>3, ReconcileEffect, Zenon
<1>5. /\ work' = [work EXCEPT ![t] = w] /\ w.pc = "list" /\ w.key = o /\ w.mode = "ofed" /\ ~w.logged
      /\ ~w.again => Synced(o)
  BY <1>3, <1>4, Zenon DEF Began
<1>6. work'[Th(o)] = w
  BY <1>0, <1>5, Zenon
<1>7. Busy(o)'
  BY <1>0, <1>5, <1>6, Zenon DEF Busy
<1>8. ~w.again => Hosts(o) # {} /\ Serving(o)'
  <2>1. Synced(o) => Hosts(o) # {} /\ Hosts(o) \subseteq PodsOf(o) \cap reported
    BY <1>3, SyncedType, Zenon DEF Hosts
  <2>2. Hosts(o) \subseteq PodsOf(o) \cap reported => Serving(o)'
    BY <1>0, <1>2, Zenon DEF Serving, PodsOf
  <2>3. QED
    BY <1>5, <2>1, <2>2, Zenon
<1>9. QED
  BY <1>0, <1>3, <1>5, <1>6, <1>7, <1>8, Zenon DEF OwnerInv

\* What the cluster and a restart do.
LEMMA OwnerCluster ==
  ASSUME Types, PodInv, NEW o \in Owner, OwnerInv(o), Cluster \/ operatorRestarts \/ \E n \in Node : statusReported(n)
  PROVE  OwnerInv(o)'
<1>0. /\ policy \in [Owner -> {"absent", "plain", "ofed"}] /\ pod \in [Node -> Owner \cup {NoPod}]
      /\ Hosts(o) \subseteq Node /\ Hosts(o)' = Hosts(o) /\ o # NoPod /\ (o # Ncp => o \in Policy)
  BY TypeFacts, OwnerType, Zenon DEF Hosts, Covers
<1>1. ASSUME o \in queue' PROVE OwnerInv(o)'
  BY <1>1, Zenon DEF OwnerInv, Wants
<1>2. ASSUME policy'[o] = policy[o], UNCHANGED <<label, nodeReady, work>>, o \in queue => o \in queue', o \in dsets => o \in dsets',
             Serving(o) => Serving(o)'
      PROVE  OwnerInv(o)'
  <2>1. (Wants(o)' => Wants(o)) /\ \A n \in Hosts(o) : Open(n) => Open(n)'
    BY <1>2, Zenon DEF Wants, Open
  <2>2. (Busy(o)' <=> Busy(o)) /\ (Busy(o) => work'[Th(o)] = work[Th(o)])
    BY <1>2, Zenon DEF Busy, Th
  <2>3. QED
    BY <1>2, <2>1, <2>2, OwnerFrame, Zenon
<1>3. ASSUME NEW p \in Owner, NEW m \in {"absent", "plain", "ofed"}, PolicyChanges(p, m)
      PROVE  OwnerInv(o)'
  <2>1. CASE p = o
    BY <1>1, <1>3, <2>1, Zenon DEF PolicyChanges
  <2>2. CASE p # o
    <3>1. /\ policy'[o] = policy[o] /\ UNCHANGED <<label, nodeReady, work, pod, reported>>
          /\ (o \in queue => o \in queue') /\ (o \in dsets => o \in dsets')
      BY <1>0, <1>3, <2>2, Zenon DEF PolicyChanges
    <3>2. Serving(o) => Serving(o)'
      BY <1>0, <3>1, Zenon DEF Serving
    <3>3. QED
      BY <1>2, <3>1, <3>2, Zenon
  <2>3. QED
    BY <2>1, <2>2, Zenon
<1>4. ASSUME NEW n \in Node, NEW p \in Owner, podStarts(n, p)
      PROVE  OwnerInv(o)'
  <2>1. Serving(o) => Serving(o)'
    BY <1>0, <1>4, Zenon DEF podStarts, Serving
  <2>2. QED
    BY <1>2, <1>4, <2>1, Zenon DEF podStarts
<1>5. ASSUME NEW n \in Node, podGone(n)
      PROVE  OwnerInv(o)'
  <2>1. CASE pod[n] = o /\ o \in dsets
    BY <1>1, <1>5, <2>1, Zenon DEF podGone, Owned
  <2>2. CASE pod[n] = o /\ o \notin dsets
    <3>1. UNCHANGED policy /\ (o \in queue => o \in queue')
      BY <1>5, Zenon DEF podGone
    <3>2. QED
      BY <2>2, <3>1, Zenon DEF OwnerInv, Wants
  <2>3. CASE pod[n] # o
    <3>1. Serving(o) => Serving(o)'
      BY <1>0, <1>5, <2>3, Zenon DEF podGone, Serving
    <3>2. QED
      BY <1>2, <1>5, <3>1, Zenon DEF podGone
  <2>4. QED
    BY <2>1, <2>2, <2>3, Zenon
<1>6. ASSUME NEW n \in Node, podReadiness(n)
      PROVE  OwnerInv(o)'
  <2>1. Serving(o) => Serving(o)'
    BY <1>0, <1>6, Zenon DEF podReadiness, Serving
  <2>2. QED
    BY <1>2, <1>6, <2>1, Zenon DEF podReadiness
<1>7. ASSUME NEW n \in Node, nodeReadiness(n)
      PROVE  OwnerInv(o)'
  <2>1. policy' = policy /\ queue' = queue \cup Existing \cup {Ncp}
    BY <1>7, Zenon DEF nodeReadiness, ReadyEvents
  <2>2. Wants(o)' => o \in queue'
    BY <1>0, <2>1, Zenon DEF Wants, Existing
  <2>3. QED
    BY <2>2, Zenon DEF OwnerInv, Wants
<1>8. ASSUME NEW p \in Owner, otherEvent(p)
      PROVE  OwnerInv(o)'
  <2>1. Serving(o) => Serving(o)'
    BY <1>0, <1>8, Zenon DEF otherEvent, driver, Serving
  <2>2. QED
    BY <1>2, <1>8, <2>1, Zenon DEF otherEvent, driver
<1>9. ASSUME NEW n \in Node, statusReported(n)
      PROVE  OwnerInv(o)'
  <2>1. CASE pod[n] = o /\ o \in dsets
    BY <1>1, <1>9, <2>1, Zenon DEF statusReported, Owned
  <2>2. CASE pod[n] = o /\ o \notin dsets
    <3>1. UNCHANGED policy /\ (o \in queue => o \in queue')
      BY <1>9, Zenon DEF statusReported
    <3>2. QED
      BY <2>2, <3>1, Zenon DEF OwnerInv, Wants
  <2>3. CASE pod[n] # o
    <3>1. Serving(o) => Serving(o)'
      BY <1>0, <1>9, <2>3, Zenon DEF statusReported, Serving
    <3>2. QED
      BY <1>2, <1>9, <3>1, Zenon DEF statusReported
  <2>4. QED
    BY <2>1, <2>2, <2>3, Zenon
<1>10. CASE operatorRestarts
  <2>1. policy' = policy /\ queue' = Existing \cup {p \in {Ncp} : policy[Ncp] # "absent" \/ Nic # {}}
    BY <1>10, Zenon DEF operatorRestarts
  <2>2. Wants(o)' => o \in queue'
    BY <1>0, <2>1, Zenon DEF Wants, Existing
  <2>3. QED
    BY <2>2, Zenon DEF OwnerInv, Wants
<1>11. QED
  BY <1>3, <1>4, <1>5, <1>6, <1>7, <1>8, <1>9, <1>10, Zenon DEF Cluster

\* A policy is what the set-up lets it be.
ModeInv == \A o \in Owner : policy[o] \in setup.modes[o] \cup {"absent"}

RestInv == KeyInv /\ PodInv /\ ModeInv /\ ClusterInv

\* What a worker's step does to the rest.
LEMMA RestWorker ==
  ASSUME Types, RestInv, NEW t \in Thread, WorkerStep(t)
  PROVE  RestInv'
<1>0. /\ work \in [Thread -> WorkType] /\ Idle \in WorkType /\ Idle.pc = "idle" /\ \A n \in Node : Idle.todo[n] = "done"
      /\ "nnp" \in Thread /\ KeyInv /\ PodInv /\ ModeInv /\ ClusterInv
  BY TypeFacts, IdleType, Zenon DEF Thread, RestInv
<1>1. ASSUME UNCHANGED <<setup, policy, pod>>, NEW w \in WorkType, work' = [work EXCEPT ![t] = w],
             w.pc # "idle" => w.key \in Keys(t),
             ClusterOnly => /\ \A q \in Policy : q \notin dsets'
                            /\ t = "nnp" => /\ \A n \in Node : w.todo[n] \in {"done", "false"}
                                            /\ w.pc # "idle" => w.mode = "absent"
      PROVE  RestInv'
  <2>1. PodInv' /\ ModeInv' /\ (ClusterOnly' <=> ClusterOnly)
    BY <1>0, <1>1, Zenon DEF PodInv, ModeInv, Hosts, Covers, ClusterOnly
  <2>2. KeyInv'
    BY <1>0, <1>1, Zenon DEF KeyInv
  <2>3. t = "nnp" => work'["nnp"] = w
    BY <1>0, <1>1, Zenon
  <2>4. t # "nnp" => work'["nnp"] = work["nnp"]
    BY <1>0, <1>1, Zenon
  <2>5. ClusterInv'
    BY <1>0, <1>1, <2>1, <2>3, <2>4, Zenon DEF ClusterInv
  <2>6. QED
    BY <2>1, <2>2, <2>5, Zenon DEF RestInv
<1>2. ASSUME NEW o \in Owner, Reconcile(t, o)
      PROVE  RestInv'
  <2>1. /\ o \in Keys(t) /\ UNCHANGED <<setup, policy, pod>>
        /\ dsets' = (IF policy[o] = "ofed" THEN dsets \cup {o} ELSE dsets \ {o})
    BY <1>2, ReconcileEffect, Zenon
  <2>2. ClusterOnly => \A q \in Policy : q \notin dsets'
    BY <1>0, <2>1, Zenon DEF ClusterInv
  <2>3. CASE work' = [work EXCEPT ![t] = Idle]
    BY <1>0, <1>1, <2>1, <2>2, <2>3, Zenon
  <2>4. ASSUME NEW w, Began(t, o, w), ~(t = "nnp" /\ policy[o] = "plain")
        PROVE  RestInv'
    <3>1. w \in WorkType /\ work' = [work EXCEPT ![t] = w] /\ w.key = o /\ w.mode = policy[o] /\ \A n \in Node : w.todo[n] = "done"
      BY <2>4, Zenon DEF Began
    <3>2. ClusterOnly /\ t = "nnp" => w.mode = "absent"
      <4>1. t = "nnp" => o \in Policy
        BY <2>1, Zenon DEF Keys
      <4>2. policy[o] \in {"absent", "plain", "ofed"}
        BY TypeFacts, Zenon
      <4>3. QED
        BY <1>0, <2>4, <3>1, <4>1, <4>2, Zenon DEF ClusterInv
    <3>3. QED
      BY <1>1, <2>1, <2>2, <3>1, <3>2, Zenon
  <2>5. QED
    BY <1>2, <2>3, <2>4, ReconcileEffect, Zenon
<1>3. CASE t = "ncp" /\ (handleMOFEDWaitLabelsNoConfig \/ exclusionFails)
  <2>1. PICK w \in WorkType : Excluded(w)
    BY <1>3, ExcludeEffect, Zenon
  <2>2. UNCHANGED <<setup, policy, pod, dsets>> /\ work' = [work EXCEPT ![t] = w] /\ w.key \in Keys(t)
    BY <1>0, <1>3, <2>1, Zenon DEF Excluded, KeyInv
  <2>3. ClusterOnly => \A q \in Policy : q \notin dsets'
    BY <1>0, <2>2, Zenon DEF ClusterInv
  <2>4. QED
    BY <1>1, <1>3, <2>2, <2>3, Zenon
<1>4. CASE list(t)
  <2>1. PICK w \in WorkType : Listed(t, w)
    BY <1>4, ListEffect, Zenon
  <2>2. /\ UNCHANGED <<setup, policy, pod, dsets>> /\ work' = [work EXCEPT ![t] = w] /\ w.key \in Keys(t)
        /\ w.mode = work[t].mode /\ w.todo = Todo(t) /\ w.key = work[t].key /\ work[t].pc # "idle"
    BY <1>0, <2>1, Zenon DEF Listed, KeyInv
  <2>3. ClusterOnly => \A q \in Policy : q \notin dsets'
    BY <1>0, <2>2, Zenon DEF ClusterInv
  <2>4. ASSUME ClusterOnly, t = "nnp"
        PROVE  w.mode = "absent" /\ \A n \in Node : w.todo[n] \in {"done", "false"}
    <3>1. work[t].mode = "absent" /\ work[t].key \in Policy
      BY <1>0, <2>2, <2>4, Zenon DEF ClusterInv, Keys
    <3>2. PodsOf(work[t].key) = {}
      BY <1>0, <2>4, <3>1, Zenon DEF ClusterInv, PodsOf
    <3>3. Todo(t) = ClearOrphans
      BY <2>4, <3>1, <3>2, Zenon DEF Todo
    <3>4. QED
      BY <2>2, <3>1, <3>3, Zenon DEF ClearOrphans
  <2>5. QED
    BY <1>1, <2>2, <2>3, <2>4, Zenon
<1>8. ASSUME NEW m \in Node, processOFEDPodsForWaitLabels(t, m)
      PROVE  RestInv'
  <2>1. PICK w \in WorkType : ReadNode(t, m, w)
    BY <1>8, ReadEffect, Zenon
  <2>2. /\ UNCHANGED <<setup, policy, pod, dsets>> /\ work' = [work EXCEPT ![t] = w] /\ w.key \in Keys(t)
        /\ work[t].todo[m] = "ifNodeReady"
    BY <1>0, <2>1, Zenon DEF ReadNode, KeyInv
  <2>3. ClusterOnly => t # "nnp" /\ \A q \in Policy : q \notin dsets'
    BY <1>0, <2>2, Zenon DEF ClusterInv
  <2>4. QED
    BY <1>1, <2>2, <2>3, Zenon
<1>5. ASSUME NEW m \in Node, setNodeLabel(t, m)
      PROVE  RestInv'
  <2>1. PICK v \in {"", "true", "false"}, w \in WorkType : Patched(t, m, v, w)
    BY <1>5, PatchEffect, Zenon
  <2>2. /\ UNCHANGED <<setup, policy, pod, dsets>> /\ work' = [work EXCEPT ![t] = w] /\ w.key \in Keys(t)
        /\ w.mode = work[t].mode /\ w.todo = [work[t].todo EXCEPT ![m] = "done"] /\ work[t].pc # "idle"
    BY <1>0, <2>1, Zenon DEF Patched, KeyInv
  <2>3. ClusterOnly => \A q \in Policy : q \notin dsets'
    BY <1>0, <2>2, Zenon DEF ClusterInv
  <2>4. ASSUME ClusterOnly, t = "nnp"
        PROVE  w.mode = "absent" /\ \A n \in Node : w.todo[n] \in {"done", "false"}
    <3>1. work[t].mode = "absent" /\ \A n \in Node : work[t].todo[n] \in {"done", "false"}
      BY <1>0, <2>2, <2>4, Zenon DEF ClusterInv
    <3>2. work[t].todo \in [Node -> Patch]
      BY TypeFacts, Zenon DEF WorkType
    <3>3. QED
      BY <2>2, <3>1, <3>2, Zenon
  <2>5. QED
    BY <1>1, <2>2, <2>3, <2>4, Zenon
<1>6. CASE finish(t) \/ callFails(t)
  <2>1. UNCHANGED <<setup, policy, pod, dsets>> /\ work' = [work EXCEPT ![t] = Idle]
    BY <1>6, EndEffect, Zenon DEF Ends
  <2>2. ClusterOnly => \A q \in Policy : q \notin dsets'
    BY <1>0, <2>1, Zenon DEF ClusterInv
  <2>3. QED
    BY <1>0, <1>1, <2>1, <2>2, Zenon
<1>7. QED
  BY <1>2, <1>3, <1>4, <1>5, <1>6, <1>8, Zenon DEF WorkerStep, Worker

LEMMA WorkerSetup ==
  ASSUME Types, NEW t \in Thread, WorkerStep(t)
  PROVE  UNCHANGED setup
  BY Zenon DEF WorkerStep, Worker, Reconcile, handleMOFEDWaitLabelsNoConfig, exclusionFails, list, setNodeLabel,
         processOFEDPodsForWaitLabels, finish, callFails, Outside

\* What the cluster and a restart do to it.
LEMMA RestCluster ==
  ASSUME Types, RestInv, Cluster \/ operatorRestarts \/ \E n \in Node : statusReported(n)
  PROVE  RestInv'
<1>0. /\ policy \in [Owner -> {"absent", "plain", "ofed"}] /\ pod \in [Node -> Owner \cup {NoPod}]
      /\ KeyInv /\ PodInv /\ ModeInv /\ ClusterInv /\ Policy \subseteq Owner /\ NoPod \notin Policy
      /\ Idle.pc = "idle" /\ (\A n \in Node : Idle.todo[n] = "done") /\ "nnp" \in Thread
  BY TypeFacts, IdleType, MofedAssumption, Zenon DEF RestInv, Owner, Thread
<1>1. ASSUME UNCHANGED setup, UNCHANGED work \/ work' = [t \in Thread |-> Idle],
             PodInv', ModeInv',
             ClusterOnly => /\ \A q \in Policy : policy'[q] # "ofed" /\ q \notin dsets'
                            /\ \A n \in Node : pod'[n] \notin Policy
      PROVE  RestInv'
  <2>1. KeyInv'
    BY <1>0, <1>1, Zenon DEF KeyInv
  <2>2. ClusterOnly' <=> ClusterOnly
    BY <1>1, Zenon DEF ClusterOnly
  <2>3. work'["nnp"] \in {work["nnp"], Idle}
    BY <1>0, <1>1, Zenon
  <2>4. ClusterInv'
    BY <1>0, <1>1, <2>2, <2>3, Zenon DEF ClusterInv
  <2>5. QED
    BY <1>1, <2>1, <2>4, Zenon DEF RestInv
<1>2. ASSUME UNCHANGED <<setup, policy, dsets, pod>>, UNCHANGED work \/ work' = [t \in Thread |-> Idle]
      PROVE  RestInv'
  <2>1. PodInv' /\ ModeInv'
    BY <1>0, <1>2, Zenon DEF PodInv, ModeInv, Hosts, Covers
  <2>2. ClusterOnly => /\ \A q \in Policy : policy'[q] # "ofed" /\ q \notin dsets'
                       /\ \A n \in Node : pod'[n] \notin Policy
    BY <1>0, <1>2, Zenon DEF ClusterInv
  <2>3. QED
    BY <1>1, <1>2, <2>1, <2>2, Zenon
<1>3. ASSUME NEW p \in Owner, NEW m \in {"absent", "plain", "ofed"}, PolicyChanges(p, m)
      PROVE  RestInv'
  <2>1. /\ m \in setup.modes[p] /\ policy' = [policy EXCEPT ![p] = m] /\ dsets' \subseteq dsets
        /\ UNCHANGED <<setup, pod, work>>
    BY <1>3, Zenon DEF PolicyChanges
  <2>2. PodInv' /\ ModeInv'
    BY <1>0, <2>1, Zenon DEF PodInv, ModeInv, Hosts, Covers
  <2>3. ClusterOnly => /\ \A q \in Policy : policy'[q] # "ofed" /\ q \notin dsets'
                       /\ \A n \in Node : pod'[n] \notin Policy
    BY <1>0, <2>1, Zenon DEF ClusterInv, ClusterOnly
  <2>4. QED
    BY <1>1, <2>1, <2>2, <2>3, Zenon
<1>4. ASSUME NEW n \in Node, NEW p \in Owner, podStarts(n, p)
      PROVE  RestInv'
  <2>1. /\ p \in dsets /\ n \in Hosts(p) /\ pod' = [pod EXCEPT ![n] = p] /\ UNCHANGED <<setup, policy, dsets, work>>
    BY <1>4, Zenon DEF podStarts, Hosts
  <2>2. PodInv' /\ ModeInv'
    BY <1>0, <2>1, Zenon DEF PodInv, ModeInv, Hosts, Covers
  <2>3. ClusterOnly => /\ \A q \in Policy : policy'[q] # "ofed" /\ q \notin dsets'
                       /\ \A k \in Node : pod'[k] \notin Policy
    BY <1>0, <2>1, Zenon DEF ClusterInv
  <2>4. QED
    BY <1>1, <2>1, <2>2, <2>3, Zenon
<1>5. ASSUME NEW n \in Node, podGone(n)
      PROVE  RestInv'
  <2>1. pod' = [pod EXCEPT ![n] = NoPod] /\ UNCHANGED <<setup, policy, dsets, work>>
    BY <1>5, Zenon DEF podGone
  <2>2. PodInv' /\ ModeInv'
    BY <1>0, <2>1, Zenon DEF PodInv, ModeInv, Hosts, Covers
  <2>3. ClusterOnly => /\ \A q \in Policy : policy'[q] # "ofed" /\ q \notin dsets'
                       /\ \A k \in Node : pod'[k] \notin Policy
    BY <1>0, <2>1, Zenon DEF ClusterInv
  <2>4. QED
    BY <1>1, <2>1, <2>2, <2>3, Zenon
<1>6. ASSUME NEW n \in Node, podReadiness(n) \/ nodeReadiness(n) \/ statusReported(n)
      PROVE  RestInv'
  BY <1>2, <1>6, Zenon DEF podReadiness, nodeReadiness, statusReported, driver
<1>7. ASSUME NEW p \in Owner, otherEvent(p)
      PROVE  RestInv'
  BY <1>2, <1>7, Zenon DEF otherEvent, driver
<1>8. CASE operatorRestarts
  BY <1>2, <1>8, Zenon DEF operatorRestarts, driver
<1>9. QED
  BY <1>3, <1>4, <1>5, <1>6, <1>7, <1>8, Zenon DEF Cluster

\* The inductive invariant of the gate.
GateInv ==
  /\ Types /\ RestInv
  /\ \A o \in Owner : (o = Ncp => ClusterOnly) => OwnerInv(o)

LEMMA GateInit == Init => GateInv
<1>1. SUFFICES ASSUME Init PROVE GateInv
  BY Zenon
<1>2. /\ (\A o \in Owner : policy[o] = "absent") /\ dsets = {} /\ \A n \in Node : pod[n] = NoPod
      /\ work["nnp"] = Idle /\ \A t \in Thread : work[t] = Idle
  BY <1>1, Zenon DEF Init, Thread
<1>3. Policy \subseteq Owner /\ NoPod \notin Policy /\ Idle.pc = "idle" /\ \A n \in Node : Idle.todo[n] = "done"
  BY MofedAssumption, IdleType, Zenon DEF Owner
<1>4. KeyInv /\ PodInv /\ ModeInv
  BY <1>2, <1>3, Zenon DEF KeyInv, PodInv, ModeInv
<1>5. ClusterInv
  BY <1>2, <1>3, Zenon DEF ClusterInv
<1>6. \A o \in Owner : OwnerInv(o)
  BY <1>2, Zenon DEF OwnerInv, Wants
<1>7. QED
  BY <1>1, <1>4, <1>5, <1>6, InitType, Zenon DEF GateInv, RestInv

LEMMA GateKept == GateInv /\ [Next]_vars => GateInv'
<1>1. SUFFICES ASSUME GateInv, [Next]_vars PROVE GateInv'
  BY Zenon
<1>2. Types /\ RestInv /\ Types'
  BY <1>1, TypeKept, Zenon DEF GateInv
<1>3. CASE UNCHANGED vars
  <2>1. RestInv'
    BY <1>2, <1>3, Zenon DEF vars, RestInv, KeyInv, PodInv, ModeInv, ClusterInv, ClusterOnly, Hosts, Covers
  <2>2. ASSUME NEW o \in Owner, OwnerInv(o)
        PROVE  OwnerInv(o)'
    <3>1. (Wants(o)' => Wants(o)) /\ (Serving(o) => Serving(o)') /\ \A n \in Hosts(o) : Open(n) => Open(n)'
      BY <1>3, Zenon DEF vars, Wants, Serving, Open, Hosts, Covers
    <3>2. (Busy(o)' <=> Busy(o)) /\ (Busy(o) => work'[Th(o)] = work[Th(o)]) /\ dsets' = dsets /\ nodeReady' = nodeReady
      BY <1>3, Zenon DEF vars, Busy, Th
    <3>3. QED
      BY <2>2, <3>1, <3>2, OwnerFrame, Zenon
  <2>3. ClusterOnly' <=> ClusterOnly
    BY <1>3, Zenon DEF vars, ClusterOnly
  <2>4. QED
    BY <1>1, <1>2, <2>1, <2>2, <2>3, Zenon DEF GateInv
<1>4. ASSUME NEW t \in Thread, WorkerStep(t)
      PROVE  GateInv'
  <2>1. RestInv'
    BY <1>2, <1>4, RestWorker, Zenon
  <2>2. UNCHANGED setup
    BY <1>2, <1>4, WorkerSetup, Zenon
  <2>3. ASSUME NEW o \in Owner, OwnerInv(o), o = Ncp => ClusterOnly
        PROVE  OwnerInv(o)'
    <3>1. CASE t = Th(o) /\ Busy(o)
      BY <1>2, <1>4, <2>3, <3>1, OwnPass, Zenon
    <3>2. CASE \E p \in Owner : p = o /\ Reconcile(t, p)
      <4>1. Reconcile(t, o) /\ o \in Keys(t)
        BY <3>2, Zenon DEF Reconcile
      <4>2. t = Th(o)
        BY <4>1, MofedAssumption, Zenon DEF Keys, Th, Thread
      <4>3. QED
        BY <1>2, <4>1, <4>2, OwnStart, Zenon
    <3>3. CASE ~(t = Th(o) /\ Busy(o)) /\ ~(\E p \in Owner : p = o /\ Reconcile(t, p))
      <4>1. KeyInv /\ ClusterInv
        BY <1>2, Zenon DEF RestInv
      <4>2. QED
        BY <1>2, <1>4, <2>3, <3>3, <4>1, OthersPass, Zenon
    <3>4. QED
      BY <3>1, <3>2, <3>3, Zenon
  <2>4. ClusterOnly' <=> ClusterOnly
    BY <2>2, Zenon DEF ClusterOnly
  <2>5. QED
    BY <1>1, <1>2, <2>1, <2>3, <2>4, Zenon DEF GateInv
<1>5. CASE Cluster \/ operatorRestarts \/ \E n \in Node : statusReported(n)
  <2>1. RestInv' /\ PodInv
    BY <1>2, <1>5, RestCluster, Zenon DEF RestInv
  <2>2. UNCHANGED setup
    BY <1>5, Zenon DEF Cluster, operatorRestarts, statusReported, PolicyChanges, podStarts, podGone, podReadiness, nodeReadiness, otherEvent
  <2>3. ClusterOnly' <=> ClusterOnly
    BY <2>2, Zenon DEF ClusterOnly
  <2>4. ASSUME NEW o \in Owner, OwnerInv(o)
        PROVE  OwnerInv(o)'
    BY <1>2, <1>5, <2>1, <2>4, OwnerCluster, Zenon
  <2>5. QED
    BY <1>1, <1>2, <2>1, <2>3, <2>4, Zenon DEF GateInv
<1>6. QED
  BY <1>1, <1>3, <1>4, <1>5, NextSplit, Zenon

\* At rest every node with a driver of a policy that the invariant speaks of
\* is open, and the driver is up.
LEMMA GateAtRest ==
  ASSUME GateInv, Quiet, NEW n \in Node, Managed(n), pod[n] = Ncp => ClusterOnly
  PROVE  Up(n) /\ label[n] = "false"
<1>1. PICK o : o = pod[n]
  BY Zenon
<1>2. o \in Owner /\ policy[o] = "ofed"
  BY <1>1, TypeFacts, Zenon DEF GateInv, Managed
<1>3. OwnerInv(o) /\ n \in Hosts(o)
  BY <1>1, <1>2, OwnerType, Zenon DEF GateInv, RestInv, PodInv
<1>4. Wants(o) /\ ~Busy(o)
  BY <1>2, OwnerType, Zenon DEF Quiet, Wants, Busy
<1>5. n \in reported /\ Open(n)
  BY <1>3, <1>4, Zenon DEF OwnerInv, Serving
<1>6. QED
  BY <1>5, Zenon DEF Quiet, Up, Open

\* Whatever the set-up, when neither controller has anything left to do every
\* node that runs a driver of a NicNodePolicy has the driver up and is open.
THEOREM NodePolicyGate ==
  Spec => [](Quiet => \A n \in Node : Managed(n) /\ pod[n] # Ncp => Up(n) /\ label[n] = "false")
<1>1. GateInv => (Quiet => \A n \in Node : Managed(n) /\ pod[n] # Ncp => Up(n) /\ label[n] = "false")
  BY GateAtRest, Zenon
<1>2. QED
  BY <1>1, GateInit, GateKept, PTL DEF Spec

\* Each set-up has the driver in the cluster policy or in node policies.
OneKind == \A s \in Setups : "ofed" \notin s.modes[Ncp] \/ \A q \in Policy : "ofed" \notin s.modes[q]

\* Where the driver does not move between the two kinds of policies, the label
\* of a node with a managed driver tells whether the driver is up whenever
\* neither controller has anything left to do (setNodeLabel after a list that
\* other steps have overtaken).
THEOREM GateMatchesDriver ==
  ASSUME OneKind
  PROVE  Spec => []QuietGateMatchesDriver
<1>1. GateInv => QuietGateMatchesDriver
  <2>1. SUFFICES ASSUME GateInv, Quiet, NEW n \in Node, Managed(n)
                 PROVE  label[n] = (IF Up(n) THEN "false" ELSE "true")
    BY Zenon DEF QuietGateMatchesDriver
  <2>2. pod[n] = Ncp => ClusterOnly
    <3>1. Ncp \in Owner /\ setup \in Setups
      BY <2>1, Zenon DEF GateInv, Types, Owner
    <3>2. pod[n] = Ncp => "ofed" \in setup.modes[Ncp]
      BY <2>1, <3>1, Zenon DEF Managed, GateInv, RestInv, ModeInv
    <3>3. QED
      BY <3>1, <3>2, Zenon DEF OneKind, ClusterOnly
  <2>3. QED
    BY <2>1, <2>2, GateAtRest, Zenon
<1>2. QED
  BY <1>1, GateInit, GateKept, PTL DEF Spec

-----------------------------------------------------------------------------
(***************************************************************************)
(* Nodes without a driver.                                                  *)
(***************************************************************************)

Tame == ClusterOnly \/ CreateDelete

\* Patches that can close the gate; only pods lead to them.
Hold == {"true", "ifNodeReady"}

LEMMA TodoHost ==
  ASSUME Types, NEW t \in Thread, NEW n \in Node
  PROVE  /\ Todo(t)[n] \in Hold => pod[n] # NoPod /\ (t = "nnp" => pod[n] = work[t].key)
         /\ t = "nnp" => Todo(t)[n] # ""
         /\ n \notin Nic /\ pod[n] = NoPod /\ label[n] # "true" => Todo(t)[n] \in {"done", ""}
<1>1. work[t].key # NoPod /\ Ncp # NoPod
  BY TypeFacts, MofedAssumption DEF WorkType, Owner
<1>2. ASSUME NEW P
      PROVE  FromPods(P)[n] # "" /\ (FromPods(P)[n] \in Hold => n \in P) /\ (n \notin P => FromPods(P)[n] = "done")
  BY Zenon DEF FromPods, Hold
<1>3. t \in {"ncp", "nnp"}
  BY Zenon DEF Thread
<1>4. CASE t = "ncp" /\ work[t].mode = "ofed"
  <2>1. Todo(t) = FromPods(IF PodsOf(Ncp) # {} THEN PodsOf(Ncp) ELSE {m \in Node : pod[m] # NoPod})
    BY <1>4, Zenon DEF Todo, WithFallback
  <2>2. PICK P : P = (IF PodsOf(Ncp) # {} THEN PodsOf(Ncp) ELSE {m \in Node : pod[m] # NoPod})
    BY Zenon
  <2>3. n \in P => pod[n] # NoPod
    BY <1>1, <2>2, Zenon DEF PodsOf
  <2>4. QED
    BY <1>2, <1>4, <2>1, <2>2, <2>3, Zenon
<1>5. CASE t = "ncp" /\ work[t].mode # "ofed"
  <2>1. Todo(t) = NoConfig(work[t].skip)
    BY <1>5, Zenon DEF Todo
  <2>2. QED
    BY <1>5, <2>1, Zenon DEF NoConfig, Hold
<1>6. CASE t = "nnp" /\ work[t].mode # "absent"
  <2>1. Todo(t) = FromPods(PodsOf(work[t].key))
    BY <1>6, Zenon DEF Todo
  <2>2. QED
    BY <1>1, <1>2, <1>6, <2>1, Zenon DEF PodsOf
<1>7. CASE t = "nnp" /\ work[t].mode = "absent" /\ PodsOf(work[t].key) # {}
  <2>1. Todo(t) = [m \in Node |-> IF m \in PodsOf(work[t].key) THEN "true" ELSE "done"]
    BY <1>7, Zenon DEF Todo
  <2>2. QED
    BY <1>1, <1>7, <2>1, Zenon DEF PodsOf, Hold
<1>8. CASE t = "nnp" /\ work[t].mode = "absent" /\ PodsOf(work[t].key) = {}
  <2>1. Todo(t) = ClearOrphans
    BY <1>8, Zenon DEF Todo
  <2>2. QED
    BY <1>8, <2>1, Zenon DEF ClearOrphans, Hold
<1>9. QED
  BY <1>3, <1>4, <1>5, <1>6, <1>7, <1>8, Zenon

\* A node without a NIC never carries the label, and the node policies' worker never
\* takes a label away.
HostInv ==
  /\ \A n \in Node \ Nic : label[n] = "" /\ \A t \in Thread : work[t].todo[n] \in {"done", ""}
  /\ \A n \in Node : work["nnp"].todo[n] # ""

\* A DaemonSet belongs to a policy that wants the driver, or that is about to
\* be reconciled.
DsInv ==
  /\ \A o \in Owner : policy[o] = "absent" => o \notin dsets
  /\ Tame => \A o \in dsets : policy[o] = "ofed" \/ (o = Ncp /\ Ncp \in queue)

\* The cluster policy's worker knows the policy, and the nodes of the others,
\* unless the next pass is due already.
NcpInv ==
  /\ ~work["ncp"].logged
  /\ work["ncp"].pc = "exclude" => work["ncp"].skip = {}
  /\ work["ncp"].pc # "idle" /\ Ncp \notin queue =>
       /\ work["ncp"].mode = policy[Ncp]
       /\ Tame /\ work["ncp"].pc \in {"list", "patch"} /\ work["ncp"].mode # "ofed" => work["ncp"].skip = OfedNodes

\* The other worker closes nodes of the policy it reconciles, and comes back
\* to one that has changed.
NnpInv ==
  CreateDelete /\ work["nnp"].pc # "idle" =>
    /\ work["nnp"].mode # policy[work["nnp"].key] => work["nnp"].key \in queue
    /\ \A n \in Node : work["nnp"].todo[n] \in Hold => n \in Selects[work["nnp"].key]

SideInv == HostInv /\ DsInv /\ NcpInv /\ NnpInv

\* The set-up does not change.
LEMMA SetupKept ==
  ASSUME UNCHANGED setup
  PROVE  (ClusterOnly' <=> ClusterOnly) /\ (CreateDelete' <=> CreateDelete) /\ (Tame' <=> Tame)
  BY Zenon DEF ClusterOnly, CreateDelete, Tame

\* A step of the cluster policy's worker, as far as the invariants can tell.
LEMMA SideNcp ==
  ASSUME Types, RestInv, SideInv, NEW w \in WorkType, work' = [work EXCEPT !["ncp"] = w],
         UNCHANGED <<setup, policy>>, queue \ {Ncp} \subseteq queue', DsInv',
         \A n \in Node \ Nic : label'[n] = "" /\ w.todo[n] \in {"done", ""},
         ~w.logged, w.pc = "exclude" => w.skip = {},
         w.pc # "idle" /\ Ncp \notin queue' =>
           /\ w.mode = policy[Ncp]
           /\ Tame /\ w.pc \in {"list", "patch"} /\ w.mode # "ofed" => w.skip = OfedNodes
  PROVE  SideInv'
<1>1. /\ work'["ncp"] = w /\ work'["nnp"] = work["nnp"] /\ Thread = {"ncp", "nnp"}
      /\ (CreateDelete' <=> CreateDelete) /\ (Tame' <=> Tame) /\ OfedNodes' = OfedNodes
      /\ HostInv /\ NnpInv /\ KeyInv
  BY TypeFacts, SetupKept, Zenon DEF Thread, OfedNodes, SideInv, RestInv
<1>2. HostInv'
  BY <1>1, Zenon DEF HostInv
<1>3. NcpInv'
  BY <1>1, Zenon DEF NcpInv
<1>4. NnpInv'
  <2>1. work["nnp"].pc # "idle" => work["nnp"].key # Ncp
    BY <1>1, MofedAssumption, Zenon DEF KeyInv, Keys
  <2>2. QED
    BY <1>1, <2>1, Zenon DEF NnpInv
<1>5. QED
  BY <1>2, <1>3, <1>4, Zenon DEF SideInv

\* And one of the other.
LEMMA SideNnp ==
  ASSUME Types, RestInv, SideInv, NEW w \in WorkType, work' = [work EXCEPT !["nnp"] = w],
         UNCHANGED <<setup, policy>>, Ncp \in queue => Ncp \in queue', DsInv',
         \A n \in Node \ Nic : label'[n] = "" /\ w.todo[n] \in {"done", ""},
         \A n \in Node : w.todo[n] # "",
         CreateDelete /\ w.pc # "idle" =>
           /\ w.mode # policy[w.key] => w.key \in queue'
           /\ \A n \in Node : w.todo[n] \in Hold => n \in Selects[w.key]
  PROVE  SideInv'
<1>1. /\ work'["nnp"] = w /\ work'["ncp"] = work["ncp"] /\ Thread = {"ncp", "nnp"}
      /\ (CreateDelete' <=> CreateDelete) /\ (Tame' <=> Tame) /\ OfedNodes' = OfedNodes
      /\ HostInv /\ NcpInv
  BY TypeFacts, SetupKept, Zenon DEF Thread, OfedNodes, SideInv
<1>2. HostInv'
  BY <1>1, Zenon DEF HostInv
<1>3. NcpInv'
  BY <1>1, Zenon DEF NcpInv
<1>4. NnpInv'
  BY <1>1, Zenon DEF NnpInv
<1>5. QED
  BY <1>2, <1>3, <1>4, Zenon DEF SideInv

LEMMA SideWorker ==
  ASSUME Types, RestInv, SideInv, NEW t \in Thread, WorkerStep(t)
  PROVE  SideInv'
<1>0. /\ t \in {"ncp", "nnp"} /\ work[t] \in WorkType /\ Idle \in WorkType /\ Idle.pc = "idle"
      /\ (\A n \in Node : Idle.todo[n] = "done") /\ ~Idle.logged
      /\ HostInv /\ DsInv /\ NcpInv /\ NnpInv /\ KeyInv /\ PodInv /\ label \in [Node -> {"", "true", "false"}]
      /\ Ncp \notin Policy
  BY TypeFacts, IdleType, MofedAssumption, Zenon DEF Thread, SideInv, RestInv, Idle
<1>1. ASSUME UNCHANGED <<setup, policy, dsets>>, queue \subseteq queue'
      PROVE  DsInv'
  BY <1>0, <1>1, SetupKept, Zenon DEF DsInv
<1>2. ASSUME NEW o \in Owner, Reconcile(t, o)
      PROVE  SideInv'
  <2>1. /\ o \in Keys(t) /\ UNCHANGED <<setup, policy, label>>
        /\ dsets' = (IF policy[o] = "ofed" THEN dsets \cup {o} ELSE dsets \ {o})
    BY <1>2, ReconcileEffect, Zenon
  <2>2. ASSUME queue \ {o} \subseteq queue'
        PROVE  DsInv'
    BY <1>0, <2>1, <2>2, SetupKept, Zenon DEF DsInv
  <2>3. CASE t = "nnp" /\ policy[o] = "plain" /\ work' = [work EXCEPT ![t] = Idle] /\ queue' \in {queue, queue \ {o}}
    <3>1. Ncp \in queue => Ncp \in queue'
      BY <1>0, <2>1, <2>3, Zenon DEF Keys
    <3>2. QED
      BY <1>0, <2>1, <2>2, <2>3, <3>1, SideNnp, Zenon DEF HostInv, Hold
  <2>4. ASSUME NEW w, Began(t, o, w), queue' = queue \ {o}
        PROVE  SideInv'
    <3>1. /\ w \in WorkType /\ work' = [work EXCEPT ![t] = w] /\ w.key = o /\ w.mode = policy[o] /\ ~w.logged /\ w.skip = {}
          /\ (\A n \in Node : w.todo[n] = "done") /\ w.pc = (IF t = "ncp" /\ policy[o] # "ofed" THEN "exclude" ELSE "list")
      BY <2>4, Zenon DEF Began
    <3>2. \A n \in Node \ Nic : label'[n] = "" /\ w.todo[n] \in {"done", ""}
      BY <1>0, <2>1, <3>1, Zenon DEF HostInv, Hold
    <3>3. CASE t = "ncp"
      <4>1. o = Ncp
        BY <2>1, <3>3, Zenon DEF Keys
      <4>2. w.pc \in {"list", "patch"} => w.mode = "ofed"
        BY <3>1, <3>3, Zenon
      <4>3. QED
        BY <2>1, <2>2, <2>4, <3>1, <3>2, <3>3, <4>1, <4>2, SideNcp, Zenon
    <3>4. CASE t = "nnp"
      <4>1. Ncp \in queue => Ncp \in queue'
        BY <1>0, <2>1, <2>4, <3>4, Zenon DEF Keys
      <4>2. \A n \in Node : w.todo[n] # "" /\ w.todo[n] \notin Hold
        BY <3>1, Zenon DEF Hold
      <4>3. QED
        BY <2>1, <2>2, <2>4, <3>1, <3>2, <3>4, <4>1, <4>2, SideNnp, Zenon
    <3>5. QED
      BY <1>0, <3>3, <3>4, Zenon
  <2>5. QED
    BY <1>2, <2>3, <2>4, ReconcileEffect, Zenon
<1>3. CASE t = "ncp" /\ (handleMOFEDWaitLabelsNoConfig \/ exclusionFails)
  <2>1. PICK w \in WorkType : Excluded(w)
    BY <1>3, ExcludeEffect, Zenon
  <2>2. /\ work["ncp"].pc = "exclude" /\ work' = [work EXCEPT !["ncp"] = w] /\ w.pc = "list" /\ w.mode = work["ncp"].mode
        /\ w.logged = work["ncp"].logged /\ w.todo = work["ncp"].todo
        /\ w.skip = OfedNodes \/ (w.skip = work["ncp"].skip /\ faults < setup.faults)
        /\ UNCHANGED <<setup, policy, dsets, label, queue>>
    BY <2>1, Zenon DEF Excluded
  <2>3. Tame => w.skip = OfedNodes
    <3>1. CASE CreateDelete
      <4>1. ~(faults < setup.faults)
        <5>1. PICK m : m = setup.faults
          BY Zenon
        <5>2. m = 0 /\ faults \in 0 .. m
          BY <3>1, <5>1, SetupType, Zenon DEF CreateDelete
        <5>3. QED
          BY <5>1, <5>2
      <4>2. QED
        BY <2>2, <4>1, Zenon
    <3>2. CASE ClusterOnly
      <4>1. OfedNodes = {}
        BY <3>2, Zenon DEF RestInv, ClusterInv, OfedNodes
      <4>2. QED
        BY <1>0, <2>2, <4>1, Zenon DEF NcpInv
    <3>3. QED
      BY <3>1, <3>2, Zenon DEF Tame
  <2>4. \A n \in Node \ Nic : label'[n] = "" /\ w.todo[n] \in {"done", ""}
    BY <1>0, <1>3, <2>2, Zenon DEF HostInv
  <2>5. ~w.logged /\ (Ncp \notin queue' => w.mode = policy[Ncp])
    BY <1>0, <2>2, Zenon DEF NcpInv
  <2>6. QED
    BY <1>1, <2>2, <2>3, <2>4, <2>5, SideNcp, Zenon
<1>4. CASE list(t)
  <2>1. PICK w \in WorkType : Listed(t, w)
    BY <1>4, ListEffect, Zenon
  <2>2. /\ work[t].pc = "list" /\ work' = [work EXCEPT ![t] = w] /\ w.pc = "patch" /\ w.mode = work[t].mode /\ w.key = work[t].key
        /\ (w.logged => t = "nnp") /\ w.todo = Todo(t) /\ w.skip = work[t].skip
        /\ UNCHANGED <<setup, policy, dsets, label, queue>>
    BY <2>1, Zenon DEF Listed
  <2>3. ASSUME NEW n \in Node
        PROVE  w.todo[n] \in Hold => n \in Nic /\ (t = "nnp" => n \in Hosts(w.key))
    <3>1. w.todo[n] \in Hold => pod[n] # NoPod /\ (t = "nnp" => pod[n] = w.key)
      BY <2>2, TodoHost, Zenon
    <3>2. QED
      BY <1>0, <3>1, Zenon DEF PodInv, Hosts
  <2>4. \A n \in Node \ Nic : label'[n] = "" /\ w.todo[n] \in {"done", ""}
    <3>1. SUFFICES ASSUME NEW n \in Node \ Nic PROVE label'[n] = "" /\ w.todo[n] \in {"done", ""}
      BY Zenon
    <3>2. label[n] = "" /\ pod[n] = NoPod
      BY <1>0, Zenon DEF HostInv, PodInv, Hosts
    <3>3. QED
      BY <2>2, <3>2, TodoHost, Zenon
  <2>5. CASE t = "ncp"
    <3>1. ~w.logged
      BY <2>2, <2>5, Zenon
    <3>2. Ncp \notin queue' => w.mode = policy[Ncp] /\ (Tame /\ w.mode # "ofed" => w.skip = OfedNodes)
      BY <1>0, <2>2, <2>5, Zenon DEF NcpInv
    <3>3. QED
      BY <1>1, <2>2, <2>4, <2>5, <3>1, <3>2, SideNcp, Zenon
  <2>6. CASE t = "nnp"
    <3>1. w.key \in Policy
      BY <1>0, <2>2, <2>6, Zenon DEF KeyInv, Keys
    <3>2. \A n \in Node : w.todo[n] \in Hold => n \in Selects[w.key]
      BY <1>0, <2>3, <2>6, <3>1, Zenon DEF Hosts, Covers
    <3>3. \A n \in Node : w.todo[n] # ""
      BY <2>2, <2>6, TodoHost, Zenon
    <3>4. CreateDelete => (w.mode # policy[w.key] => w.key \in queue')
      BY <1>0, <2>2, <2>6, Zenon DEF NnpInv
    <3>5. QED
      BY <1>1, <2>2, <2>4, <2>6, <3>2, <3>3, <3>4, SideNnp, Zenon
  <2>7. QED
    BY <1>0, <2>5, <2>6, Zenon
<1>8. ASSUME NEW m \in Node, processOFEDPodsForWaitLabels(t, m)
      PROVE  SideInv'
  <2>0. PICK w \in WorkType : ReadNode(t, m, w)
    BY <1>8, ReadEffect, Zenon
  <2>1. /\ work' = [work EXCEPT ![t] = w] /\ UNCHANGED <<setup, policy, dsets, label, queue>>
        /\ w.key = work[t].key /\ work[t].pc = "patch" /\ w.pc = "patch" /\ work[t].todo[m] = "ifNodeReady"
        /\ w.mode = work[t].mode /\ w.logged = work[t].logged /\ w.skip = work[t].skip
        /\ w.todo = [work[t].todo EXCEPT ![m] = LabelValue(m)]
    BY <2>0, Zenon DEF ReadNode
  <2>2. /\ w.todo[m] \in {"true", "false"} /\ \A n \in Node : n # m => w.todo[n] = work[t].todo[n]
    <3>1. work[t].todo \in [Node -> Patch]
      BY <1>0, Zenon DEF WorkType
    <3>2. w.todo[m] = LabelValue(m) /\ \A n \in Node : n # m => w.todo[n] = work[t].todo[n]
      BY <2>1, <3>1, Zenon
    <3>3. QED
      BY <3>2, ValueType, Zenon
  <2>3. \A n \in Node \ Nic : label'[n] = "" /\ w.todo[n] \in {"done", ""}
    BY <1>0, <2>1, <2>2, Zenon DEF HostInv
  <2>4. CASE t = "ncp"
    <3>1. ~w.logged
      BY <1>0, <2>1, <2>4, Zenon DEF NcpInv
    <3>2. Ncp \notin queue' => w.mode = policy[Ncp] /\ (Tame /\ w.mode # "ofed" => w.skip = OfedNodes)
      BY <1>0, <2>1, <2>4, Zenon DEF NcpInv
    <3>3. QED
      BY <1>1, <2>1, <2>3, <2>4, <3>1, <3>2, SideNcp, Zenon
  <2>5. CASE t = "nnp"
    <3>1. \A n \in Node : w.todo[n] # ""
      BY <1>0, <2>2, <2>5, Zenon DEF HostInv
    <3>2. \A n \in Node : w.todo[n] \in Hold => work[t].todo[n] \in Hold
      BY <2>1, <2>2, Zenon DEF Hold
    <3>3. CreateDelete => /\ w.mode # policy[w.key] => w.key \in queue'
                          /\ \A n \in Node : w.todo[n] \in Hold => n \in Selects[w.key]
      BY <1>0, <2>1, <2>5, <3>2, Zenon DEF NnpInv
    <3>4. QED
      BY <1>1, <2>1, <2>3, <2>5, <3>1, <3>3, SideNnp, Zenon
  <2>6. QED
    BY <1>0, <2>4, <2>5, Zenon
<1>5. ASSUME NEW m \in Node, setNodeLabel(t, m)
      PROVE  SideInv'
  <2>0. PICK v \in {"", "true", "false"}, w \in WorkType : Patched(t, m, v, w)
    BY <1>5, PatchEffect, Zenon
  <2>1. /\ label' = [label EXCEPT ![m] = v] /\ queue' = LabelEvents(m, v) /\ work' = [work EXCEPT ![t] = w]
        /\ UNCHANGED <<setup, policy, dsets>> /\ w.key = work[t].key /\ work[t].pc = "patch" /\ w.pc = "patch"
        /\ v = work[t].todo[m] /\ v \notin {"done", "ifNodeReady"} /\ w.mode = work[t].mode /\ w.logged = work[t].logged /\ w.skip = work[t].skip
        /\ w.todo = [work[t].todo EXCEPT ![m] = "done"]
    BY <2>0, Zenon DEF Patched
  <2>2. queue \subseteq queue'
    BY <2>1, Zenon DEF LabelEvents
  <2>3. \A n \in Node : w.todo[n] \in {work[t].todo[n], "done"}
    BY <1>0, <2>1, Zenon DEF WorkType
  <2>5. \A n \in Node \ Nic : label'[n] = "" /\ w.todo[n] \in {"done", ""}
    <3>1. SUFFICES ASSUME NEW n \in Node \ Nic PROVE label'[n] = "" /\ w.todo[n] \in {"done", ""}
      BY Zenon
    <3>2. label[n] = "" /\ work[t].todo[n] \in {"done", ""}
      BY <1>0, Zenon DEF HostInv
    <3>3. label'[n] = ""
      BY <1>0, <2>1, <3>2, Zenon
    <3>4. QED
      BY <2>3, <3>2, <3>3, Zenon
  <2>6. CASE t = "ncp"
    <3>1. ~w.logged
      BY <1>0, <2>1, <2>6, Zenon DEF NcpInv
    <3>2. Ncp \notin queue' => w.mode = policy[Ncp] /\ (Tame /\ w.mode # "ofed" => w.skip = OfedNodes)
      BY <1>0, <2>1, <2>2, <2>6, Zenon DEF NcpInv
    <3>3. QED
      BY <1>1, <2>1, <2>2, <2>5, <2>6, <3>1, <3>2, SideNcp, Zenon
  <2>7. CASE t = "nnp"
    <3>1. \A n \in Node : w.todo[n] # ""
      BY <1>0, <2>3, <2>7, Zenon DEF HostInv
    <3>2. CreateDelete => /\ w.mode # policy[w.key] => w.key \in queue'
                          /\ \A n \in Node : w.todo[n] \in Hold => n \in Selects[w.key]
      BY <1>0, <2>1, <2>2, <2>3, <2>7, Zenon DEF NnpInv, Hold
    <3>3. QED
      BY <1>1, <2>1, <2>2, <2>5, <2>7, <3>1, <3>2, SideNnp, Zenon
  <2>8. QED
    BY <1>0, <2>6, <2>7, Zenon
<1>6. CASE finish(t) \/ callFails(t)
  <2>1. UNCHANGED <<setup, policy, dsets, label>> /\ work' = [work EXCEPT ![t] = Idle] /\ queue \subseteq queue'
    BY <1>6, EndEffect, Zenon DEF Ends
  <2>2. \A n \in Node \ Nic : label'[n] = "" /\ Idle.todo[n] \in {"done", ""}
    BY <1>0, <2>1, Zenon DEF HostInv, Hold
  <2>3. CASE t = "ncp"
    BY <1>0, <1>1, <2>1, <2>2, <2>3, SideNcp, Zenon
  <2>4. CASE t = "nnp"
    BY <1>0, <1>1, <2>1, <2>2, <2>4, SideNnp, Zenon
  <2>5. QED
    BY <1>0, <2>3, <2>4, Zenon
<1>7. QED
  BY <1>2, <1>3, <1>4, <1>5, <1>6, <1>8, Zenon DEF WorkerStep, Worker

LEMMA SideCluster ==
  ASSUME Types, RestInv, SideInv, Cluster \/ operatorRestarts \/ \E n \in Node : statusReported(n)
  PROVE  SideInv'
<1>0. /\ policy \in [Owner -> {"absent", "plain", "ofed"}] /\ HostInv /\ DsInv /\ NcpInv /\ NnpInv /\ KeyInv /\ Thread = {"ncp", "nnp"}
      /\ Idle.pc = "idle" /\ (\A n \in Node : Idle.todo[n] = "done") /\ ~Idle.logged /\ dsets \subseteq Owner /\ ClusterInv
      /\ Ncp \notin Policy /\ Owner = Policy \cup {Ncp}
  BY TypeFacts, IdleType, MofedAssumption, Zenon DEF Thread, SideInv, RestInv, Idle, Owner
<1>1. ASSUME UNCHANGED <<setup, policy, dsets, label, work>>, queue \subseteq queue'
      PROVE  SideInv'
  <2>1. HostInv' /\ DsInv'
    BY <1>0, <1>1, SetupKept, Zenon DEF HostInv, DsInv
  <2>2. NcpInv' /\ NnpInv'
    BY <1>0, <1>1, SetupKept, Zenon DEF NcpInv, NnpInv, OfedNodes
  <2>3. QED
    BY <2>1, <2>2, Zenon DEF SideInv
<1>2. ASSUME NEW p \in Owner, NEW m \in {"absent", "plain", "ofed"}, PolicyChanges(p, m)
      PROVE  SideInv'
  <2>1. /\ m \in setup.modes[p] /\ policy' = [policy EXCEPT ![p] = m]
        /\ dsets' = (IF m = "absent" THEN dsets \ {p} ELSE dsets)
        /\ queue' = queue \cup {p, Ncp} /\ m # policy[p]
        /\ UNCHANGED <<setup, label, work>>
    BY <1>2, Zenon DEF PolicyChanges
  <2>2. HostInv' /\ NcpInv'
    BY <1>0, <2>1, Zenon DEF HostInv, NcpInv
  <2>3. NnpInv'
    BY <1>0, <2>1, SetupKept, Zenon DEF NnpInv, KeyInv, Keys
  <2>4. \A o \in Owner : policy'[o] = "absent" => o \notin dsets'
    BY <1>0, <2>1, Zenon DEF DsInv
  <2>5. ASSUME Tame, NEW o \in dsets'
        PROVE  policy'[o] = "ofed" \/ (o = Ncp /\ Ncp \in queue')
    <3>1. o \in dsets /\ o \in Owner
      BY <1>0, <2>1, Zenon
    <3>2. CASE o # p
      BY <1>0, <2>1, <2>5, <3>1, <3>2, Zenon DEF DsInv
    <3>3. CASE o = p /\ o \in Policy
      <4>1. CASE ClusterOnly
        BY <1>0, <3>1, <3>3, <4>1, Zenon DEF ClusterInv
      <4>2. CASE CreateDelete
        BY <1>0, <2>1, <3>3, <4>2, <2>5, Zenon DEF CreateDelete
      <4>3. QED
        BY <2>5, <4>1, <4>2, Zenon DEF Tame
    <3>4. CASE o = Ncp
      BY <2>1, <3>4, Zenon
    <3>5. QED
      BY <1>0, <3>1, <3>2, <3>3, <3>4, Zenon
  <2>6. DsInv'
    BY <2>1, <2>4, <2>5, SetupKept, Zenon DEF DsInv
  <2>7. QED
    BY <2>2, <2>3, <2>6, Zenon DEF SideInv
<1>3. ASSUME NEW n \in Node, NEW p \in Owner, podStarts(n, p)
      PROVE  SideInv'
  BY <1>1, <1>3, Zenon DEF podStarts
<1>4. ASSUME NEW n \in Node, podGone(n) \/ podReadiness(n) \/ nodeReadiness(n) \/ statusReported(n)
      PROVE  SideInv'
  BY <1>1, <1>4, Zenon DEF podGone, podReadiness, nodeReadiness, statusReported, driver, ReadyEvents
<1>5. ASSUME NEW p \in Owner, otherEvent(p)
      PROVE  SideInv'
  BY <1>1, <1>5, Zenon DEF otherEvent, driver
<1>6. CASE operatorRestarts
  <2>1. /\ UNCHANGED <<setup, policy, dsets, label>> /\ work'["ncp"] = Idle /\ work'["nnp"] = Idle
        /\ policy[Ncp] # "absent" => Ncp \in queue'
    BY <1>0, <1>6, Zenon DEF operatorRestarts, driver
  <2>2. HostInv'
    <3>1. \A t \in Thread : work'[t] = Idle
      BY <1>0, <2>1, Zenon
    <3>2. QED
      BY <1>0, <2>1, <3>1, Zenon DEF HostInv
  <2>3. NcpInv' /\ NnpInv'
    BY <1>0, <2>1, Zenon DEF NcpInv, NnpInv
  <2>4. DsInv'
    BY <1>0, <2>1, SetupKept, Zenon DEF DsInv
  <2>5. QED
    BY <2>2, <2>3, <2>4, Zenon DEF SideInv
<1>7. QED
  BY <1>2, <1>3, <1>4, <1>5, <1>6, Zenon DEF Cluster

\* A label that does not make the node wait.
Right(n) == label[n] \in (IF n \in Nic THEN {"false"} ELSE {"", "false"})

\* The worker of the node policies will clear an orphaned label of n, or come
\* back to a deleted policy.
Clears(n) ==
  \/ \E q \in Policy : q \in queue /\ policy[q] = "absent"
  \/ /\ work["nnp"].pc # "idle" /\ work["nnp"].mode = "absent" /\ policy[work["nnp"].key] = "absent"
     /\ work["nnp"].pc = "list" \/ work["nnp"].again \/ \E m \in Node : work["nnp"].todo[m] = "true"
  \/ work["nnp"].pc = "patch" /\ work["nnp"].todo[n] = "false"

Opened(n) == pod[n] = NoPod /\ (Right(n) \/ (CreateDelete /\ label[n] = "true" /\ Clears(n)))

Covered(n) == policy[Ncp] = "ofed" \/ n \in OfedNodes

\* A node without driver, when the cluster policy's next pass is not due, is
\* open, or the pass under way opens it or asks for another.
FreeInv(n) ==
  Ncp \notin queue /\ ~Covered(n) =>
    /\ work["ncp"].pc = "idle" => Opened(n)
    /\ work["ncp"].pc = "patch" /\ ~work["ncp"].again =>
         \/ work["ncp"].todo[n] = "true"
         \/ pod[n] = NoPod /\ work["ncp"].todo[n] = (IF n \in Nic THEN "false" ELSE "")
         \/ work["ncp"].todo[n] = "done" /\ Opened(n)

LEMMA FreeFrame ==
  ASSUME NEW n \in Node, FreeInv(n), UNCHANGED policy, Ncp \in queue => Ncp \in queue',
         work'["ncp"] = work["ncp"], ~Covered(n) /\ Ncp \notin queue' /\ Opened(n) => Opened(n)',
         ~Covered(n) /\ Ncp \notin queue' /\ pod[n] = NoPod => pod'[n] = NoPod
  PROVE  FreeInv(n)'
<1>1. Covered(n)' <=> Covered(n)
  BY Zenon DEF Covered, OfedNodes
<1>2. QED
  BY <1>1, Zenon DEF FreeInv

\* Steps that leave the label, the pod and the node policies' worker alone.
LEMMA OpenedKept ==
  ASSUME NEW n \in Node, Opened(n), UNCHANGED <<setup, policy>>, work'["nnp"] = work["nnp"],
         label'[n] = label[n], pod'[n] = NoPod, queue \cap Policy \subseteq queue'
  PROVE  Opened(n)'
<1>1. Right(n) => Right(n)'
  BY Zenon DEF Right
<1>2. Clears(n) => Clears(n)'
  BY Zenon DEF Clears
<1>3. QED
  BY <1>1, <1>2, SetupKept, Zenon DEF Opened

\* A step of the cluster policy's worker.
LEMMA FreeNcp ==
  ASSUME Types, RestInv, SideInv, Tame, NEW n \in Node, FreeInv(n), WorkerStep("ncp")
  PROVE  FreeInv(n)'
<1>0. /\ work \in [Thread -> WorkType] /\ work["ncp"] \in WorkType /\ "ncp" \in Thread /\ "nnp" \in Thread
      /\ NcpInv /\ KeyInv /\ Ncp \notin Policy
      /\ label \in [Node -> {"", "true", "false"}] /\ Idle.pc = "idle"
  BY TypeFacts, IdleType, MofedAssumption, Zenon DEF Thread, SideInv, RestInv
<1>1. ASSUME work'["ncp"].pc \in {"exclude", "list"}
      PROVE  FreeInv(n)'
  BY <1>1, Zenon DEF FreeInv
<1>2. ASSUME NEW o \in Owner, Reconcile("ncp", o)
      PROVE  FreeInv(n)'
  <2>1. PICK w : Began("ncp", o, w)
    BY <1>0, <1>2, ReconcileEffect, Zenon
  <2>2. QED
    BY <1>0, <1>1, <2>1, Zenon DEF Began
<1>3. CASE handleMOFEDWaitLabelsNoConfig \/ exclusionFails
  <2>1. PICK w \in WorkType : Excluded(w)
    BY <1>3, ExcludeEffect, Zenon
  <2>2. QED
    BY <1>0, <1>1, <2>1, Zenon DEF Excluded
<1>4. CASE list("ncp")
  <2>1. PICK w \in WorkType : Listed("ncp", w)
    BY <1>0, <1>4, ListEffect, Zenon
  <2>2. /\ work["ncp"].pc = "list" /\ work'["ncp"] = w /\ w.pc = "patch" /\ w.todo = Todo("ncp")
        /\ UNCHANGED <<policy, pod, queue>>
    BY <1>0, <2>1, Zenon DEF Listed
  <2>3. ASSUME Ncp \notin queue', ~Covered(n)'
        PROVE  \/ w.todo[n] = "true"
               \/ pod'[n] = NoPod /\ w.todo[n] = (IF n \in Nic THEN "false" ELSE "")
    <3>1. Ncp \notin queue /\ policy[Ncp] # "ofed" /\ n \notin OfedNodes
      BY <2>2, <2>3, Zenon DEF Covered, OfedNodes
    <3>2. work["ncp"].mode # "ofed" /\ work["ncp"].skip = OfedNodes
      BY <1>0, <2>2, <3>1, Zenon DEF NcpInv
    <3>3. w.todo = NoConfig(work["ncp"].skip)
      BY <2>2, <3>2, Zenon DEF Todo
    <3>4. QED
      BY <2>2, <3>1, <3>2, <3>3, Zenon DEF NoConfig
  <2>4. QED
    BY <2>2, <2>3, Zenon DEF FreeInv
<1>8. ASSUME NEW m \in Node, processOFEDPodsForWaitLabels("ncp", m)
      PROVE  FreeInv(n)'
  <2>1. PICK w \in WorkType : ReadNode("ncp", m, w)
    BY <1>0, <1>8, ReadEffect, Zenon
  <2>2. /\ UNCHANGED <<setup, policy, pod, label, queue>> /\ work["ncp"].pc = "patch" /\ w.pc = "patch"
        /\ work'["ncp"] = w /\ work'["nnp"] = work["nnp"] /\ w.again = work["ncp"].again
        /\ work["ncp"].todo[m] = "ifNodeReady"
    BY <1>0, <2>1, Zenon DEF ReadNode
  <2>3. m # n => w.todo[n] = work["ncp"].todo[n]
    BY <1>0, <2>1, Zenon DEF ReadNode, WorkType
  <2>4. Opened(n) => Opened(n)'
    <3>1. Opened(n) => pod'[n] = NoPod
      BY <2>2, Zenon DEF Opened
    <3>2. QED
      BY <2>2, <3>1, OpenedKept, Zenon
  <2>5. Covered(n)' <=> Covered(n)
    BY <2>2, Zenon DEF Covered, OfedNodes
  <2>6. Ncp \notin queue /\ ~Covered(n) /\ ~work["ncp"].again => m # n
    BY <2>2, Zenon DEF FreeInv
  <2>7. QED
    BY <2>2, <2>3, <2>4, <2>5, <2>6, Zenon DEF FreeInv
<1>5. ASSUME NEW m \in Node, setNodeLabel("ncp", m)
      PROVE  FreeInv(n)'
  <2>0. PICK v \in {"", "true", "false"}, w \in WorkType : Patched("ncp", m, v, w)
    BY <1>0, <1>5, PatchEffect, Zenon
  <2>1. /\ label' = [label EXCEPT ![m] = v] /\ queue' = LabelEvents(m, v) /\ work' = [work EXCEPT !["ncp"] = w]
        /\ UNCHANGED <<setup, policy, pod>> /\ work["ncp"].pc = "patch" /\ w.pc = "patch"
        /\ v = work["ncp"].todo[m] /\ (w.again <=> work["ncp"].again \/ v = "true")
        /\ w.todo = [work["ncp"].todo EXCEPT ![m] = "done"] /\ v \notin {"done", "ifNodeReady"}
    BY <2>0, Zenon DEF Patched
  <2>2. /\ queue \subseteq queue' /\ work'["ncp"] = w /\ work'["nnp"] = work["nnp"]
        /\ work["ncp"].todo \in [Node -> Patch]
    BY <1>0, <2>1 DEF LabelEvents, WorkType
  <2>3. ASSUME Ncp \notin queue', ~Covered(n)', ~w.again
        PROVE  \/ w.todo[n] = "true"
               \/ pod'[n] = NoPod /\ w.todo[n] = (IF n \in Nic THEN "false" ELSE "")
               \/ w.todo[n] = "done" /\ Opened(n)'
    <3>1. \/ work["ncp"].todo[n] = "true"
          \/ pod[n] = NoPod /\ work["ncp"].todo[n] = (IF n \in Nic THEN "false" ELSE "")
          \/ work["ncp"].todo[n] = "done" /\ Opened(n)
      <4>1. Ncp \notin queue /\ ~Covered(n) /\ ~work["ncp"].again
        BY <2>1, <2>2, <2>3, Zenon DEF Covered, OfedNodes
      <4>2. QED
        BY <2>1, <4>1, Zenon DEF FreeInv
    <3>2. CASE m = n
      <4>1. v # "true"
        BY <2>1, <2>3, Zenon
      <4>2. work["ncp"].todo[n] # "true"
        BY <2>1, <3>2, <4>1, Zenon
      <4>3. pod[n] = NoPod /\ work["ncp"].todo[n] = (IF n \in Nic THEN "false" ELSE "")
        BY <2>1, <3>1, <3>2, <4>2, Zenon
      <4>4. v = (IF n \in Nic THEN "false" ELSE "")
        BY <2>1, <3>2, <4>3, Zenon
      <4>5. label'[n] = v /\ w.todo[n] = "done"
        BY <1>0, <2>1, <2>2, <3>2, Zenon
      <4>6. Opened(n)'
        <5>1. Right(n)'
          BY <4>4, <4>5, Zenon DEF Right
        <5>2. pod'[n] = NoPod
          BY <2>1, <4>3, Zenon
        <5>3. QED
          BY <5>1, <5>2, Zenon DEF Opened
      <4>7. QED
        BY <4>5, <4>6, Zenon
    <3>3. CASE m # n
      <4>1. w.todo[n] = work["ncp"].todo[n] /\ label'[n] = label[n]
        BY <1>0, <2>1, <2>2, <3>3, Zenon
      <4>2. Opened(n) => Opened(n)'
        <5>1. Opened(n) => pod'[n] = NoPod
          BY <2>1, Zenon DEF Opened
        <5>2. QED
          BY <2>1, <2>2, <4>1, <5>1, OpenedKept, Zenon
      <4>3. QED
        BY <2>1, <3>1, <4>1, <4>2, Zenon
    <3>4. QED
      BY <3>2, <3>3, Zenon
  <2>4. QED
    BY <2>1, <2>2, <2>3, Zenon DEF FreeInv
<1>6. CASE finish("ncp") \/ callFails("ncp")
  <2>1. Ends("ncp")
    BY <1>0, <1>6, EndEffect, Zenon
  <2>2. /\ UNCHANGED <<setup, policy, pod, label>> /\ work' = [work EXCEPT !["ncp"] = Idle] /\ queue \subseteq queue'
        /\ work["ncp"].pc \in {"list", "patch"}
        /\ work["ncp"].key \in queue' \/ work["ncp"].logged
             \/ (work["ncp"].pc = "patch" /\ ~work["ncp"].again /\ \A k \in Node : work["ncp"].todo[k] = "done")
    BY <2>1, Zenon DEF Ends
  <2>3. work'["ncp"] = Idle /\ work'["nnp"] = work["nnp"] /\ work["ncp"].key = Ncp /\ ~work["ncp"].logged
    BY <1>0, <2>2, Zenon DEF KeyInv, Keys, NcpInv
  <2>4. ASSUME Ncp \notin queue', ~Covered(n)'
        PROVE  Opened(n)'
    <3>1. Ncp \notin queue /\ ~Covered(n)
      BY <2>2, <2>4, Zenon DEF Covered, OfedNodes
    <3>2. work["ncp"].pc = "patch" /\ ~work["ncp"].again /\ work["ncp"].todo[n] = "done"
      BY <2>2, <2>3, <2>4, Zenon
    <3>3. Opened(n)
      BY <3>1, <3>2, Zenon DEF FreeInv
    <3>4. pod'[n] = NoPod
      BY <2>2, <3>3, Zenon DEF Opened
    <3>5. QED
      BY <2>2, <2>3, <3>3, <3>4, OpenedKept, Zenon
  <2>5. QED
    BY <1>0, <2>3, <2>4, Zenon DEF FreeInv
<1>7. QED
  BY <1>2, <1>3, <1>4, <1>5, <1>6, <1>8, Zenon DEF WorkerStep, Worker

\* A step of the node policies' worker.
LEMMA OpenedNnp ==
  ASSUME Types, RestInv, SideInv, Tame, NEW n \in Node, Opened(n), ~Covered(n), WorkerStep("nnp")
  PROVE  Opened(n)'
<1>0. /\ work \in [Thread -> WorkType] /\ work["nnp"] \in WorkType /\ "nnp" \in Thread /\ HostInv /\ NnpInv /\ KeyInv
      /\ ClusterInv /\ ModeInv /\ Ncp \notin Policy /\ label \in [Node -> {"", "true", "false"}] /\ pod[n] = NoPod
      /\ Policy \subseteq Owner
  BY TypeFacts, MofedAssumption, Zenon DEF Thread, SideInv, RestInv, Opened, Owner
<1>1. ASSUME UNCHANGED <<setup, pod>>, label'[n] = label[n], CreateDelete /\ label[n] = "true" /\ Clears(n) => Clears(n)'
      PROVE  Opened(n)'
  <2>1. Right(n) => Right(n)'
    BY <1>1, Zenon DEF Right
  <2>2. QED
    BY <1>0, <1>1, <2>1, SetupKept, Zenon DEF Opened
<1>2. ASSUME NEW o \in Owner, Reconcile("nnp", o)
      PROVE  Opened(n)'
  <2>1. o \in Keys("nnp") /\ UNCHANGED <<setup, policy, pod, label>> /\ work["nnp"].pc = "idle"
    BY <1>0, <1>2, ReconcileEffect, Zenon
  <2>2. CASE policy[o] = "plain" /\ work' = [work EXCEPT !["nnp"] = Idle] /\ queue' \in {queue, queue \ {o}}
    <3>1. Clears(n) => Clears(n)'
      BY <2>1, <2>2, Zenon DEF Clears
    <3>2. QED
      BY <1>1, <2>1, <3>1, Zenon
  <2>3. ASSUME NEW w, Began("nnp", o, w), queue' = queue \ {o}
        PROVE  Opened(n)'
    <3>1. work'["nnp"] = w /\ w.key = o /\ w.mode = policy[o] /\ w.pc = "list"
      BY <1>0, <2>3, Zenon DEF Began
    <3>2. Clears(n) => Clears(n)'
      BY <2>1, <2>3, <3>1, Zenon DEF Clears
    <3>3. QED
      BY <1>1, <2>1, <3>2, Zenon
  <2>4. QED
    BY <1>0, <1>2, <2>2, <2>3, ReconcileEffect, Zenon
<1>3. CASE list("nnp")
  <2>1. PICK w \in WorkType : Listed("nnp", w)
    BY <1>0, <1>3, ListEffect, Zenon
  <2>2. /\ work["nnp"].pc = "list" /\ work'["nnp"] = w /\ w.pc = "patch" /\ w.todo = Todo("nnp") /\ w.mode = work["nnp"].mode
        /\ w.key = work["nnp"].key /\ UNCHANGED <<setup, policy, pod, label, queue>>
    BY <1>0, <2>1, Zenon DEF Listed
  <2>3. ASSUME label[n] = "true", Clears(n)
        PROVE  Clears(n)'
    <3>1. CASE \E q \in Policy : q \in queue /\ policy[q] = "absent"
      BY <2>2, <3>1, Zenon DEF Clears
    <3>2. CASE work["nnp"].mode = "absent" /\ policy[work["nnp"].key] = "absent"
      <4>1. CASE PodsOf(work["nnp"].key) = {}
        <5>1. w.todo = ClearOrphans
          BY <2>2, <3>2, <4>1, Zenon DEF Todo
        <5>2. w.todo[n] = "false"
          BY <1>0, <2>3, <5>1, Zenon DEF ClearOrphans
        <5>3. QED
          BY <2>2, <5>2, Zenon DEF Clears
      <4>2. CASE PodsOf(work["nnp"].key) # {}
        <5>1. w.todo = [k \in Node |-> IF k \in PodsOf(work["nnp"].key) THEN "true" ELSE "done"]
          BY <2>2, <3>2, <4>2, Zenon DEF Todo
        <5>2. PICK k \in Node : k \in PodsOf(work["nnp"].key)
          BY <4>2, Zenon DEF PodsOf
        <5>3. w.todo[k] = "true"
          BY <5>1, <5>2, Zenon
        <5>4. QED
          BY <2>2, <3>2, <5>3, Zenon DEF Clears
      <4>3. QED
        BY <4>1, <4>2, Zenon
    <3>3. QED
      BY <2>2, <2>3, <3>1, <3>2, Zenon DEF Clears
  <2>4. QED
    BY <1>1, <2>2, <2>3, Zenon
<1>7. ASSUME NEW m \in Node, processOFEDPodsForWaitLabels("nnp", m)
      PROVE  Opened(n)'
  <2>1. PICK w \in WorkType : ReadNode("nnp", m, w)
    BY <1>0, <1>7, ReadEffect, Zenon
  <2>2. /\ UNCHANGED <<setup, policy, pod, label, queue>> /\ work["nnp"].pc = "patch" /\ w.pc = "patch"
        /\ work'["nnp"] = w /\ w.again = work["nnp"].again /\ w.mode = work["nnp"].mode /\ w.key = work["nnp"].key
        /\ work["nnp"].todo[m] = "ifNodeReady"
    BY <1>0, <2>1, Zenon DEF ReadNode
  <2>3. \A k \in Node : work["nnp"].todo[k] \in {"true", "false"} => w.todo[k] = work["nnp"].todo[k]
    BY <1>0, <2>1, Zenon DEF ReadNode, WorkType
  <2>4. Clears(n) => Clears(n)'
    BY <2>2, <2>3, Zenon DEF Clears
  <2>5. QED
    BY <1>1, <2>2, <2>4, Zenon
<1>4. ASSUME NEW m \in Node, setNodeLabel("nnp", m)
      PROVE  Opened(n)'
  <2>0. PICK v \in {"", "true", "false"}, w \in WorkType : Patched("nnp", m, v, w)
    BY <1>0, <1>4, PatchEffect, Zenon
  <2>1. /\ label' = [label EXCEPT ![m] = v] /\ queue' = LabelEvents(m, v) /\ work' = [work EXCEPT !["nnp"] = w]
        /\ UNCHANGED <<setup, policy, pod>> /\ work["nnp"].pc = "patch" /\ w.pc = "patch"
        /\ v = work["nnp"].todo[m] /\ (w.again <=> work["nnp"].again \/ v = "true")
        /\ w.todo = [work["nnp"].todo EXCEPT ![m] = "done"] /\ work["nnp"].todo[m] # "done"
        /\ w.mode = work["nnp"].mode /\ w.key = work["nnp"].key
    BY <2>0, Zenon DEF Patched
  <2>2. queue \subseteq queue' /\ work'["nnp"] = w /\ work["nnp"].todo \in [Node -> Patch]
    BY <1>0, <2>1 DEF LabelEvents, WorkType
  <2>3. \A k \in Node : k # m => w.todo[k] = work["nnp"].todo[k]
    BY <2>1, <2>2, Zenon
  <2>4. CASE m # n
    <3>1. label'[n] = label[n]
      BY <1>0, <2>1, <2>4, Zenon
    <3>2. work["nnp"].todo[m] = "true" => w.again
      BY <2>1, Zenon
    <3>3. (\E q \in Policy : q \in queue /\ policy[q] = "absent") => Clears(n)'
      BY <2>1, <2>2, Zenon DEF Clears
    <3>4. work["nnp"].todo[n] = "false" => Clears(n)'
      BY <2>1, <2>2, <2>3, <2>4, Zenon DEF Clears
    <3>5. ASSUME work["nnp"].mode = "absent", policy[work["nnp"].key] = "absent",
                 work["nnp"].again \/ \E k \in Node : work["nnp"].todo[k] = "true"
          PROVE  Clears(n)'
      <4>1. w.again \/ \E k \in Node : w.todo[k] = "true"
        BY <2>1, <2>3, <3>2, <3>5, Zenon
      <4>2. QED
        BY <2>1, <2>2, <3>5, <4>1 DEF Clears
    <3>6. Clears(n) => Clears(n)'
      BY <2>1, <3>3, <3>4, <3>5, Zenon DEF Clears
    <3>7. QED
      BY <1>1, <2>1, <3>1, <3>6, Zenon
  <2>5. CASE m = n
    <3>1. label'[n] = v /\ pod'[n] = NoPod
      BY <1>0, <2>1, <2>5, Zenon
    <3>2. CASE v = "false"
      BY <3>1, <3>2, Zenon DEF Opened, Right
    <3>3. CASE v = ""
      <4>1. work["nnp"].todo[n] = ""
        BY <2>1, <2>5, <3>3, Zenon
      <4>2. QED
        BY <1>0, <4>1, Zenon DEF HostInv
    <3>4. CASE v = "true"
      <4>1. work["nnp"].todo[n] \in Hold
        BY <2>1, <2>5, <3>4, Zenon DEF Hold
      <4>2. CreateDelete
        BY <1>0, <4>1, Zenon DEF Tame, ClusterInv, Hold
      <4>3. PICK q : q = work["nnp"].key
        BY Zenon
      <4>4. q \in Policy /\ n \in Selects[q] /\ (work["nnp"].mode # policy[q] => q \in queue)
        BY <1>0, <2>1, <4>1, <4>2, <4>3, Zenon DEF NnpInv, KeyInv, Keys
      <4>5. policy[q] # "ofed"
        BY <4>4, Zenon DEF Covered, OfedNodes
      <4>6. policy[q] = "absent"
        BY <1>0, <4>2, <4>4, <4>5, TypeFacts, Zenon DEF ModeInv, CreateDelete
      <4>7. Clears(n)'
        <5>1. CASE work["nnp"].mode = "absent"
          BY <2>1, <2>2, <3>4, <4>3, <4>6, <5>1 DEF Clears
        <5>2. CASE work["nnp"].mode # "absent"
          BY <2>1, <2>2, <4>4, <4>6, <5>2, Zenon DEF Clears
        <5>3. QED
          BY <5>1, <5>2, Zenon
      <4>8. QED
        BY <2>1, <3>1, <3>4, <4>2, <4>7, SetupKept, Zenon DEF Opened
    <3>5. QED
      BY <3>2, <3>3, <3>4, Zenon
  <2>6. QED
    BY <2>4, <2>5, Zenon
<1>5. CASE finish("nnp") \/ callFails("nnp")
  <2>1. UNCHANGED <<setup, policy, pod, label>> /\ queue \subseteq queue'
    BY <1>0, <1>5, EndEffect, Zenon DEF Ends
  <2>2. ASSUME CreateDelete, Clears(n)
        PROVE  Clears(n)'
    <3>1. finish("nnp")
      <4>1. PICK k : k = setup.faults
        BY Zenon
      <4>2. k = 0 /\ faults \in 0 .. k
        BY <2>2, <4>1, SetupType, Zenon DEF CreateDelete
      <4>3. ~(faults < k)
        BY <4>2
      <4>4. QED
        BY <1>5, <4>1, <4>3, Zenon DEF callFails
    <3>2. /\ work["nnp"].pc = "patch" /\ (\A k \in Node : work["nnp"].todo[k] = "done")
          /\ work["nnp"].again => work["nnp"].key \in queue'
      BY <3>1, Zenon DEF finish
    <3>3. work["nnp"].key \in Policy
      BY <1>0, <3>2, Zenon DEF KeyInv, Keys
    <3>4. \E q \in Policy : q \in queue' /\ policy[q] = "absent"
      BY <2>1, <2>2, <3>2, <3>3, Zenon DEF Clears
    <3>5. QED
      BY <2>1, <3>4, Zenon DEF Clears
  <2>3. QED
    BY <1>1, <2>1, <2>2, Zenon
<1>6. QED
  BY <1>2, <1>3, <1>4, <1>5, <1>7, Zenon DEF WorkerStep, Worker

LEMMA FreeNnp ==
  ASSUME Types, RestInv, SideInv, Tame, NEW n \in Node, FreeInv(n), WorkerStep("nnp")
  PROVE  FreeInv(n)'
<1>0. work \in [Thread -> WorkType] /\ "nnp" \in Thread /\ "ncp" \in Thread /\ Ncp \notin Policy
  BY TypeFacts, MofedAssumption, Zenon DEF Thread
<1>1. /\ UNCHANGED <<policy, pod>> /\ (Ncp \in queue => Ncp \in queue')
      /\ \E w : work' = [work EXCEPT !["nnp"] = w]
  <2>1. ASSUME NEW o \in Owner, Reconcile("nnp", o)
        PROVE  <1>1!:
    <3>1. o \in Policy /\ UNCHANGED <<policy, pod>>
      BY <1>0, <2>1, ReconcileEffect, Zenon DEF Keys
    <3>2. queue' \in {queue, queue \ {o}} /\ \E w : work' = [work EXCEPT !["nnp"] = w]
      BY <1>0, <2>1, Zenon DEF Reconcile
    <3>3. QED
      BY <1>0, <3>1, <3>2, Zenon
  <2>2. CASE list("nnp")
    <3>1. PICK w \in WorkType : Listed("nnp", w)
      BY <1>0, <2>2, ListEffect, Zenon
    <3>2. QED
      BY <3>1, Zenon DEF Listed
  <2>3. ASSUME NEW m \in Node, setNodeLabel("nnp", m)
        PROVE  <1>1!:
    <3>1. PICK v \in {"", "true", "false"}, w \in WorkType : Patched("nnp", m, v, w)
      BY <1>0, <2>3, PatchEffect, Zenon
    <3>2. QED
      BY <3>1, Zenon DEF Patched, LabelEvents
  <2>6. ASSUME NEW m \in Node, processOFEDPodsForWaitLabels("nnp", m)
        PROVE  <1>1!:
    <3>1. PICK w \in WorkType : ReadNode("nnp", m, w)
      BY <1>0, <2>6, ReadEffect, Zenon
    <3>2. QED
      BY <3>1, Zenon DEF ReadNode
  <2>4. CASE finish("nnp") \/ callFails("nnp")
    BY <1>0, <2>4, EndEffect, Zenon DEF Ends
  <2>5. QED
    BY <2>1, <2>2, <2>3, <2>4, <2>6, Zenon DEF WorkerStep, Worker
<1>2. work'["ncp"] = work["ncp"]
  BY <1>0, <1>1, Zenon
<1>3. ~Covered(n) /\ Opened(n) => Opened(n)'
  BY OpenedNnp, Zenon
<1>4. QED
  BY <1>1, <1>2, <1>3, FreeFrame, Zenon

\* What the cluster and a restart do.
LEMMA FreeCluster ==
  ASSUME Types, RestInv, SideInv, Tame, NEW n \in Node, FreeInv(n),
         Cluster \/ operatorRestarts \/ \E k \in Node : statusReported(k)
  PROVE  FreeInv(n)'
<1>0. /\ pod \in [Node -> Owner \cup {NoPod}] /\ HostInv /\ DsInv /\ PodInv /\ Idle.pc = "idle" /\ dsets \subseteq Owner
      /\ label \in [Node -> {"", "true", "false"}] /\ "ncp" \in Thread
  BY TypeFacts, IdleType, Zenon DEF SideInv, RestInv, Thread
<1>1. ASSUME Ncp \in queue' PROVE FreeInv(n)'
  BY <1>1, Zenon DEF FreeInv
<1>2. ASSUME UNCHANGED <<setup, policy, label, work>>, queue \subseteq queue',
             ~Covered(n) /\ Ncp \notin queue' /\ pod[n] = NoPod => pod'[n] = NoPod
      PROVE  FreeInv(n)'
  <2>1. ~Covered(n) /\ Ncp \notin queue' /\ Opened(n) => Opened(n)'
    <3>1. Opened(n) => pod[n] = NoPod
      BY Zenon DEF Opened
    <3>2. QED
      BY <1>2, <3>1, OpenedKept, Zenon
  <2>2. QED
    BY <1>2, <2>1, FreeFrame, Zenon
<1>3. ASSUME NEW p \in Owner, NEW m \in {"absent", "plain", "ofed"}, PolicyChanges(p, m)
      PROVE  FreeInv(n)'
  BY <1>1, <1>3, Zenon DEF PolicyChanges
<1>4. ASSUME NEW k \in Node, NEW p \in Owner, podStarts(k, p)
      PROVE  FreeInv(n)'
  <2>1. /\ p \in dsets /\ k \in Covers(p) /\ pod' = [pod EXCEPT ![k] = p] /\ queue \subseteq queue'
        /\ UNCHANGED <<setup, policy, label, work>>
    BY <1>4, Zenon DEF podStarts
  <2>2. ASSUME ~Covered(n), Ncp \notin queue'
        PROVE  k # n
    <3>1. policy[p] = "ofed"
      BY <1>0, <2>1, <2>2, Zenon DEF DsInv
    <3>2. QED
      BY <2>1, <2>2, <3>1, Zenon DEF Covered, OfedNodes, Covers, Owner
  <2>3. QED
    BY <1>0, <1>2, <2>1, <2>2, Zenon
<1>5. ASSUME NEW k \in Node, podGone(k)
      PROVE  FreeInv(n)'
  BY <1>0, <1>2, <1>5, Zenon DEF podGone
<1>6. ASSUME NEW k \in Node, podReadiness(k) \/ statusReported(k)
      PROVE  FreeInv(n)'
  BY <1>2, <1>6, Zenon DEF podReadiness, statusReported
<1>7. ASSUME NEW k \in Node, nodeReadiness(k)
      PROVE  FreeInv(n)'
  BY <1>1, <1>7, Zenon DEF nodeReadiness, ReadyEvents
<1>8. ASSUME NEW p \in Owner, otherEvent(p)
      PROVE  FreeInv(n)'
  BY <1>2, <1>8, Zenon DEF otherEvent, driver
<1>9. CASE operatorRestarts
  <2>1. UNCHANGED <<pod, label>> /\ (Nic # {} => Ncp \in queue') /\ work'["ncp"] = Idle
    BY <1>0, <1>9, Zenon DEF operatorRestarts, driver
  <2>2. Nic = {} => pod[n] = NoPod /\ Right(n)
    BY <1>0, Zenon DEF PodInv, Hosts, HostInv, Right
  <2>3. Nic = {} => Opened(n)'
    BY <2>1, <2>2, Zenon DEF Opened, Right
  <2>4. QED
    BY <1>0, <1>1, <2>1, <2>3, Zenon DEF FreeInv
<1>10. QED
  BY <1>3, <1>4, <1>5, <1>6, <1>7, <1>8, <1>9, Zenon DEF Cluster

\* The inductive invariant of nodes without driver.
BareInv == Types /\ RestInv /\ SideInv /\ (Tame => \A n \in Node : FreeInv(n))

LEMMA BareInit == Init => BareInv
<1>1. SUFFICES ASSUME Init PROVE BareInv
  BY Zenon
<1>2. /\ \A n \in Node : label[n] = "" /\ pod[n] = NoPod
      /\ work["ncp"] = Idle /\ work["nnp"] = Idle /\ (\A t \in Thread : work[t] = Idle) /\ dsets = {}
      /\ Nic # {} => Ncp \in queue
  BY <1>1, Zenon DEF Init, Thread
<1>3. Idle.pc = "idle" /\ (\A n \in Node : Idle.todo[n] = "done") /\ ~Idle.logged
  BY IdleType, Zenon DEF Idle
<1>4. HostInv
  BY <1>2, <1>3, Zenon DEF HostInv, Hold
<1>5. DsInv /\ NcpInv /\ NnpInv
  BY <1>2, <1>3, Zenon DEF DsInv, NcpInv, NnpInv
<1>6. \A n \in Node : FreeInv(n)
  <2>1. SUFFICES ASSUME NEW n \in Node, Ncp \notin queue PROVE FreeInv(n)
    BY Zenon DEF FreeInv
  <2>2. Opened(n)
    BY <1>2, <2>1, Zenon DEF Opened, Right
  <2>3. QED
    BY <1>2, <1>3, <2>2, Zenon DEF FreeInv
<1>7. Types /\ RestInv
  BY <1>1, GateInit, Zenon DEF GateInv
<1>8. QED
  BY <1>4, <1>5, <1>6, <1>7, Zenon DEF BareInv, SideInv

LEMMA BareKept == BareInv /\ [Next]_vars => BareInv'
<1>1. SUFFICES ASSUME BareInv, [Next]_vars PROVE BareInv'
  BY Zenon
<1>2. Types /\ RestInv /\ SideInv /\ Types'
  BY <1>1, TypeKept, Zenon DEF BareInv
<1>3. CASE UNCHANGED vars
  <2>1. RestInv'
    BY <1>2, <1>3, Zenon DEF vars, RestInv, KeyInv, PodInv, ModeInv, ClusterInv, ClusterOnly, Hosts, Covers
  <2>2. HostInv' /\ DsInv'
    BY <1>2, <1>3, SetupKept, Zenon DEF vars, SideInv, HostInv, DsInv
  <2>3. NcpInv' /\ NnpInv'
    BY <1>2, <1>3, SetupKept, Zenon DEF vars, SideInv, NcpInv, NnpInv, OfedNodes
  <2>4. ASSUME NEW n \in Node, FreeInv(n)
        PROVE  FreeInv(n)'
    <3>1. UNCHANGED <<setup, policy, queue, work, label, pod>>
      BY <1>3, Zenon DEF vars
    <3>2. Opened(n) => Opened(n)'
      <4>1. Opened(n) => pod'[n] = NoPod
        BY <3>1, Zenon DEF Opened
      <4>2. QED
        BY <3>1, <4>1, OpenedKept, Zenon
    <3>3. QED
      BY <2>4, <3>1, <3>2, FreeFrame, Zenon
  <2>5. Tame' <=> Tame
    BY <1>3, SetupKept, Zenon DEF vars
  <2>6. QED
    BY <1>1, <1>2, <2>1, <2>2, <2>3, <2>4, <2>5, Zenon DEF BareInv, SideInv
<1>4. ASSUME NEW t \in Thread, WorkerStep(t)
      PROVE  BareInv'
  <2>1. RestInv' /\ SideInv' /\ UNCHANGED setup
    BY <1>2, <1>4, RestWorker, SideWorker, WorkerSetup, Zenon
  <2>2. ASSUME Tame, NEW n \in Node
        PROVE  FreeInv(n)'
    <3>1. FreeInv(n)
      BY <1>1, <2>2, Zenon DEF BareInv
    <3>2. t \in {"ncp", "nnp"}
      BY Zenon DEF Thread
    <3>3. QED
      BY <1>2, <1>4, <2>2, <3>1, <3>2, FreeNcp, FreeNnp, Zenon
  <2>3. QED
    BY <1>2, <2>1, <2>2, SetupKept, Zenon DEF BareInv
<1>5. CASE Cluster \/ operatorRestarts \/ \E n \in Node : statusReported(n)
  <2>1. RestInv' /\ SideInv'
    BY <1>2, <1>5, RestCluster, SideCluster, Zenon
  <2>2. UNCHANGED setup
    BY <1>5, Zenon DEF Cluster, operatorRestarts, statusReported, PolicyChanges, podStarts, podGone, podReadiness, nodeReadiness, otherEvent
  <2>3. ASSUME Tame, NEW n \in Node
        PROVE  FreeInv(n)'
    <3>1. FreeInv(n)
      BY <1>1, <2>3, Zenon DEF BareInv
    <3>2. QED
      BY <1>2, <1>5, <2>3, <3>1, FreeCluster, Zenon
  <2>4. QED
    BY <1>2, <2>1, <2>2, <2>3, SetupKept, Zenon DEF BareInv
<1>6. QED
  BY <1>1, <1>3, <1>4, <1>5, NextSplit, Zenon

\* Where the driver is configured in the cluster policy, or NicNodePolicies are
\* created and deleted and nothing fails, a node that no policy wants a driver
\* on does not wait for one when neither controller has anything left to do:
\* a stale patch is followed by a pass that clears it
\* (clearOrphanedMOFEDWaitLabels, handleWaitLabelsNoConfig).
THEOREM FreeNodesOpen == Spec => []CreatedAndDeletedFreeNodeOpen
<1>1. BareInv => CreatedAndDeletedFreeNodeOpen
  <2>1. SUFFICES ASSUME BareInv, Tame, Quiet, NEW n \in Nic, Free(n)
                 PROVE  label[n] = "false"
    BY Zenon DEF CreatedAndDeletedFreeNodeOpen, QuietFreeNodeOpen, Tame
  <2>2. ~Covered(n)
    BY <2>1, MofedAssumption, Zenon DEF Free, Covered, OfedNodes, Covers, Owner
  <2>3. Opened(n)
    BY <2>1, <2>2, MofedAssumption, Zenon DEF BareInv, FreeInv, Quiet, Thread
  <2>4. ~Clears(n)
    BY <2>1, Zenon DEF Clears, Quiet, Thread
  <2>5. QED
    BY <2>3, <2>4, Zenon DEF Opened, Right
<1>2. QED
  BY <1>1, BareInit, BareKept, PTL DEF Spec

\* Every reachable state is well typed, and whatever the set-up and whatever
\* fails, a node without a NIC never carries the label
\* (processOFEDPodsForWaitLabels sees pods, which run on NICs only;
\* clearOrphanedMOFEDWaitLabels sees nodes that wait; handleWaitLabelsNoConfig
\* asks for the NIC).
THEOREM TypeCorrect == Spec => []TypeOK
<1>1. BareInv => TypeOK
  BY Zenon DEF BareInv, SideInv, HostInv, TypeOK
<1>2. QED
  BY <1>1, BareInit, BareKept, PTL DEF Spec
=============================================================================
