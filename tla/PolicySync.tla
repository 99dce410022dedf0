----------------------------- MODULE PolicySync -----------------------------
(***************************************************************************)
(* How the NicClusterPolicy and the NicNodePolicy controllers bring the     *)
(* objects of a policy in line with its spec and report on them             *)
(* (controllers/nicclusterpolicy_controller.go, nicnodepolicy_controller.go,*)
(* nic_policy_helpers.go, conditions.go; pkg/state/manager.go,              *)
(* state_skel.go and the states described in Components).                   *)
(*                                                                          *)
(* A pass works from a cached copy of the policy and from live objects, and *)
(* goes object by object; users, the DaemonSet controller, the garbage      *)
(* collector and the pass of the other controller act in between.           *)
(*                                                                          *)
(* The specs submitted for a policy are numbered; the number stands for the *)
(* uid and the generation.  An object carries the number it was rendered    *)
(* for: every spec is assumed to render every object differently, so equal  *)
(* numbers are equal revision hashes.                                       *)
(***************************************************************************)
EXTENDS Integers, Sequences, Functions, Components

CONSTANTS
  Ncp,          \* the NicClusterPolicy
  NodePolicy,   \* names of NicNodePolicies
  Setups        \* the components that users configure in each policy (of), the
                \* modes they use, how often they submit or delete a spec
                \* (edits), and how many calls fail, restarts happen or objects
                \* are deleted by hand (faults)

Policy == NodePolicy \cup {Ncp}

States(p) == IF p = Ncp THEN newNicClusterPolicyStates ELSE newNicNodePolicyStates

ASSUME SyncAssumption ==
  /\ Ncp \notin NodePolicy
  /\ \A s \in Setups : /\ DOMAIN s.of = Policy
                       /\ \A p \in Policy : s.of[p] \in Seq(DOMAIN States(p))
                       /\ s.modes \subseteq {"off", "plain", "full", "invalid"}
                       /\ s.edits \in Nat /\ s.faults \in Nat

VARIABLES
  setup,    \* the set-up of this behaviour
  spec,     \* the specs submitted for each policy, in order
  status,   \* the status of each policy, as stored
  cache,    \* the policies as the informers show them: spec number and status
  obj,      \* the objects
  crd,      \* the CRD of the maintenance operator is installed
  queue,    \* policies queued, or to be queued after a delay
  work,     \* the pass of each controller
  acting,   \* history: the spec number of the last pass over a policy
  taken,    \* history: objects others deleted since that pass began
  unsaid,   \* policies whose last report was lost for another reason than a conflict
  edits, faults

vars == <<setup, spec, status, cache, obj, crd, queue, work, acting, taken, unsaid, edits, faults>>

users == <<setup, spec, crd, edits>>

history == <<acting, taken>>

Thread == {"ncp", "nnp"}

Worker(p) == IF p = Ncp THEN "ncp" ELSE "nnp"

(***************************************************************************)
(* Specs and what they render.                                              *)
(***************************************************************************)

\* A section of a spec is absent, sets what renders the optional kinds or
\* does not, or lacks a required field of the image.
NoPolicy == <<>>

Specs(p) ==
  {s \in [Range(setup.of[p]) -> setup.modes] :
     \A c \in DOMAIN s : s[c] = "full" => States(p)[c].plain # States(p)[c].kinds}

GetManifestObjects(p, c, mode) == IF mode = "full" THEN States(p)[c].kinds ELSE States(p)[c].plain

\* Names end in a suffix made from the policy's: each policy has its own.
Objects(p) == UNION {{c} \X Range(States(p)[c].kinds) : c \in Range(setup.of[p])}

Wanted(p, s) ==
  UNION {{c} \X Range(GetManifestObjects(p, c, s[c])) : c \in {d \in DOMAIN s : s[d] \in {"plain", "full"}}}

Gone == [gen |-> 0, seen |-> 0, full |-> FALSE]

NoStatus == [gen |-> 0, state |-> "", conditions |-> <<>>, ready |-> FALSE]

Exists(p) == spec[p] # <<>> /\ spec[p][Len(spec[p])] # NoPolicy

\* The specs of the policy object that exists now: those since its creation.
Current(p) == {g \in 1 .. Len(spec[p]) : \A h \in g .. Len(spec[p]) : spec[p][h] # NoPolicy}

(***************************************************************************)
(* One pass.                                                                *)
(***************************************************************************)

Idle == [pc |-> "idle", key |-> Ncp, gen |-> 0, status |-> NoStatus,
         at |-> 0, todo |-> <<>>, found |-> FALSE, results |-> <<>>]

\* What the pass w is working on.
Comp(w) == setup.of[w.key][w.at]
ModeOf(w) == spec[w.key][w.gen][Comp(w)]

\* The policy is read from the cache.
Reconcile(p) ==
  LET t == Worker(p)
      s == IF cache[p].gen = 0 THEN NoPolicy ELSE spec[p][cache[p].gen]
  IN  /\ work[t].pc = "idle" /\ p \in queue
      /\ queue' = queue \ {p}
      /\ IF s = NoPolicy THEN UNCHANGED <<work, history>>
         ELSE /\ work' = [work EXCEPT ![t] = [Idle EXCEPT !.pc = "sync", !.key = p, !.at = 1,
                            !.gen = cache[p].gen, !.status = cache[p].status]]
              /\ acting' = [acting EXCEPT ![p] = cache[p].gen]
              /\ taken' = [taken EXCEPT ![p] = {}]
      /\ UNCHANGED <<users, status, cache, obj, unsaid, faults>>

ResultEndsPass(t, r) ==
  work' = [work EXCEPT ![t].results = Append(@, r), ![t].at = @ + 1, ![t].found = FALSE, ![t].todo = <<>>,
                       ![t].pc = IF r = "notReady" \/ work[t].at = Len(setup.of[work[t].key])
                                 THEN "status" ELSE "sync"]

\* A state's Sync is over; SyncState goes on with the next one.
Result(t, r) ==
  work' = [work EXCEPT ![t].results = Append(@, r), ![t].at = @ + 1, ![t].found = FALSE, ![t].todo = <<>>,
                       ![t].pc = IF work[t].at = Len(setup.of[work[t].key]) THEN "status" ELSE "sync"]

\* Sync up to the point where objects are touched.
Sync(t) ==
  LET w == work[t]
      c == States(w.key)[Comp(w)]
  IN  /\ w.pc = "sync"
      /\ CASE ModeOf(w) = "off" -> work' = [work EXCEPT ![t].pc = "sweep"]
           [] ModeOf(w) = "invalid" \/ (ModeOf(w) # "off" /\ c.needsCRD /\ ~crd) -> Result(t, "notReady")
           [] OTHER -> work' = [work EXCEPT ![t].pc = "apply",
                                            ![t].todo = GetManifestObjects(w.key, Comp(w), ModeOf(w))]
      /\ UNCHANGED <<users, status, cache, obj, queue, history, unsaid, faults>>

\* An event of a watched object enqueues its owner.
Notify(p, k) == IF k \in GetWatchSources(States(p)) THEN queue \cup {p} ELSE queue

\* What an update replaces of an object, and what it keeps: a DaemonSet its
\* status, a ServiceAccount the secrets others added to it.
mergeObjects(current, gen) == [current EXCEPT !.gen = gen]

\* One object is created, found to be in sync, or replaced.
createOrUpdateObjs(t) ==
  LET w == work[t]
      o == <<Comp(w), Head(w.todo)>>
  IN  /\ w.pc = "apply" /\ w.todo # <<>>
      /\ obj' = [obj EXCEPT ![w.key][o] = mergeObjects(@, w.gen)]
      /\ queue' = IF obj' = obj THEN queue ELSE Notify(w.key, o[2])
      /\ work' = [work EXCEPT ![t].todo = Tail(@), ![t].pc = IF Len(w.todo) = 1 THEN "sweep" ELSE "apply"]
      /\ UNCHANGED <<users, status, cache, history, unsaid, faults>>

\* stateLabels: the objects of this component and, where policies share it,
\* of this policy.
MatchingAnyOwner(w) ==
  {q \in Policy : \E o \in Objects(q) : o[1] = Comp(w)}

Matching(w) == IF States(w.key)[Comp(w)].shared THEN {w.key} ELSE {Ncp}

\* Those that the spec does not render, first kind first.
Stale(w) ==
  {x \in Matching(w) \X Range(GetSupportedGVKs) :
     LET o == <<Comp(w), x[2]>>
     IN  /\ o \in Objects(x[1]) /\ obj[x[1]][o].gen # 0
         /\ ~(x[1] = w.key /\ o \in Wanted(w.key, spec[w.key][w.gen]))}

First(S) ==
  {x \in S : \A y \in S : \E i, j \in DOMAIN GetSupportedGVKs :
     GetSupportedGVKs[i] = x[2] /\ GetSupportedGVKs[j] = y[2] /\ i <= j}

deleteStateRelatedObjects(t) ==
  LET w == work[t]
  IN  /\ w.pc = "sweep"
      /\ \E x \in First(Stale(w)) :
           /\ obj' = [obj EXCEPT ![x[1]][<<Comp(w), x[2]>>] = Gone]
           /\ queue' = Notify(x[1], x[2])
      /\ work' = [work EXCEPT ![t].found = TRUE]
      /\ UNCHANGED <<users, status, cache, history, unsaid, faults>>

sweepDone(t) ==
  LET w == work[t]
  IN  /\ w.pc = "sweep" /\ Stale(w) = {}
      /\ IF w.found THEN Result(t, "notReady")
         ELSE IF ModeOf(w) = "off" THEN Result(t, "ignore")
         ELSE work' = [work EXCEPT ![t].pc = "check", ![t].todo = GetManifestObjects(w.key, Comp(w), ModeOf(w))]
      /\ UNCHANGED <<users, status, cache, obj, queue, history, unsaid, faults>>

\* A DaemonSet is ready when its status says so, whichever generation of the
\* DaemonSet that status is about; no other kind is asked.
isDaemonSetReady(o) == o.full

\* The objects are read one by one, up to the first that is not ready.
getSyncState(t) ==
  LET w == work[t]
      o == <<Comp(w), Head(w.todo)>>
      up == /\ obj[w.key][o].gen # 0
            /\ o[2] = "DaemonSet" => isDaemonSetReady(obj[w.key][o])
  IN  /\ w.pc = "check" /\ w.todo # <<>>
      /\ IF up /\ Len(w.todo) > 1 THEN work' = [work EXCEPT ![t].todo = Tail(@)]
         ELSE Result(t, IF up THEN "ready" ELSE "notReady")
      /\ UNCHANGED <<users, status, cache, obj, queue, history, unsaid, faults>>

\* SyncState: all states are done whatever the results of the earlier ones.
SyncState(results) ==
  IF Range(results) \cap {"notReady", "error"} = {} THEN "ready" ELSE "notReady"

\* computePolicyConditions: a component that is not configured has none.
Condition(r) == IF r = "ready" THEN "True" ELSE IF r = "ignore" THEN "" ELSE "False"

ReadyCondition(conditions) == "False" \notin Range(conditions)

computePolicyConditions(results) == [i \in DOMAIN results |-> Condition(results[i])]

Report(w) ==
  LET conditions == computePolicyConditions(w.results)
  IN  [gen |-> w.gen, state |-> SyncState(w.results), conditions |-> conditions,
       ready |-> ReadyCondition(conditions)]

\* The end of a pass: what is not ready is looked at again.
RequeueNever(w) == queue

Requeue(w) == IF SyncState(w.results) = "ready" THEN queue ELSE queue \cup {w.key}

\* The update carries the resource version of the copy.  If the policy has
\* changed since, it is refused and only logged.
UpToDate(w) == w.gen = Len(spec[w.key]) /\ w.status = status[w.key]

updatePolicyCRStatus(t) ==
  LET w == work[t]
  IN  /\ w.pc = "status"
      /\ status' = IF UpToDate(w) THEN [status EXCEPT ![w.key] = Report(w)] ELSE status
      /\ unsaid' = IF UpToDate(w) THEN unsaid \ {w.key} ELSE unsaid
      /\ queue' = Requeue(w)
      /\ work' = [work EXCEPT ![t] = Idle]
      /\ UNCHANGED <<users, cache, obj, history, faults>>

(***************************************************************************)
(* Faults.                                                                  *)
(***************************************************************************)

Fault == faults < setup.faults /\ faults' = faults + 1

\* A call for an object fails: so does this state, and the next one follows.
callFails(t) ==
  LET w == work[t]
  IN  /\ Fault
      /\ w.pc \in {"apply", "sweep", "check"}
      /\ Result(t, IF w.pc = "sweep" /\ ModeOf(w) = "off" THEN "error" ELSE "notReady")
      /\ UNCHANGED <<users, status, cache, obj, queue, history, unsaid>>

statusUpdateFails(t) ==
  /\ Fault
  /\ work[t].pc = "status"
  /\ unsaid' = unsaid \cup {work[t].key}
  /\ queue' = Requeue(work[t])
  /\ work' = [work EXCEPT ![t] = Idle]
  /\ UNCHANGED <<users, status, cache, obj, history>>

\* The next leader lists the policies; its cache is not behind the old one's.
operatorRestarts ==
  /\ Fault
  /\ work' = [t \in Thread |-> Idle]
  /\ cache' = [p \in Policy |-> [gen |-> Len(spec[p]), status |-> status[p]]]
  /\ queue' = {p \in Policy : Exists(p)}
  /\ UNCHANGED <<users, status, obj, history, unsaid>>

Vanishes(p, o) ==
  /\ obj' = [obj EXCEPT ![p][o] = Gone]
  /\ taken' = [taken EXCEPT ![p] = @ \cup {o}]
  /\ queue' = Notify(p, o[2])

deletedByHand(p, o) ==
  /\ Fault
  /\ obj[p][o].gen # 0
  /\ Vanishes(p, o)
  /\ UNCHANGED <<users, status, cache, work, acting, unsaid>>

(***************************************************************************)
(* The cluster.                                                             *)
(***************************************************************************)

Submit(p, s) ==
  /\ edits < setup.edits /\ setup.of[p] # <<>>
  /\ edits' = edits + 1
  /\ spec' = [spec EXCEPT ![p] = Append(@, s)]
  /\ status' = [status EXCEPT ![p] = IF s = NoPolicy THEN NoStatus ELSE @]
  /\ UNCHANGED <<setup, crd, cache, obj, queue, work, history, unsaid, faults>>

userSubmits(p, s) == s # NoPolicy /\ Submit(p, s)

userDeletes(p) == Exists(p) /\ Submit(p, NoPolicy)

\* The watch of the policies: any change is an event, a status update too.
observe(p) ==
  LET now == [gen |-> Len(spec[p]), status |-> status[p]]
  IN  /\ cache[p] # now
      /\ cache' = [cache EXCEPT ![p] = now]
      /\ queue' = queue \cup {p}
      /\ UNCHANGED <<users, status, obj, work, history, unsaid, faults>>

\* An object whose owner is gone is collected, also if the owner has a
\* namesake by now.
garbageCollected(p, o) ==
  /\ obj[p][o].gen # 0 /\ obj[p][o].gen \notin Current(p)
  /\ Vanishes(p, o)
  /\ UNCHANGED <<users, status, cache, work, acting, unsaid, faults>>

\* The DaemonSet controller takes note of a new template; all pods may count
\* as updated at once if the template itself is the same.
daemonSetObserved(p, o) ==
  /\ o[2] = "DaemonSet" /\ obj[p][o].seen # obj[p][o].gen
  /\ \E full \in {FALSE, obj[p][o].full} :
       obj' = [obj EXCEPT ![p][o].seen = obj[p][o].gen, ![p][o].full = full]
  /\ queue' = Notify(p, o[2])
  /\ UNCHANGED <<users, status, cache, work, history, unsaid, faults>>

podsChange(p, o) ==
  /\ o[2] = "DaemonSet" /\ obj[p][o].gen # 0 /\ obj[p][o].seen = obj[p][o].gen
  /\ obj' = [obj EXCEPT ![p][o].full = ~@]
  /\ queue' = Notify(p, o[2])
  /\ UNCHANGED <<users, status, cache, work, history, unsaid, faults>>

crdInstalled ==
  /\ ~crd
  /\ crd' = TRUE
  /\ UNCHANGED <<setup, spec, edits, status, cache, obj, queue, work, history, unsaid, faults>>

Init ==
  /\ setup \in Setups
  /\ spec = [p \in Policy |-> <<>>]
  /\ status = [p \in Policy |-> NoStatus]
  /\ cache = [p \in Policy |-> [gen |-> 0, status |-> NoStatus]]
  /\ obj = [p \in Policy |-> [o \in Objects(p) |-> Gone]]
  /\ crd \in {TRUE} \cup {FALSE : c \in {d \in Range(setup.of[Ncp]) : States(Ncp)[d].needsCRD}}
  /\ queue = {}
  /\ work = [t \in Thread |-> Idle]
  /\ acting = [p \in Policy |-> 0] /\ taken = [p \in Policy |-> {}]
  /\ unsaid = {}
  /\ edits = 0 /\ faults = 0

Step(t) ==
  \/ Sync(t) \/ createOrUpdateObjs(t) \/ deleteStateRelatedObjects(t) \/ sweepDone(t)
  \/ getSyncState(t) \/ updatePolicyCRStatus(t)

Next ==
  \/ \E p \in Policy : Reconcile(p) \/ observe(p) \/ userDeletes(p) \/ \E s \in Specs(p) : userSubmits(p, s)
  \/ \E t \in Thread : Step(t) \/ callFails(t) \/ statusUpdateFails(t)
  \/ \E p \in Policy : \E o \in Objects(p) :
       \/ daemonSetObserved(p, o) \/ podsChange(p, o)
       \/ garbageCollected(p, o) \/ deletedByHand(p, o)
  \/ operatorRestarts
  \/ crdInstalled

Spec == Init /\ [][Next]_vars

\* The workers go on, no policy starves in the queue and caches catch up.
Fairness ==
  /\ \A t \in Thread : WF_vars(Step(t))
  /\ \A p \in Policy : SF_vars(Reconcile(p)) /\ WF_vars(observe(p))

FairSpec == Spec /\ Fairness

-----------------------------------------------------------------------------
(***************************************************************************)
(* Properties.                                                              *)
(***************************************************************************)

StatusType ==
  [gen : Nat, state : {"", "ready", "notReady"}, conditions : Seq({"", "True", "False"}), ready : BOOLEAN]

ObjectType == [gen : Nat, seen : Nat, full : BOOLEAN]

WorkType ==
  [pc : {"idle", "sync", "apply", "sweep", "check", "status"}, key : Policy, gen : Nat, status : StatusType,
   at : Nat, todo : Seq(Range(GetSupportedGVKs)), found : BOOLEAN,
   results : Seq({"ready", "notReady", "ignore", "error"})]

\* Type correctness of what belongs to a policy; in particular a report covers
\* all components or none, and no cache, pass or object is ahead of the specs.
PolicyOK(p) ==
  /\ spec[p] \in Seq(Specs(p) \cup {NoPolicy})
  /\ \A s \in {status[p], cache[p].status} :
       s \in StatusType /\ s.gen <= Len(spec[p]) /\ Len(s.conditions) \in {0, Len(setup.of[p])}
  /\ cache[p].gen \in 0 .. Len(spec[p]) /\ acting[p] \in 0 .. cache[p].gen
  /\ obj[p] \in [Objects(p) -> ObjectType]
  /\ \A o \in Objects(p) : obj[p][o].gen <= acting[p] /\ obj[p][o].seen <= acting[p]
  /\ taken[p] \subseteq Objects(p)

\* Each controller works on its own policies, and has a result for each
\* component that it is through with.
WorkOK(t) ==
  LET w == work[t]
      n == Len(setup.of[w.key])
  IN  /\ w \in WorkType
      /\ w.pc # "idle" =>
           /\ Worker(w.key) = t /\ w.gen = acting[w.key] /\ w.gen # 0 /\ spec[w.key][w.gen] \in Specs(w.key) \ {NoPolicy}
           /\ Len(w.results) + 1 = w.at /\ w.at \in 1 .. n + 1
           /\ w.pc = "status" <=> w.at = n + 1

TypeOK ==
  /\ setup \in Setups /\ crd \in BOOLEAN
  /\ edits \in 0 .. setup.edits /\ faults \in 0 .. setup.faults
  /\ DOMAIN spec = Policy /\ DOMAIN status = Policy /\ DOMAIN cache = Policy
  /\ DOMAIN obj = Policy /\ DOMAIN acting = Policy /\ DOMAIN taken = Policy
  /\ \A p \in Policy : PolicyOK(p)
  /\ queue \subseteq Policy /\ unsaid \subseteq Policy
  /\ DOMAIN work = Thread /\ \A t \in Thread : WorkOK(t)

\* Nothing is under way or pending that would bring p to a pass.
Quiet(p) ==
  /\ p \notin queue /\ work[Worker(p)].pc = "idle"
  /\ cache[p] = [gen |-> Len(spec[p]), status |-> status[p]]
  /\ \A o \in Objects(p) : o[2] = "DaemonSet" => obj[p][o].seen = obj[p][o].gen

Latest(p) == spec[p][Len(spec[p])]

InPlace(p) ==
  \A o \in Objects(p) :
    IF o \notin Wanted(p, Latest(p)) THEN obj[p][o].gen = 0
    ELSE /\ \/ obj[p][o].gen = Len(spec[p])
            \/ obj[p][o].gen = 0 /\ o[2] \notin GetWatchSources(States(p))
         /\ o[2] = "DaemonSet" => obj[p][o].full

SaysReady(p) ==
  /\ status[p].gen = Len(spec[p])
  /\ status[p].state = "ready" /\ status[p].ready
  /\ \A i \in DOMAIN setup.of[p] :
       status[p].conditions[i] = IF Latest(p)[setup.of[p][i]] = "off" THEN "" ELSE "True"

\* When a controller has nothing left to do for a policy, its objects are
\* those of the latest spec, with all DaemonSets up, and its status says so.
\* (A deleted object of an unwatched kind is not noticed, and a report that
\* could not be written after a ready pass is not repeated.)
QuietStatusTruthful ==
  \A p \in Policy : Exists(p) /\ Quiet(p) => InPlace(p) /\ (p \notin unsaid => SaysReady(p))

Deployable(p) ==
  /\ Exists(p)
  /\ \A c \in Range(setup.of[p]) : Latest(p)[c] # "invalid" /\ (States(p)[c].needsCRD => crd)

DaemonSetsUp(p) ==
  \A o \in Objects(p) : o[2] = "DaemonSet" /\ obj[p][o].gen # 0 =>
    obj[p][o].seen = obj[p][o].gen /\ obj[p][o].full

\* A valid policy whose DaemonSets stay up ends up deployed and reported
\* ready for good, whatever was edited, deleted, refused or lost on the way.
SettlesReady ==
  \A p \in Policy :
    <>[](Deployable(p) /\ DaemonSetsUp(p) /\ p \notin unsaid) => <>[](Exists(p) /\ InPlace(p) /\ SaysReady(p))

=============================================================================
