-------------------------------- MODULE Drain --------------------------------
(***************************************************************************)
(* The drain controller for one node (controllers/drain_controller.go,      *)
(* pkg/drain/drain_requestor.go).  The SR-IOV daemon asks for a drain in an *)
(* annotation of the node and reads the answer in one of its node state.    *)
(* The controller has the maintenance operator do the draining, through a   *)
(* NodeMaintenance object that several requestors may share.                *)
(*                                                                          *)
(* Events of the node and of its node state carry different namespaces, so  *)
(* the work queue holds two keys for one node, and two passes over the same *)
(* node may run at once.  The reads and writes of a pass are separate steps *)
(* between which the other pass, the daemon, the maintenance operator and   *)
(* the other requestors act.  The controller's client reads from the API    *)
(* server, not from a cache.                                                *)
(***************************************************************************)
EXTENDS Integers, FiniteSets

CONSTANTS
  Us,             \* the RequestorID of this controller
  Others,         \* other requestors of maintenance on the node
  Setups,         \* the set-ups considered, see config
  Cancels,        \* the daemon may take a request back
  Turnaround,     \* when the daemon acts on an answer, see Settled
  MaxAsks,        \* how often other requestors ask
  MaxFaults       \* API errors, orchestrator delays and restarts

ASSUME DrainAssumption ==
  /\ Us \notin Others
  /\ Setups \subseteq [defaultPrefix : BOOLEAN, singleNode : BOOLEAN]
  /\ Cancels \in BOOLEAN
  /\ Turnaround \in {"any", "afterPasses", "afterRemoval"}
  /\ MaxAsks \in Nat /\ MaxFaults \in Nat

\* The two keys of the node in the work queue.
Key == {"node", "state"}

Requestor == Others \cup {Us}

\* No NodeMaintenance object.
NoNM == [exists |-> FALSE, owner |-> Us, additional |-> {}, ready |-> FALSE, deleting |-> FALSE]

VARIABLES
  config,    \* is the object name the shared one, is this the only node
  external,  \* the node state carries use-external-drainer
  request,   \* NodeDrainAnnotation of the node
  current,   \* NodeStateDrainAnnotationCurrent of the node state
  nm,        \* the NodeMaintenance object
  drained,   \* the node is cordoned and drained
  fresh,     \* the keys whose copy of nm has its resource version
  queued,    \* [Key -> BOOLEAN]: in the work queue, or to be added after a delay
  pc,        \* [Key -> PC]: what the pass over the key does next
  asked,     \* [Key -> request]: request as the pass read it
  got,       \* [Key -> object]: nm as the pass read it
  asks, faults

vars == <<config, external, request, current, nm, drained, fresh, queued, pc, asked, got, asks, faults>>

annotations == <<external, request, current, config>>
maintenance == <<nm, drained, fresh>>
copies == <<asked, got>>

\* A write that changes the object gives it a new resource version.
Write(o) == nm' = o /\ fresh' = IF o = nm THEN fresh ELSE {}

PC == {"idle", "read", "drain", "undrain", "request", "release", "complete", "restore"}

Holders(o) == IF o.exists THEN {o.owner} \cup o.additional ELSE {}

Wake(keys) == queued' = [k \in Key |-> queued[k] \/ k \in keys]

\* The pass goes on with step, or ends and is to be repeated.
GotoOnce(k, step) ==
  /\ pc' = [pc EXCEPT ![k] = step]
  /\ UNCHANGED queued

Goto(k, step) ==
  /\ pc' = [pc EXCEPT ![k] = step]
  /\ Wake(IF step = "idle" THEN {k} ELSE {})

(***************************************************************************)
(* Reconcile.                                                               *)
(***************************************************************************)

Starts(k) == pc[k] = "idle" /\ queued[k]

\* The node is read first, its node state in another step.
Reconcile(k) ==
  /\ Starts(k)
  /\ asked' = [asked EXCEPT ![k] = request]
  /\ queued' = [queued EXCEPT ![k] = FALSE]
  /\ pc' = [pc EXCEPT ![k] = "read"]
  /\ UNCHANGED <<annotations, maintenance, got, asks, faults>>

notExternal(k) ==
  /\ pc[k] = "read" /\ ~external
  /\ pc' = [pc EXCEPT ![k] = "idle"]
  /\ UNCHANGED <<annotations, maintenance, queued, copies, asks, faults>>

\* Annotations that were missing when read are set, whatever they are now, and
\* the pass is repeated.  NodeStateDrainAnnotation is set in the same way; it
\* is left out, for no pass looks at its value.
ensureAnnotationExists(k) ==
  /\ pc[k] = "read" /\ external
  /\ asked[k] = "" \/ current = ""
  /\ request' = IF asked[k] = "" THEN "Idle" ELSE request
  /\ current' = IF current = "" THEN "Idle" ELSE current
  /\ pc' = [pc EXCEPT ![k] = "idle"]
  /\ Wake({k} \cup {e \in Key : IF e = "node" THEN request' # request ELSE current' # current})
  /\ UNCHANGED <<config, external, maintenance, copies, asks, faults>>

\* Where a pass goes, from the two annotations.  No code writes Draining, and
\* the daemon writes none of the values that would be an error.
NextStepDrainOnly(r) ==
  CASE r = "Idle" /\ current \in {"Complete", "Draining"} -> "undrain"
    [] r = "Drain" /\ current # "Complete" -> "drain"
    [] OTHER -> "idle"

NextStep(r) ==
  CASE r = "Idle" /\ current = "Idle" -> "idle"
    [] r = "Idle" /\ current \in {"Complete", "Draining"} -> "undrain"
    [] r # "Idle" /\ current = "Complete" -> "idle"
    [] r # "Idle" /\ current # "Complete" ->
         IF r = "Reboot" /\ config.singleNode THEN "complete" ELSE "drain"

choose(k) ==
  /\ pc[k] = "read" /\ external
  /\ asked[k] # "" /\ current # ""
  /\ pc' = [pc EXCEPT ![k] = NextStep(asked[k])]
  /\ UNCHANGED <<annotations, maintenance, queued, copies, asks, faults>>

checkForExistingNodeMaintenance(k) ==
  /\ pc[k] \in {"drain", "undrain"}
  /\ got' = [got EXCEPT ![k] = nm]
  /\ fresh' = fresh \cup {k}
  /\ pc' = [pc EXCEPT ![k] = IF @ = "drain" THEN "request" ELSE "release"]
  /\ UNCHANGED <<annotations, nm, drained, queued, asked, asks, faults>>

\* DrainNode: the condition of the object it was given.  What is not drained
\* yet is looked at again later.
AnswerAlways(o) == "complete"

Answer(o) == IF o.ready THEN "complete" ELSE "idle"

\* AlreadyExists counts as success, with an object that has no status.
createNodeMaintenance(k) ==
  /\ pc[k] = "request" /\ ~got[k].exists
  /\ Write(IF nm.exists THEN nm ELSE [NoNM EXCEPT !.exists = TRUE])
  /\ Goto(k, Answer(NoNM))
  /\ UNCHANGED <<annotations, drained, copies, asks, faults>>

\* An object of our own, or shared with us already, is taken as it is; so is
\* any object if its name is not the shared one.
reuseNodeMaintenance(k) ==
  /\ pc[k] = "request" /\ got[k].exists
  /\ Us \in Holders(got[k]) \/ ~config.defaultPrefix
  /\ Goto(k, Answer(got[k]))
  /\ UNCHANGED <<annotations, maintenance, copies, asks, faults>>

\* A patch with the optimistic lock works on the object that was read, or
\* fails and the pass is retried.  It returns the object.
LockedAnyway(k) == nm.exists

Locked(k) == k \in fresh

joinNodeMaintenance(k) ==
  /\ pc[k] = "request" /\ got[k].exists
  /\ Us \notin Holders(got[k]) /\ config.defaultPrefix
  /\ Write(IF Locked(k) THEN [nm EXCEPT !.additional = got[k].additional \cup {Us}] ELSE nm)
  /\ Goto(k, IF Locked(k) THEN Answer(nm) ELSE "idle")
  /\ UNCHANGED <<annotations, drained, copies, asks, faults>>

\* The answer to the daemon; writing it is an event of the node state.
handleNodeDrainOrReboot(k) ==
  /\ pc[k] = "complete"
  /\ current' = "Complete"
  /\ pc' = [pc EXCEPT ![k] = "idle"]
  /\ Wake(IF current = "Complete" THEN {} ELSE {"state"})
  /\ UNCHANGED <<config, external, request, maintenance, copies, asks, faults>>

\* No object is left, or it is ours.  Delete takes the name of the object, and
\* is not called for one that is being deleted; its return counts as done.
deleteNodeMaintenance(k) ==
  /\ pc[k] = "release"
  /\ ~got[k].exists \/ got[k].owner = Us
  /\ IF got[k].exists /\ ~got[k].deleting
     THEN /\ Write(IF nm.exists THEN [nm EXCEPT !.deleting = TRUE] ELSE nm)
          /\ Goto(k, IF nm.exists THEN "restore" ELSE "idle")
     ELSE Write(nm) /\ Goto(k, "restore")
  /\ UNCHANGED <<annotations, drained, copies, asks, faults>>

\* The object is somebody else's: leave its list, and wait until it is gone.
leaveNothing(k) ==
  /\ pc[k] = "release" /\ got[k].exists /\ got[k].owner # Us
  /\ Goto(k, "restore")
  /\ UNCHANGED <<annotations, maintenance, copies, asks, faults>>

leaveNodeMaintenance(k) ==
  /\ pc[k] = "release" /\ got[k].exists /\ got[k].owner # Us
  /\ Write(IF Us \in got[k].additional /\ Locked(k)
           THEN [nm EXCEPT !.additional = got[k].additional \ {Us}] ELSE nm)
  /\ Goto(k, "idle")
  /\ UNCHANGED <<annotations, drained, copies, asks, faults>>

handleNodeIdle(k) ==
  /\ pc[k] = "restore"
  /\ current' = "Idle"
  /\ pc' = [pc EXCEPT ![k] = "idle"]
  /\ Wake(IF current = "Idle" THEN {} ELSE {"state"})
  /\ UNCHANGED <<config, external, request, maintenance, copies, asks, faults>>

Pass(k) ==
  \/ Reconcile(k) \/ notExternal(k) \/ ensureAnnotationExists(k) \/ choose(k)
  \/ checkForExistingNodeMaintenance(k)
  \/ createNodeMaintenance(k) \/ reuseNodeMaintenance(k) \/ joinNodeMaintenance(k)
  \/ handleNodeDrainOrReboot(k)
  \/ deleteNodeMaintenance(k) \/ leaveNodeMaintenance(k) \/ handleNodeIdle(k)

\* An API call fails, or the orchestrator (the pause of a machine config pool
\* on OpenShift) is not done: the pass ends and is repeated.
retryLater(k) ==
  /\ faults < MaxFaults
  /\ faults' = faults + 1
  /\ pc[k] # "idle"
  /\ Goto(k, "idle")
  /\ UNCHANGED <<annotations, maintenance, copies, asks>>

\* At start every object is an event, except a node without the annotation.
operatorRestarts ==
  /\ faults < MaxFaults
  /\ faults' = faults + 1
  /\ pc' = [k \in Key |-> "idle"]
  /\ queued' = [k \in Key |-> k = "node" => request # ""]
  /\ UNCHANGED <<annotations, maintenance, copies, asks>>

(***************************************************************************)
(* The SR-IOV operator and daemon.                                          *)
(***************************************************************************)

sriovUsesExternalDrainer ==
  /\ ~external
  /\ external' = TRUE
  /\ Wake({"state"})
  /\ UNCHANGED <<config, request, current, maintenance, pc, copies, asks, faults>>

\* "afterPasses": no pass is slower than the daemon's reaction to an answer.
Settled == Turnaround # "any" => \A k \in Key : pc[k] = "idle"

\* "afterRemoval": nor is the removal of what the last drain left behind.
Removed == Turnaround = "afterRemoval" => Us \notin Holders(nm)

daemonAsks(r) ==
  /\ request \in {"", "Idle"} /\ current \in {"", "Idle"}
  /\ Settled /\ Removed
  /\ request' = r
  /\ Wake({"node"})
  /\ UNCHANGED <<config, external, current, maintenance, pc, copies, asks, faults>>

daemonDone ==
  /\ request \in {"Drain", "Reboot"}
  /\ current = "Complete" \/ Cancels
  /\ Settled
  /\ request' = "Idle"
  /\ Wake({"node"})
  /\ UNCHANGED <<config, external, current, maintenance, pc, copies, asks, faults>>

(***************************************************************************)
(* The maintenance operator and the other requestors.  Their events carry   *)
(* the name of the NodeMaintenance object, which is no node's name: no pass *)
(* over the node starts from them.                                          *)
(***************************************************************************)

nodeDrained ==
  /\ nm.exists /\ ~nm.ready
  /\ nm.deleting => nm.additional # {}
  /\ Write([nm EXCEPT !.ready = TRUE])
  /\ drained' = TRUE
  /\ UNCHANGED <<annotations, queued, pc, copies, asks, faults>>

\* An object whose deletion is requested stays until its list is empty.
nodeUncordoned ==
  /\ nm.exists /\ nm.deleting /\ nm.additional = {}
  /\ Write(NoNM)
  /\ drained' = FALSE
  /\ UNCHANGED <<annotations, queued, pc, copies, asks, faults>>

otherAsks(o) ==
  /\ config.defaultPrefix
  /\ o \notin Holders(nm) /\ ~nm.deleting
  /\ asks < MaxAsks
  /\ asks' = asks + 1
  /\ Write(IF nm.exists THEN [nm EXCEPT !.additional = @ \cup {o}]
                        ELSE [NoNM EXCEPT !.exists = TRUE, !.owner = o])
  /\ UNCHANGED <<annotations, drained, queued, pc, copies, faults>>

otherReleases(o) ==
  /\ o \in Holders(nm) /\ ~(nm.owner = o /\ nm.deleting)
  /\ Write(IF nm.owner = o THEN [nm EXCEPT !.deleting = TRUE]
                           ELSE [nm EXCEPT !.additional = @ \ {o}])
  /\ UNCHANGED <<annotations, drained, queued, pc, copies, asks, faults>>

Init ==
  /\ config \in Setups
  /\ external \in BOOLEAN
  /\ request = "" /\ current = ""
  /\ nm = NoNM /\ drained = FALSE /\ fresh = {}
  /\ queued = [k \in Key |-> k = "state"]
  /\ pc = [k \in Key |-> "idle"]
  /\ asked = [k \in Key |-> ""] /\ got = [k \in Key |-> NoNM]
  /\ asks = 0 /\ faults = 0

Next ==
  \/ \E k \in Key : Pass(k) \/ retryLater(k)
  \/ operatorRestarts
  \/ sriovUsesExternalDrainer \/ daemonDone
  \/ \E r \in {"Drain", "Reboot"} : daemonAsks(r)
  \/ nodeDrained \/ nodeUncordoned
  \/ \E o \in Others : otherAsks(o) \/ otherReleases(o)

Spec == Init /\ [][Next]_vars

\* Passes go on, the maintenance operator drains and uncordons, and the other requestors release in the end what they asked for.
Fairness ==
  /\ \A k \in Key : WF_vars(Pass(k))
  /\ SF_vars(nodeDrained) /\ SF_vars(nodeUncordoned)
  /\ \A o \in Others : SF_vars(otherReleases(o))

FairSpec == Spec /\ Fairness

-----------------------------------------------------------------------------
(***************************************************************************)
(* Properties.                                                              *)
(***************************************************************************)

Request == {"", "Idle", "Drain", "Reboot"}

NMType == [exists : BOOLEAN, owner : Requestor, additional : SUBSET Requestor,
           ready : BOOLEAN, deleting : BOOLEAN]

\* Type correctness.  An owner is never on the list of its own object as well.
TypeOK ==
  /\ config \in Setups
  /\ external \in BOOLEAN /\ drained \in BOOLEAN
  /\ queued \in [Key -> BOOLEAN]
  /\ request \in Request /\ asked \in [Key -> Request]
  /\ current \in {"", "Idle", "Draining", "Complete"}
  /\ nm \in NMType /\ got \in [Key -> NMType]
  /\ nm.owner \notin nm.additional
  /\ pc \in [Key -> PC] /\ fresh \subseteq Key
  /\ asks \in 0 .. MaxAsks /\ faults \in 0 .. MaxFaults

NeedsDrain == request = "Drain" \/ (request = "Reboot" /\ ~config.singleNode)

\* Once the daemon is told that its drain is complete, and until it takes the
\* request back, the node stays drained: whoever else joins, leaves or deletes
\* the shared object, and however stale what a pass read was.
CompleteMeansDrained == current = "Complete" /\ NeedsDrain => drained

\* Once the daemon is told that the node is idle, and until it asks again, this
\* controller has given up its claim on the node: at most an object of its own
\* is left, whose deletion is under way.
IdleMeansReleased ==
  request = "Idle" /\ current = "Idle" /\ Us \in Holders(nm) => nm.owner = Us /\ nm.deleting

\* No pass over the node is under way or due.
Quiet == \A k \in Key : pc[k] = "idle" /\ ~queued[k]

\* No request is forgotten: when the controller comes to rest, the node state
\* answers what the node asks for, though each pass works on a request that it
\* read earlier and two passes over the node write the same answer.
QuietRequestAnswered ==
  Quiet /\ external =>
    \/ request \in {"Drain", "Reboot"} /\ current = "Complete"
    \/ request = "Idle" /\ current = "Idle"

\* Joining and leaving a shared object loses nobody else's place on its list,
\* though both replace the whole list by one that was read earlier.
OthersKeepTheirPlace ==
  [][(\E k \in Key : Pass(k)) /\ nm.exists => nm'.additional \ {Us} = nm.additional \ {Us}]_vars

\* A request that is kept up is answered in the end.
DrainCompletes ==
  <>[](external /\ request \in {"Drain", "Reboot"}) => <>[](current = "Complete")

\* A node that stays idle is given back: no claim of this controller on the
\* maintenance of the node remains, and the node state says idle.
IdleNodeReleased ==
  <>[](external /\ request = "Idle") =>
     <>[](current = "Idle" /\ Us \notin Holders(nm))

=============================================================================
