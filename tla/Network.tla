------------------------------- MODULE Network -------------------------------
(***************************************************************************)
(* The controllers of MacvlanNetwork, IPoIBNetwork and HostDeviceNetwork    *)
(* (controllers/*network_controller.go, pkg/state/state_*_network.go).      *)
(* Each renders one NetworkAttachmentDefinition (NAD) into the namespace    *)
(* that the network names, follows a change of that namespace, and reports  *)
(* where the NAD is.  The module models one network, of any of the kinds.   *)
(*                                                                          *)
(* A pass works from a cached copy of the network, writes the NAD live,     *)
(* notes its namespace in an annotation of the network, and reads the NAD   *)
(* back from a cache for its report.                                        *)
(***************************************************************************)
EXTENDS Naturals

CONSTANTS
  Namespace,   \* namespaces, "default" among them
  Config,      \* everything else that a network's spec says
  MaxEdits,    \* times the user creates, edits or deletes the network
  MaxFaults    \* failed calls, operator restarts, NADs deleted by hand

ASSUME NetworkAssumption ==
  /\ "default" \in Namespace /\ {"", "none"} \cap Namespace = {}
  /\ MaxEdits \in Nat /\ MaxFaults \in Nat

VARIABLES
  kind,      \* the kind of the network
  cr,        \* the network: NoNetwork if it does not exist
  cache,     \* the network as the informer shows it
  nad,       \* the NAD in each namespace
  seen,      \* the NADs as the informer shows them
  news,      \* namespaces whose NAD has changed since
  exists,    \* namespaces that exist
  queue,     \* the network is queued, or will be after a delay
  work,      \* the pass under way
  leftover,  \* history: namespaces in which a pass left a NAD it did not note
  unsaid,    \* the last report was lost for another reason than a conflict
  edits, faults

vars == <<kind, cr, cache, nad, seen, news, exists, queue, work, leftover, unsaid, edits, faults>>

informers == <<cache, seen, news>>

\* What sets the three states apart: whether the NAD follows the namespace of
\* the network, and the namespace that is rendered when the network has none.
stateMacvlanNetwork == [follows |-> TRUE, unnamed |-> "default"]

stateIPoIBNetwork == [follows |-> TRUE, unnamed |-> "default"]

stateHostDeviceNetwork == [follows |-> FALSE, unnamed |-> ""]

\* And the three reconcilers: whether a report that fails is retried, and
\* whether the state of the report is the result of the only state or the
\* state manager's summary of it.
MacvlanNetworkReconciler == [retries |-> FALSE, summary |-> FALSE]

IPoIBNetworkReconciler == [retries |-> TRUE, summary |-> FALSE]

HostDeviceNetworkReconciler == [retries |-> FALSE, summary |-> TRUE]

Kinds ==
  [macvlan |-> [state |-> stateMacvlanNetwork, reconciler |-> MacvlanNetworkReconciler],
   ipoib |-> [state |-> stateIPoIBNetwork, reconciler |-> IPoIBNetworkReconciler],
   hostdevice |-> [state |-> stateHostDeviceNetwork, reconciler |-> HostDeviceNetworkReconciler]]

This == Kinds[kind]

\* The uid and the generation are the numbers of the edits that made them.
NoNetwork == [uid |-> 0, gen |-> 0, ns |-> "", config |-> 0, annot |-> "none",
              state |-> "", link |-> ""]

NoNad == [uid |-> 0, config |-> 0]

\* getManifestObjects: the namespace of the NAD, and the NAD.
NadNamespace(c) == IF c.ns = "" THEN This.state.unnamed ELSE c.ns

getManifestObjects(c) == [uid |-> c.uid, config |-> c.config]

(***************************************************************************)
(* One pass.  Its copy of the network is read from the cache.               *)
(***************************************************************************)

Idle == [pc |-> "idle", copy |-> NoNetwork, result |-> ""]

Reconcile ==
  /\ work.pc = "idle" /\ queue
  /\ queue' = FALSE
  /\ work' = IF cache = NoNetwork THEN Idle
             ELSE [Idle EXCEPT !.pc = IF This.state.follows THEN "follow" ELSE "apply",
                               !.copy = cache]
  /\ UNCHANGED <<kind, cr, informers, nad, exists, leftover, unsaid, edits, faults>>

\* Sync returns r.
Return(r) == work' = [work EXCEPT !.pc = "report", !.result = r]

HasMoved(c) == c.annot # "none" /\ NadNamespace(c) # c.annot

\* The NAD in ns is written or deleted; a change is an event of the informer.
Put(ns, value) ==
  /\ nad' = [nad EXCEPT ![ns] = value]
  /\ news' = IF nad[ns] = value THEN news ELSE news \cup {ns}

NeverFollows == UNCHANGED <<nad, news>>

Follow == IF HasMoved(work.copy) THEN Put(work.copy.annot, NoNad) ELSE UNCHANGED <<nad, news>>

handleNamespaceChange ==
  /\ work.pc = "follow"
  /\ Follow
  /\ work' = [work EXCEPT !.pc = "apply"]
  /\ UNCHANGED <<kind, cr, cache, seen, exists, queue, leftover, unsaid, edits, faults>>

\* Neither a missing nor an empty namespace can be written to.
createOrUpdateObjs ==
  LET ns == NadNamespace(work.copy)
  IN  /\ work.pc = "apply"
      /\ IF ns \in exists
         THEN /\ Put(ns, getManifestObjects(work.copy))
              /\ work' = [work EXCEPT !.pc = "check"]
         ELSE UNCHANGED <<nad, news>> /\ Return("notReady")
      /\ UNCHANGED <<kind, cr, cache, seen, exists, queue, leftover, unsaid, edits, faults>>

getSyncState ==
  /\ work.pc = "check"
  /\ work' = [work EXCEPT !.pc = IF This.state.follows THEN "note" ELSE "get",
                          !.result = IF nad[NadNamespace(work.copy)] = NoNad THEN "notReady" ELSE "ready"]
  /\ UNCHANGED <<kind, cr, informers, nad, exists, queue, leftover, unsaid, edits, faults>>

\* The namespace of the NAD is noted whatever getSyncState found.  The update
\* is refused if the network has changed since it was read.
NotesSpec(c) == [c EXCEPT !.annot = c.ns]

Noted(c) == [c EXCEPT !.annot = NadNamespace(c)]

updateNetAttDefNamespace ==
  LET c == work.copy
  IN  /\ work.pc = "note"
      /\ \/ /\ ~(c.annot = "none" \/ HasMoved(c))
            /\ work' = [work EXCEPT !.pc = "get"]
            /\ UNCHANGED <<cr, leftover>>
         \/ /\ c.annot = "none" \/ HasMoved(c)
            /\ cr = work.copy
            /\ cr' = Noted(c)
            /\ work' = [work EXCEPT !.pc = "get", !.copy = Noted(c)]
            /\ UNCHANGED leftover
         \/ /\ c.annot = "none" \/ HasMoved(c)
            /\ cr # work.copy
            /\ leftover' = leftover \cup {NadNamespace(c)}
            /\ Return("error")
            /\ UNCHANGED cr
      /\ UNCHANGED <<kind, informers, nad, exists, queue, unsaid, edits, faults>>

getObj ==
  /\ work.pc = "get"
  /\ IF nad[NadNamespace(work.copy)] = NoNad THEN Return("error")
     ELSE work' = [work EXCEPT !.pc = "report"]
  /\ UNCHANGED <<kind, cr, informers, nad, exists, queue, leftover, unsaid, edits, faults>>

\* updateCrStatus.  The NAD is looked up in the cache, in the namespace of the
\* spec: an empty one is never found.
Found(w) == w.copy.ns # "" /\ seen[w.copy.ns] # NoNad

Report(w) ==
  LET sum == IF w.result = "ready" THEN "ready" ELSE "notReady"
  IN  [w.copy EXCEPT
         !.state = IF This.reconciler.summary THEN sum ELSE w.result,
         !.link = IF w.result = "ready" /\ Found(w) THEN w.copy.ns ELSE @]

\* Whether the pass asks for another one: after a result that is not ready,
\* and where the reconciler returns errors, after a failed lookup or update.
AgainOnlyOnError(w, updated) ==
  This.reconciler.retries /\ (~updated \/ (w.result = "ready" /\ ~Found(w)))

Again(w, updated) ==
  \/ w.result # "ready"
  \/ This.reconciler.retries /\ (~updated \/ ~Found(w))

updateCrStatus ==
  LET updated == cr = work.copy
  IN  /\ work.pc = "report"
      /\ cr' = IF updated THEN Report(work) ELSE cr
      /\ unsaid' = (unsaid /\ ~updated)
      /\ queue' = (queue \/ Again(work, updated))
      /\ work' = Idle
      /\ UNCHANGED <<kind, informers, nad, exists, leftover, edits, faults>>

(***************************************************************************)
(* Faults.                                                                  *)
(***************************************************************************)

Fault == faults < MaxFaults /\ faults' = faults + 1

\* The pass stops before its namespace is noted.
Unnoted ==
  leftover \cup {ns \in Namespace : /\ work.pc \in {"check", "note"}
                                    /\ ns = NadNamespace(work.copy) /\ ns # work.copy.annot}

callFails ==
  /\ Fault
  /\ work.pc \in {"follow", "apply", "check", "note", "get"}
  /\ Return(IF work.pc \in {"apply", "check"} THEN "notReady" ELSE "error")
  /\ leftover' = Unnoted
  /\ UNCHANGED <<kind, cr, informers, nad, exists, queue, unsaid, edits>>

statusUpdateFails ==
  /\ Fault
  /\ work.pc = "report"
  /\ unsaid' = TRUE
  /\ queue' = (queue \/ Again(work, FALSE))
  /\ work' = Idle
  /\ UNCHANGED <<kind, cr, informers, nad, exists, leftover, edits>>

operatorRestarts ==
  /\ Fault
  /\ work' = Idle
  /\ leftover' = Unnoted
  /\ cache' = cr /\ seen' = nad /\ news' = {}
  /\ queue' = (cr # NoNetwork)
  /\ UNCHANGED <<kind, cr, nad, exists, unsaid, edits>>

deletedByHand(ns) ==
  /\ Fault
  /\ nad[ns] # NoNad
  /\ Put(ns, NoNad)
  /\ UNCHANGED <<kind, cr, cache, seen, exists, queue, work, leftover, unsaid, edits>>

(***************************************************************************)
(* The user and the cluster.                                                *)
(***************************************************************************)

Edit(c) ==
  /\ edits < MaxEdits
  /\ edits' = edits + 1
  /\ cr' = c
  /\ UNCHANGED <<kind, informers, nad, exists, queue, work, unsaid, faults>>

userCreates(ns, config) ==
  /\ cr = NoNetwork
  /\ leftover' = {}
  /\ Edit([NoNetwork EXCEPT !.uid = edits + 1, !.gen = edits + 1, !.ns = ns, !.config = config])

userEdits(ns, config) ==
  /\ cr # NoNetwork /\ <<ns, config>> # <<cr.ns, cr.config>>
  /\ Edit([cr EXCEPT !.gen = edits + 1, !.ns = ns, !.config = config])
  /\ UNCHANGED leftover

userDeletes ==
  /\ cr # NoNetwork
  /\ Edit(NoNetwork)
  /\ UNCHANGED leftover

observe ==
  /\ cache # cr
  /\ cache' = cr
  /\ queue' = TRUE
  /\ UNCHANGED <<kind, cr, nad, seen, news, exists, work, leftover, unsaid, edits, faults>>

\* The NAD's owner is enqueued, by name.
observeNad(ns) ==
  /\ ns \in news
  /\ news' = news \ {ns}
  /\ seen' = [seen EXCEPT ![ns] = nad[ns]]
  /\ queue' = TRUE
  /\ UNCHANGED <<kind, cr, cache, nad, exists, work, leftover, unsaid, edits, faults>>

garbageCollected(ns) ==
  /\ nad[ns] # NoNad /\ nad[ns].uid # cr.uid
  /\ Put(ns, NoNad)
  /\ UNCHANGED <<kind, cr, cache, seen, exists, queue, work, leftover, unsaid, edits, faults>>

namespaceCreated(ns) ==
  /\ ns \notin exists
  /\ exists' = exists \cup {ns}
  /\ UNCHANGED <<kind, cr, informers, nad, queue, work, leftover, unsaid, edits, faults>>

Init ==
  /\ kind \in DOMAIN Kinds
  /\ cr = NoNetwork /\ cache = NoNetwork
  /\ nad = [ns \in Namespace |-> NoNad] /\ seen = nad /\ news = {}
  /\ exists \in {ns \in SUBSET Namespace : "default" \in ns}
  /\ queue = FALSE /\ work = Idle
  /\ leftover = {} /\ unsaid = FALSE
  /\ edits = 0 /\ faults = 0

Step ==
  \/ handleNamespaceChange \/ createOrUpdateObjs \/ getSyncState \/ updateNetAttDefNamespace
  \/ getObj \/ updateCrStatus

Next ==
  \/ Reconcile \/ Step \/ observe
  \/ callFails \/ statusUpdateFails \/ operatorRestarts
  \/ userDeletes
  \/ \E ns \in Namespace \cup {""}, config \in Config : userCreates(ns, config) \/ userEdits(ns, config)
  \/ \E ns \in Namespace :
       observeNad(ns) \/ garbageCollected(ns) \/ namespaceCreated(ns) \/ deletedByHand(ns)

Spec == Init /\ [][Next]_vars

\* The worker goes on, caches catch up, and orphans are collected.
Fairness ==
  /\ WF_vars(Reconcile) /\ WF_vars(Step) /\ WF_vars(observe)
  /\ \A ns \in Namespace : WF_vars(observeNad(ns)) /\ WF_vars(garbageCollected(ns))

FairSpec == Spec /\ Fairness

-----------------------------------------------------------------------------
(***************************************************************************)
(* Properties.                                                              *)
(***************************************************************************)

NetworkType ==
  [uid : 0 .. edits, gen : 0 .. edits, ns : Namespace \cup {""}, config : Config \cup {0},
   annot : Namespace \cup {"none"}, state : {"", "ready", "notReady", "error"},
   link : Namespace \cup {""}]

NadType == [uid : 0 .. edits, config : Config \cup {0}]

\* Type correctness; in particular the annotation and the link name real
\* namespaces, never the empty one of a spec that leaves it out, and what the
\* informer shows of a NAD is out of date only while an event is due.
TypeOK ==
  /\ kind \in DOMAIN Kinds
  /\ \A c \in {cr, cache, work.copy} : c \in NetworkType /\ (c.uid = 0 => c = NoNetwork)
  /\ work \in [pc : {"idle", "follow", "apply", "check", "note", "get", "report"}, copy : NetworkType,
               result : {"", "ready", "notReady", "error"}]
  /\ work.pc # "idle" => work.copy # NoNetwork
  /\ work.pc \in {"follow", "note"} => This.state.follows
  /\ nad \in [Namespace -> NadType] /\ seen \in [Namespace -> NadType]
  /\ news \subseteq Namespace /\ \A ns \in Namespace \ news : seen[ns] = nad[ns]
  /\ exists \subseteq Namespace /\ leftover \subseteq Namespace
  /\ queue \in BOOLEAN /\ unsaid \in BOOLEAN
  /\ edits \in 0 .. MaxEdits /\ faults \in 0 .. MaxFaults

\* Nothing is under way or pending that would lead to a pass.
Quiet ==
  /\ ~queue /\ work.pc = "idle"
  /\ cache = cr /\ news = {}

Deployed ==
  /\ cr # NoNetwork
  /\ NadNamespace(cr) \in exists
  /\ nad[NadNamespace(cr)] = getManifestObjects(cr)

Reported == cr.state = "ready" /\ (cr.ns # "" => cr.link = cr.ns)

\* When the controller has nothing left to do for a network, the NAD that its
\* spec describes is in the namespace it names, and the status says ready and
\* links to that NAD and to no earlier one.  (A network that names no
\* namespace gets no link: the lookup is not given the default.)
QuietNetworkDeployed ==
  Quiet /\ cr # NoNetwork => Deployed /\ (Reported \/ unsaid)

\* When the namespace of a MacvlanNetwork or IPoIBNetwork has changed, however
\* often and at whatever moment, the NADs in its former namespaces are gone
\* once the controller is done; the only ones that stay, until the network is
\* deleted, were written by a pass that could not note their namespace.
FormerNadsGone ==
  Quiet /\ cr # NoNetwork /\ This.state.follows =>
    \A ns \in Namespace \ ({NadNamespace(cr)} \cup leftover) : nad[ns].uid # cr.uid

\* A network whose namespace exists is eventually deployed and reported ready
\* for good, whatever was edited, refused, deleted or lost on the way; and of
\* a deleted network nothing stays.
NetworkSettles ==
  /\ <>[](cr # NoNetwork /\ NadNamespace(cr) \in exists /\ ~unsaid) => <>[](Deployed /\ Reported)
  /\ <>[](cr = NoNetwork) => <>[](\A ns \in Namespace : nad[ns] = NoNad)

=============================================================================
