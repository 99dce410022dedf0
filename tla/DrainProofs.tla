----------------------------- MODULE DrainProofs -----------------------------
(***************************************************************************)
(* Drain for every set of other requestors, any number of requests of       *)
(* theirs and any number of faults.                                         *)
(***************************************************************************)
EXTENDS Drain, TLAPS

\* The optimistic lock: an object whose version a pass still has is the one
\* that it read.
FreshInv == \A k \in fresh : got[k] = nm

Asking == request \in {"Drain", "Reboot"}

\* The request does not change under a pass that has read it, as the daemon
\* waits for the passes; only the missing annotation may have been set since.
AskedInv ==
  \A k \in Key : pc[k] # "idle" =>
    asked[k] = request \/ (asked[k] = "" /\ request = "Idle")

\* So the branch that a pass has taken fits the request.
BranchInv ==
  \A k \in Key : /\ pc[k] \in {"drain", "request", "complete"} => Asking
                 /\ pc[k] \in {"undrain", "release", "restore"} => request = "Idle"

\* The condition of the object says whether the node is drained, and an object
\* with a name of our own is nobody else's.
ObjectInv ==
  /\ nm.ready => nm.exists /\ drained
  /\ ~config.defaultPrefix => nm.owner = Us /\ \A k \in Key : got[k].owner = Us

\* While the daemon asks, nobody deletes an object of ours.
KeptInv == Asking /\ nm.exists /\ nm.owner = Us => ~nm.deleting

\* We hold the object, and it is ready.
Held == Us \in Holders(nm) /\ nm.ready

\* What a pass has read of an object that we hold is still so.
GotInv ==
  \A k \in Key : pc[k] = "request" /\ Us \in Holders(got[k]) =>
    Us \in Holders(nm) /\ (got[k].ready => nm.ready)

\* The answer is given, and stays given, while we hold the drained node.
AnswerInv ==
  NeedsDrain => /\ \A k \in Key : pc[k] = "complete" => Held
                /\ current = "Complete" => Held

HoldInv == AskedInv /\ BranchInv /\ ObjectInv /\ KeptInv /\ GotInv /\ AnswerInv

-----------------------------------------------------------------------------
(***************************************************************************)
(* Type correctness and the optimistic lock.                                *)
(***************************************************************************)

LEMMA WakeType ==
  ASSUME NEW keys, Wake(keys)
  PROVE  queued' \in [Key -> BOOLEAN]
  BY Zenon DEF Wake

LEMMA GotoType ==
  ASSUME TypeOK, NEW k \in Key, NEW step \in PC, Goto(k, step)
  PROVE  queued' \in [Key -> BOOLEAN] /\ pc' \in [Key -> PC]
  BY WakeType, Zenon DEF Goto, TypeOK

LEMMA AnswerType ==
  ASSUME NEW o
  PROVE  Answer(o) \in PC
  BY Zenon DEF Answer, PC

LEMMA NoNMType == NoNM \in NMType /\ NoNM.owner \notin NoNM.additional
  BY Zenon DEF NoNM, NMType, Requestor

\* What a write may leave.
LEMMA WriteKeeps ==
  ASSUME TypeOK, FreshInv, NEW o \in NMType, o.owner \notin o.additional, Write(o), got' = got
  PROVE  nm' \in NMType /\ nm'.owner \notin nm'.additional /\ fresh' \subseteq Key /\ FreshInv'
  BY Zenon DEF Write, TypeOK, FreshInv

LEMMA CountType ==
  /\ 0 \in 0 .. MaxAsks /\ 0 \in 0 .. MaxFaults
  /\ \A x \in 0 .. MaxAsks : x < MaxAsks => x + 1 \in 0 .. MaxAsks
  /\ \A x \in 0 .. MaxFaults : x < MaxFaults => x + 1 \in 0 .. MaxFaults
  BY DrainAssumption

LEMMA InitType == Init => TypeOK /\ FreshInv
<1> SUFFICES ASSUME Init PROVE TypeOK /\ FreshInv
  BY Zenon
<1>1. asks \in 0 .. MaxAsks /\ faults \in 0 .. MaxFaults
  BY CountType, Zenon DEF Init
<1>2. queued \in [Key -> BOOLEAN] /\ external \in BOOLEAN /\ drained \in BOOLEAN
  BY Zenon DEF Init
<1>3. QED
  BY <1>1, <1>2, NoNMType, Zenon DEF Init, TypeOK, FreshInv, Request, PC

LEMMA NextType == TypeOK /\ FreshInv /\ [Next]_vars => TypeOK' /\ FreshInv'
<1> SUFFICES ASSUME TypeOK, FreshInv, [Next]_vars PROVE TypeOK' /\ FreshInv'
  BY Zenon
<1> USE DEF annotations, maintenance, copies
<1>1. CASE UNCHANGED vars
  BY <1>1, Zenon DEF vars, TypeOK, FreshInv
<1>2. ASSUME NEW k \in Key, Reconcile(k) \/ notExternal(k) PROVE TypeOK' /\ FreshInv'
  BY <1>2, ZenonT(60) DEF Reconcile, notExternal, TypeOK, FreshInv, PC
<1>3. ASSUME NEW k \in Key, ensureAnnotationExists(k) PROVE TypeOK' /\ FreshInv'
  BY <1>3, WakeType, Zenon DEF ensureAnnotationExists, TypeOK, FreshInv, Request, PC
<1>4. ASSUME NEW k \in Key, choose(k) PROVE TypeOK' /\ FreshInv'
  <2>1. NextStep(asked[k]) \in PC
    BY <1>4, Zenon DEF NextStep, choose, TypeOK, PC
  <2>2. QED
    BY <1>4, <2>1, Zenon DEF choose, TypeOK, FreshInv
<1>5. ASSUME NEW k \in Key, checkForExistingNodeMaintenance(k) PROVE TypeOK' /\ FreshInv'
  BY <1>5, Zenon DEF checkForExistingNodeMaintenance, TypeOK, FreshInv, PC
<1>6. ASSUME NEW k \in Key, createNodeMaintenance(k) PROVE TypeOK' /\ FreshInv'
  <2> DEFINE o == IF nm.exists THEN nm ELSE [NoNM EXCEPT !.exists = TRUE]
  <2>1. o \in NMType /\ o.owner \notin o.additional
    BY NoNMType, Zenon DEF TypeOK, NMType
  <2>2. Write(o) /\ UNCHANGED <<annotations, drained, copies, asks, faults>>
    BY <1>6, Zenon DEF createNodeMaintenance
  <2>3. queued' \in [Key -> BOOLEAN] /\ pc' \in [Key -> PC]
    BY <1>6, GotoType, AnswerType, Zenon DEF createNodeMaintenance
  <2>4. QED
    BY <2>1, <2>2, <2>3, WriteKeeps, Zenon DEF TypeOK
<1>7. ASSUME NEW k \in Key, reuseNodeMaintenance(k) PROVE TypeOK' /\ FreshInv'
  BY <1>7, GotoType, AnswerType, Zenon DEF reuseNodeMaintenance, TypeOK, FreshInv
<1>8. ASSUME NEW k \in Key, joinNodeMaintenance(k) PROVE TypeOK' /\ FreshInv'
  <2> DEFINE o == IF Locked(k) THEN [nm EXCEPT !.additional = got[k].additional \cup {Us}] ELSE nm
  <2>1. o \in NMType /\ o.owner \notin o.additional
    BY <1>8, Zenon DEF joinNodeMaintenance, Holders, Locked, TypeOK, FreshInv, NMType, Requestor
  <2>2. Write(o) /\ UNCHANGED <<annotations, drained, copies, asks, faults>>
    BY <1>8, Zenon DEF joinNodeMaintenance
  <2>3. queued' \in [Key -> BOOLEAN] /\ pc' \in [Key -> PC]
    <3>1. (IF Locked(k) THEN Answer(nm) ELSE "idle") \in PC
      BY AnswerType, Zenon DEF PC
    <3>2. QED
      BY <1>8, <3>1, GotoType, Zenon DEF joinNodeMaintenance
  <2>4. QED
    BY <2>1, <2>2, <2>3, WriteKeeps, Zenon DEF TypeOK
<1>9. ASSUME NEW k \in Key, handleNodeDrainOrReboot(k) \/ handleNodeIdle(k) PROVE TypeOK' /\ FreshInv'
  BY <1>9, WakeType, Zenon DEF handleNodeDrainOrReboot, handleNodeIdle, TypeOK, FreshInv, PC
<1>10. ASSUME NEW k \in Key, deleteNodeMaintenance(k) PROVE TypeOK' /\ FreshInv'
  <2>1. PICK o \in {nm, [nm EXCEPT !.deleting = TRUE]} : Write(o)
    BY <1>10, Zenon DEF deleteNodeMaintenance
  <2>2. PICK step \in {"restore", "idle"} : Goto(k, step)
    BY <1>10, Zenon DEF deleteNodeMaintenance
  <2>3. o \in NMType /\ o.owner \notin o.additional /\ step \in PC
    BY Zenon DEF TypeOK, NMType, PC
  <2>4. queued' \in [Key -> BOOLEAN] /\ pc' \in [Key -> PC]
    BY <2>2, <2>3, GotoType, Zenon
  <2>5. QED
    BY <1>10, <2>1, <2>3, <2>4, WriteKeeps, Zenon DEF deleteNodeMaintenance, TypeOK
<1>11. ASSUME NEW k \in Key, leaveNodeMaintenance(k) PROVE TypeOK' /\ FreshInv'
  <2> DEFINE o == IF Us \in got[k].additional /\ Locked(k)
                  THEN [nm EXCEPT !.additional = got[k].additional \ {Us}] ELSE nm
  <2>1. o \in NMType /\ o.owner \notin o.additional
    BY <1>11, Zenon DEF leaveNodeMaintenance, Locked, TypeOK, FreshInv, NMType
  <2>2. Write(o) /\ UNCHANGED <<annotations, drained, copies, asks, faults>>
    BY <1>11, Zenon DEF leaveNodeMaintenance
  <2>3. queued' \in [Key -> BOOLEAN] /\ pc' \in [Key -> PC]
    BY <1>11, GotoType, Zenon DEF leaveNodeMaintenance, PC
  <2>4. QED
    BY <2>1, <2>2, <2>3, WriteKeeps, Zenon DEF TypeOK
<1>12. ASSUME NEW k \in Key, retryLater(k) PROVE TypeOK' /\ FreshInv'
  <2>1. queued' \in [Key -> BOOLEAN] /\ pc' \in [Key -> PC]
    BY <1>12, GotoType, Zenon DEF retryLater, PC
  <2>2. faults' \in 0 .. MaxFaults
    BY <1>12, CountType, Zenon DEF retryLater, TypeOK
  <2>3. QED
    BY <1>12, <2>1, <2>2, Zenon DEF retryLater, TypeOK, FreshInv
<1>13. CASE operatorRestarts
  <2>1. faults' \in 0 .. MaxFaults
    BY <1>13, CountType, Zenon DEF operatorRestarts, TypeOK
  <2>2. queued' \in [Key -> BOOLEAN] /\ pc' \in [Key -> PC]
    BY <1>13, Zenon DEF operatorRestarts, PC
  <2>3. QED
    BY <1>13, <2>1, <2>2, Zenon DEF operatorRestarts, TypeOK, FreshInv
<1>14. CASE sriovUsesExternalDrainer \/ daemonDone \/ \E r \in {"Drain", "Reboot"} : daemonAsks(r)
  BY <1>14, WakeType, Zenon DEF sriovUsesExternalDrainer, daemonDone, daemonAsks, TypeOK, FreshInv, Request
<1>15. CASE nodeDrained
  <2>1. [nm EXCEPT !.ready = TRUE] \in NMType /\ nm.owner \notin nm.additional
    BY Zenon DEF TypeOK, NMType
  <2>2. QED
    BY <1>15, <2>1, WriteKeeps, Zenon DEF nodeDrained, TypeOK, NMType
<1>16. CASE nodeUncordoned
  BY <1>16, NoNMType, WriteKeeps, Zenon DEF nodeUncordoned, TypeOK
<1>17. ASSUME NEW o \in Others, otherAsks(o) PROVE TypeOK' /\ FreshInv'
  <2> DEFINE w == IF nm.exists THEN [nm EXCEPT !.additional = @ \cup {o}]
                               ELSE [NoNM EXCEPT !.exists = TRUE, !.owner = o]
  <2>1. w \in NMType /\ w.owner \notin w.additional
    BY <1>17, NoNMType, Zenon DEF otherAsks, Holders, TypeOK, NMType, NoNM, Requestor
  <2>2. Write(w) /\ asks' \in 0 .. MaxAsks /\ UNCHANGED <<annotations, drained, queued, pc, copies, faults>>
    BY <1>17, CountType, Zenon DEF otherAsks, TypeOK
  <2>3. QED
    BY <2>1, <2>2, WriteKeeps, Zenon DEF TypeOK
<1>18. ASSUME NEW o \in Others, otherReleases(o) PROVE TypeOK' /\ FreshInv'
  <2> DEFINE w == IF nm.owner = o THEN [nm EXCEPT !.deleting = TRUE]
                                  ELSE [nm EXCEPT !.additional = @ \ {o}]
  <2>1. w \in NMType /\ w.owner \notin w.additional
    BY Zenon DEF TypeOK, NMType
  <2>2. Write(w) /\ UNCHANGED <<annotations, drained, queued, pc, copies, asks, faults>>
    BY <1>18, Zenon DEF otherReleases
  <2>3. QED
    BY <2>1, <2>2, WriteKeeps, Zenon DEF TypeOK
<1>19. QED
  BY <1>1, <1>2, <1>3, <1>4, <1>5, <1>6, <1>7, <1>8, <1>9, <1>10, <1>11, <1>12, <1>13, <1>14, <1>15, <1>16,
     <1>17, <1>18, Zenon DEF Next, Pass

\* Every state is well typed, and the owner of the shared object is never on
\* its list of additional requestors as well.
THEOREM TypeCorrect == Spec => []TypeOK
  BY InitType, NextType, PTL DEF Spec

\* A pass of the controller leaves every other requestor where it was on the
\* list of the shared object: the whole list is written, but only under the
\* version of the object that it was read with.
THEOREM PlacesKept == Spec => OthersKeepTheirPlace
<1>1. ASSUME TypeOK, FreshInv, NEW k \in Key, Pass(k), nm.exists
      PROVE  nm'.additional \ {Us} = nm.additional \ {Us}
  <2> USE <1>1 DEF annotations, maintenance, copies, Write
  <2>1. CASE UNCHANGED nm
    BY <2>1, Zenon
  <2>2. CASE joinNodeMaintenance(k)
    BY <2>2, Zenon DEF joinNodeMaintenance, Locked, FreshInv, TypeOK, NMType
  <2>3. CASE leaveNodeMaintenance(k)
    BY <2>3, Zenon DEF leaveNodeMaintenance, Locked, FreshInv, TypeOK, NMType
  <2>4. CASE deleteNodeMaintenance(k)
    BY <2>4, Zenon DEF deleteNodeMaintenance, TypeOK, NMType
  <2>5. CASE createNodeMaintenance(k)
    BY <2>5, Zenon DEF createNodeMaintenance
  <2>6. QED
    BY <2>1, <2>2, <2>3, <2>4, <2>5, Zenon
       DEF Pass, Reconcile, notExternal, ensureAnnotationExists, choose, checkForExistingNodeMaintenance,
           reuseNodeMaintenance, handleNodeDrainOrReboot, handleNodeIdle
<1>2. TypeOK /\ FreshInv /\ [Next]_vars =>
        [(\E k \in Key : Pass(k)) /\ nm.exists => nm'.additional \ {Us} = nm.additional \ {Us}]_vars
  BY <1>1, Zenon
<1>3. QED
  BY <1>2, InitType, NextType, PTL DEF Spec, OthersKeepTheirPlace

-----------------------------------------------------------------------------
(***************************************************************************)
(* An answer of the controller can be relied on.                            *)
(***************************************************************************)

\* Steps that leave the object, the request and the answer alone, and move no
\* pass to a branch.
LEMMA HoldKept ==
  ASSUME HoldInv, UNCHANGED <<request, current, nm, drained, config, asked, got>>,
         \A k \in Key : pc'[k] \in {pc[k], "idle"}
  PROVE  HoldInv'
<1>1. \A k \in Key : pc'[k] # "idle" => pc'[k] = pc[k]
  BY Zenon
<1> USE <1>1 DEF HoldInv
<1>2. AskedInv' /\ BranchInv'
  BY Zenon DEF AskedInv, BranchInv, Asking
<1>3. ObjectInv' /\ KeptInv'
  BY Zenon DEF ObjectInv, KeptInv, Asking
<1>4. GotInv' /\ AnswerInv'
  BY Zenon DEF GotInv, AnswerInv, NeedsDrain, Held
<1>5. QED
  BY <1>2, <1>3, <1>4, Zenon

\* Steps that change the object and move no pass to a branch: while the daemon
\* asks we stay among its holders, it stays ready and nobody deletes it.
LEMMA ObjectChanged ==
  ASSUME HoldInv, UNCHANGED <<request, current, config, asked, got>>,
         \A k \in Key : pc'[k] \in {pc[k], "idle"},
         ObjectInv', KeptInv',
         Asking /\ Us \in Holders(nm) => Us \in Holders(nm') /\ (nm.ready => nm'.ready)
  PROVE  HoldInv'
<1>1. \A k \in Key : pc'[k] # "idle" => pc'[k] = pc[k]
  BY Zenon
<1> USE <1>1 DEF HoldInv
<1>2. AskedInv' /\ BranchInv'
  BY Zenon DEF AskedInv, BranchInv, Asking
<1>3. GotInv'
  BY Zenon DEF GotInv, BranchInv
<1>4. AnswerInv'
  BY Zenon DEF AnswerInv, NeedsDrain, Asking, Held
<1>5. QED
  BY <1>2, <1>3, <1>4, Zenon

\* The steps of a pass that read and choose.
LEMMA ReadsKeep ==
  ASSUME TypeOK, HoldInv, NEW k \in Key,
         Reconcile(k) \/ choose(k) \/ checkForExistingNodeMaintenance(k)
  PROVE  HoldInv'
<1> USE DEF HoldInv, annotations, maintenance, copies
<1>1. CASE Reconcile(k)
  <2>1. /\ UNCHANGED <<request, current, nm, drained, config, got>> /\ asked'[k] = request /\ pc'[k] = "read"
        /\ \A j \in Key : j # k => asked'[j] = asked[j] /\ pc'[j] = pc[j]
    BY <1>1, Zenon DEF Reconcile, TypeOK
  <2>2. AskedInv' /\ BranchInv'
    BY <2>1, Zenon DEF AskedInv, BranchInv, Asking
  <2>3. ObjectInv' /\ KeptInv'
    BY <2>1, Zenon DEF ObjectInv, KeptInv, Asking
  <2>4. GotInv' /\ AnswerInv'
    BY <2>1, Zenon DEF GotInv, AnswerInv, NeedsDrain, Held
  <2>5. QED
    BY <2>2, <2>3, <2>4, Zenon
<1>2. CASE choose(k)
  <2>1. /\ UNCHANGED <<request, current, nm, drained, config, got, asked>>
        /\ pc'[k] = NextStep(asked[k]) /\ asked[k] = request /\ request # "" /\ current # ""
        /\ \A j \in Key : j # k => pc'[j] = pc[j]
    BY <1>2, Zenon DEF choose, AskedInv, TypeOK
  <2>2. /\ pc'[k] \in {"idle", "drain", "undrain", "complete"}
        /\ pc'[k] = "undrain" => request = "Idle"
        /\ pc'[k] \in {"drain", "complete"} => Asking
        /\ pc'[k] = "complete" => ~NeedsDrain
    BY <2>1, Zenon DEF NextStep, NeedsDrain, Asking, TypeOK, Request
  <2>3. AskedInv' /\ BranchInv'
    BY <2>1, <2>2, Zenon DEF AskedInv, BranchInv, Asking
  <2>4. ObjectInv' /\ KeptInv'
    BY <2>1, Zenon DEF ObjectInv, KeptInv, Asking
  <2>5. GotInv' /\ AnswerInv'
    BY <2>1, <2>2, Zenon DEF GotInv, AnswerInv, NeedsDrain, Held
  <2>6. QED
    BY <2>3, <2>4, <2>5, Zenon
<1>3. CASE checkForExistingNodeMaintenance(k)
  <2>1. /\ UNCHANGED <<request, current, nm, drained, config, asked>> /\ got'[k] = nm
        /\ pc[k] \in {"drain", "undrain"} /\ pc'[k] = IF pc[k] = "drain" THEN "request" ELSE "release"
        /\ \A j \in Key : j # k => got'[j] = got[j] /\ pc'[j] = pc[j]
    BY <1>3, Zenon DEF checkForExistingNodeMaintenance, TypeOK
  <2>2. AskedInv' /\ BranchInv'
    BY <2>1, Zenon DEF AskedInv, BranchInv, Asking
  <2>3. ObjectInv' /\ KeptInv'
    BY <2>1, Zenon DEF ObjectInv, KeptInv, Asking
  <2>4. GotInv' /\ AnswerInv'
    BY <2>1, Zenon DEF GotInv, AnswerInv, NeedsDrain, Held
  <2>5. QED
    BY <2>2, <2>3, <2>4, Zenon
<1>4. QED
  BY <1>1, <1>2, <1>3, Zenon

\* The steps of a pass that asks for maintenance.
LEMMA RequestKeeps ==
  ASSUME TypeOK, FreshInv, HoldInv, NEW k \in Key,
         createNodeMaintenance(k) \/ reuseNodeMaintenance(k) \/ joinNodeMaintenance(k)
  PROVE  HoldInv'
<1> USE DEF HoldInv, annotations, maintenance, copies
<1>1. pc[k] = "request" /\ Asking /\ UNCHANGED <<request, current, config, asked, got, drained>>
  BY Zenon DEF createNodeMaintenance, reuseNodeMaintenance, joinNodeMaintenance, BranchInv
<1>2. \A j \in Key : j # k => pc'[j] = pc[j]
  BY Zenon DEF createNodeMaintenance, reuseNodeMaintenance, joinNodeMaintenance, Goto, TypeOK
<1>3. CASE createNodeMaintenance(k)
  <2>1. pc'[k] = "idle" /\ nm' = IF nm.exists THEN nm ELSE [NoNM EXCEPT !.exists = TRUE]
    BY <1>3, Zenon DEF createNodeMaintenance, Answer, NoNM, Goto, Write, TypeOK
  <2>2. ObjectInv' /\ KeptInv'
    BY <1>1, <2>1, Zenon DEF ObjectInv, KeptInv, Asking, NoNM
  <2>3. Us \in Holders(nm) => nm' = nm
    BY <2>1, Zenon DEF Holders
  <2>4. \A j \in Key : pc'[j] \in {pc[j], "idle"}
    BY <1>2, <2>1, Zenon
  <2>5. QED
    BY <1>1, <2>2, <2>3, <2>4, ObjectChanged, Zenon
<1>4. CASE reuseNodeMaintenance(k)
  <2>1. nm' = nm /\ pc'[k] \in {"idle", "complete"} /\ (pc'[k] = "complete" => got[k].ready)
    BY <1>4, Zenon DEF reuseNodeMaintenance, Goto, Answer, TypeOK
  <2>2. Us \in Holders(got[k])
    BY <1>4, Zenon DEF reuseNodeMaintenance, Holders, ObjectInv
  <2>3. pc'[k] = "complete" => Held
    BY <1>1, <2>1, <2>2, Zenon DEF GotInv, Held
  <2>4. AskedInv' /\ BranchInv'
    BY <1>1, <1>2, <2>1, Zenon DEF AskedInv, BranchInv, Asking
  <2>5. ObjectInv' /\ KeptInv'
    BY <1>1, <2>1, Zenon DEF ObjectInv, KeptInv, Asking
  <2>6. GotInv' /\ AnswerInv'
    BY <1>1, <1>2, <2>1, <2>3, Zenon DEF GotInv, AnswerInv, NeedsDrain, Held
  <2>7. QED
    BY <2>4, <2>5, <2>6, Zenon
<1>5. CASE joinNodeMaintenance(k)
  <2>1. CASE ~Locked(k)
    <3>1. nm' = nm /\ pc'[k] = "idle"
      BY <1>5, <2>1, Zenon DEF joinNodeMaintenance, Goto, Write, TypeOK
    <3>2. QED
      BY <1>1, <1>2, <3>1, HoldKept, Zenon
  <2>2. CASE Locked(k)
    <3>1. got[k] = nm /\ nm' = [nm EXCEPT !.additional = nm.additional \cup {Us}] /\ nm.exists
      BY <1>5, <2>2, Zenon DEF joinNodeMaintenance, Locked, Write, FreshInv
    <3>2. Us \notin Holders(nm) /\ nm.owner # Us /\ Us \in Holders(nm') /\ nm'.ready = nm.ready
      BY <1>5, <3>1, Zenon DEF joinNodeMaintenance, Holders, TypeOK, NMType
    <3>3. pc'[k] \in {"idle", "complete"} /\ (pc'[k] = "complete" => nm.ready)
      BY <1>5, <2>2, Zenon DEF joinNodeMaintenance, Goto, Answer, TypeOK
    <3>4. AskedInv' /\ BranchInv'
      BY <1>1, <1>2, <3>3, Zenon DEF AskedInv, BranchInv, Asking
    <3>5. ObjectInv' /\ KeptInv'
      BY <1>1, <3>1, <3>2, Zenon DEF ObjectInv, KeptInv, TypeOK, NMType
    <3>6. GotInv'
      BY <1>1, <1>2, <3>2, <3>3, Zenon DEF GotInv
    <3>7. AnswerInv'
      BY <1>1, <1>2, <3>2, <3>3, Zenon DEF AnswerInv, NeedsDrain, Held
    <3>8. QED
      BY <3>4, <3>5, <3>6, <3>7, Zenon
  <2>3. QED
    BY <2>1, <2>2, Zenon
<1>6. QED
  BY <1>3, <1>4, <1>5, Zenon

\* The steps of a pass that gives the node back; they are taken while the
\* daemon does not ask.
LEMMA ReleaseKeeps ==
  ASSUME TypeOK, FreshInv, HoldInv, NEW k \in Key,
         deleteNodeMaintenance(k) \/ leaveNodeMaintenance(k) \/ handleNodeIdle(k)
  PROVE  HoldInv'
<1> USE DEF HoldInv, annotations, maintenance, copies
<1>1. request = "Idle" /\ UNCHANGED <<request, config, asked, got, drained>>
  BY Zenon DEF deleteNodeMaintenance, leaveNodeMaintenance, handleNodeIdle, BranchInv
<1>2. ~Asking /\ ~Asking' /\ ~NeedsDrain'
  BY <1>1, Zenon DEF Asking, NeedsDrain
<1>3. /\ pc[k] # "idle" /\ pc'[k] \in {"idle", "restore"}
      /\ \A j \in Key : j # k => pc'[j] = pc[j]
  BY Zenon DEF deleteNodeMaintenance, leaveNodeMaintenance, handleNodeIdle, Goto, TypeOK
<1>4. ObjectInv'
  <2>1. \/ nm' = nm
        \/ nm' = [nm EXCEPT !.deleting = TRUE]
        \/ nm' = [nm EXCEPT !.additional = got[k].additional \ {Us}]
    BY Zenon DEF deleteNodeMaintenance, leaveNodeMaintenance, handleNodeIdle, Write
  <2>2. nm'.ready = nm.ready /\ nm'.exists = nm.exists /\ nm'.owner = nm.owner
    BY <2>1, Zenon DEF TypeOK, NMType
  <2>3. QED
    BY <1>1, <2>2, Zenon DEF ObjectInv
<1>5. AskedInv' /\ BranchInv'
  BY <1>1, <1>3, Zenon DEF AskedInv, BranchInv, Asking
<1>6. KeptInv' /\ AnswerInv'
  BY <1>2, Zenon DEF KeptInv, AnswerInv
<1>7. GotInv'
  <2>1. \A j \in Key : pc'[j] # "request"
    BY <1>2, <1>3, Zenon DEF BranchInv
  <2>2. QED
    BY <2>1, Zenon DEF GotInv
<1>8. QED
  BY <1>4, <1>5, <1>6, <1>7, Zenon

\* The daemon: it waits for the passes, and asks again only once nothing is
\* left of the last drain.
LEMMA DaemonKeeps ==
  ASSUME TypeOK, HoldInv, Turnaround = "afterRemoval",
         daemonDone \/ \E r \in {"Drain", "Reboot"} : daemonAsks(r)
  PROVE  HoldInv'
<1> USE DEF HoldInv, annotations, maintenance, copies
<1>1. /\ UNCHANGED <<current, nm, drained, config, asked, got, pc>>
      /\ \A k \in Key : pc[k] = "idle"
  BY Zenon DEF daemonDone, daemonAsks, Settled
<1>2. AskedInv' /\ BranchInv' /\ ObjectInv' /\ GotInv'
  BY <1>1, Zenon DEF AskedInv, BranchInv, ObjectInv, GotInv
<1>3. CASE daemonDone
  <2>1. request' = "Idle"
    BY <1>3, Zenon DEF daemonDone
  <2>2. QED
    BY <1>2, <2>1, Zenon DEF KeptInv, AnswerInv, Asking, NeedsDrain
<1>4. CASE \E r \in {"Drain", "Reboot"} : daemonAsks(r)
  <2>1. current # "Complete" /\ Us \notin Holders(nm)
    BY <1>4, Zenon DEF daemonAsks, Removed
  <2>2. QED
    BY <1>1, <1>2, <2>1, Zenon DEF KeptInv, AnswerInv, Holders
<1>5. QED
  BY <1>3, <1>4, Zenon

\* The maintenance operator and the other requestors.
LEMMA OthersKeep ==
  ASSUME TypeOK, HoldInv,
         nodeDrained \/ nodeUncordoned \/ \E o \in Others : otherAsks(o) \/ otherReleases(o)
  PROVE  HoldInv'
<1> USE DrainAssumption DEF HoldInv, annotations, copies, Write
<1>1. UNCHANGED <<request, current, config, asked, got, pc>>
  BY Zenon DEF nodeDrained, nodeUncordoned, otherAsks, otherReleases
<1>2. \A k \in Key : pc'[k] \in {pc[k], "idle"}
  BY <1>1, Zenon
<1>3. CASE nodeDrained
  <2>1. nm' = [nm EXCEPT !.ready = TRUE] /\ drained' /\ nm.exists
    BY <1>3, Zenon DEF nodeDrained
  <2>2. ObjectInv' /\ KeptInv'
    BY <1>1, <2>1, Zenon DEF ObjectInv, KeptInv, Asking, TypeOK, NMType
  <2>3. Us \in Holders(nm) => Us \in Holders(nm') /\ nm'.ready
    BY <2>1, Zenon DEF Holders, TypeOK, NMType
  <2>4. QED
    BY <1>1, <1>2, <2>2, <2>3, ObjectChanged, Zenon
<1>4. CASE nodeUncordoned
  <2>1. nm' = NoNM /\ nm.exists /\ nm.deleting /\ nm.additional = {}
    BY <1>4, Zenon DEF nodeUncordoned
  <2>2. ObjectInv' /\ KeptInv'
    BY <1>1, <2>1, Zenon DEF ObjectInv, KeptInv, NoNM
  <2>3. Asking => Us \notin Holders(nm)
    BY <2>1, Zenon DEF KeptInv, Holders
  <2>4. QED
    BY <1>1, <1>2, <2>2, <2>3, ObjectChanged, Zenon
<1>5. ASSUME NEW o \in Others, otherAsks(o) PROVE HoldInv'
  <2>1. /\ config.defaultPrefix /\ drained' = drained
        /\ nm' = IF nm.exists THEN [nm EXCEPT !.additional = @ \cup {o}]
                              ELSE [NoNM EXCEPT !.exists = TRUE, !.owner = o]
    BY <1>5, Zenon DEF otherAsks
  <2>2. ObjectInv' /\ KeptInv'
    BY <1>1, <2>1, Zenon DEF ObjectInv, KeptInv, Asking, NoNM, TypeOK, NMType
  <2>3. Us \in Holders(nm) => Us \in Holders(nm') /\ nm'.ready = nm.ready
    BY <2>1, Zenon DEF Holders, TypeOK, NMType
  <2>4. QED
    BY <1>1, <1>2, <2>2, <2>3, ObjectChanged, Zenon
<1>6. ASSUME NEW o \in Others, otherReleases(o) PROVE HoldInv'
  <2>1. /\ drained' = drained /\ o # Us
        /\ nm' = IF nm.owner = o THEN [nm EXCEPT !.deleting = TRUE]
                                 ELSE [nm EXCEPT !.additional = @ \ {o}]
    BY <1>6, Zenon DEF otherReleases
  <2>2. ObjectInv' /\ KeptInv'
    BY <1>1, <2>1, Zenon DEF ObjectInv, KeptInv, Asking, TypeOK, NMType
  <2>3. Us \in Holders(nm) => Us \in Holders(nm') /\ nm'.ready = nm.ready
    BY <2>1, Zenon DEF Holders, TypeOK, NMType
  <2>4. QED
    BY <1>1, <1>2, <2>2, <2>3, ObjectChanged, Zenon
<1>7. QED
  BY <1>3, <1>4, <1>5, <1>6, Zenon

LEMMA NextHold ==
  ASSUME Turnaround = "afterRemoval", TypeOK, FreshInv, HoldInv, [Next]_vars
  PROVE  HoldInv'
<1> USE DEF annotations, maintenance, copies
<1>1. CASE UNCHANGED vars
  BY <1>1, HoldKept, Zenon DEF vars
<1>2. ASSUME NEW k \in Key, notExternal(k) \/ retryLater(k) PROVE HoldInv'
  <2>1. \A j \in Key : pc'[j] \in {pc[j], "idle"}
    BY <1>2, Zenon DEF notExternal, retryLater, Goto, TypeOK
  <2>2. QED
    BY <1>2, <2>1, HoldKept, Zenon DEF notExternal, retryLater
<1>3. CASE operatorRestarts \/ sriovUsesExternalDrainer
  BY <1>3, HoldKept, Zenon DEF operatorRestarts, sriovUsesExternalDrainer
<1>4. ASSUME NEW k \in Key, ensureAnnotationExists(k) PROVE HoldInv'
  <2> USE DEF HoldInv
  <2>1. /\ UNCHANGED <<nm, drained, config, asked, got>> /\ pc'[k] = "idle" /\ pc[k] = "read"
        /\ \A j \in Key : j # k => pc'[j] = pc[j]
        /\ current' = "Complete" => current = "Complete"
    BY <1>4, Zenon DEF ensureAnnotationExists, TypeOK
  <2>2. request' = request \/ (request = "" /\ request' = "Idle")
    BY <1>4, Zenon DEF ensureAnnotationExists, AskedInv
  <2>3. AskedInv' /\ BranchInv'
    BY <2>1, <2>2, Zenon DEF AskedInv, BranchInv, Asking
  <2>4. ObjectInv' /\ KeptInv'
    BY <2>1, <2>2, Zenon DEF ObjectInv, KeptInv, Asking
  <2>5. GotInv' /\ AnswerInv'
    BY <2>1, <2>2, Zenon DEF GotInv, AnswerInv, NeedsDrain, Held
  <2>6. QED
    BY <2>3, <2>4, <2>5, Zenon
<1>5. ASSUME NEW k \in Key, handleNodeDrainOrReboot(k) PROVE HoldInv'
  <2> USE DEF HoldInv
  <2>1. /\ UNCHANGED <<request, nm, drained, config, asked, got>> /\ pc'[k] = "idle" /\ pc[k] = "complete"
        /\ \A j \in Key : j # k => pc'[j] = pc[j]
    BY <1>5, Zenon DEF handleNodeDrainOrReboot, TypeOK
  <2>2. AskedInv' /\ BranchInv'
    BY <2>1, Zenon DEF AskedInv, BranchInv, Asking
  <2>3. ObjectInv' /\ KeptInv'
    BY <2>1, Zenon DEF ObjectInv, KeptInv, Asking
  <2>4. GotInv' /\ AnswerInv'
    BY <2>1, Zenon DEF GotInv, AnswerInv, NeedsDrain, Held
  <2>5. QED
    BY <2>2, <2>3, <2>4, Zenon
<1>6. QED
  BY <1>1, <1>2, <1>3, <1>4, <1>5, ReadsKeep, RequestKeeps, ReleaseKeeps, DaemonKeeps, OthersKeep, Zenon DEF Next, Pass

\* If the daemon reacts to an answer no sooner than the passes have ended, and
\* asks again no sooner than what the last drain left is removed, then a node
\* whose drain was answered Complete is drained as long as the request stands:
\* whoever else joins, leaves or deletes the shared object, however stale what
\* the two passes over the node have read, and whether or not the daemon takes
\* requests back.
THEOREM CompleteIsDrained ==
  ASSUME Turnaround = "afterRemoval"
  PROVE  Spec => []CompleteMeansDrained
<1>1. Init => HoldInv
  <2> SUFFICES ASSUME Init PROVE HoldInv
    BY Zenon
  <2>1. /\ request = "" /\ nm = NoNM
        /\ \A k \in Key : pc[k] = "idle" /\ got[k] = NoNM
    BY Zenon DEF Init
  <2>2. AskedInv /\ BranchInv /\ KeptInv /\ GotInv /\ AnswerInv
    BY <2>1, Zenon DEF AskedInv, BranchInv, KeptInv, GotInv, AnswerInv, NeedsDrain, Asking
  <2>3. ObjectInv
    <3>1. ~NoNM.ready /\ NoNM.owner = Us
      BY Zenon DEF NoNM
    <3>2. QED
      BY <2>1, <3>1, Zenon DEF ObjectInv
  <2>4. QED
    BY <2>2, <2>3, Zenon DEF HoldInv
<1>2. TypeOK /\ FreshInv /\ HoldInv /\ [Next]_vars => HoldInv'
  BY NextHold, Zenon
<1>3. HoldInv => CompleteMeansDrained
  BY Zenon DEF HoldInv, AnswerInv, ObjectInv, Held, CompleteMeansDrained
<1>4. QED
  BY <1>1, <1>2, <1>3, InitType, NextType, PTL DEF Spec

-----------------------------------------------------------------------------
(***************************************************************************)
(* A node that is idle is given back.                                       *)
(***************************************************************************)

\* What is left of our claim on the node is an object being deleted.
Released == Us \in Holders(nm) => nm.owner = Us /\ nm.deleting

\* The claim is given up before the node is said to be idle.  What a pass has
\* read is enough to give it up: while the daemon does not ask, we do not come
\* to hold an object, nor does one of ours lose its deletion mark.
ReleaseInv ==
  /\ ~Asking /\ current \in {"", "Idle"} => Released
  /\ \A k \in Key : pc[k] = "restore" => Released
  /\ \A k \in Key : pc[k] = "release" /\ Us \in Holders(nm) =>
       /\ Us \in Holders(got[k])
       /\ got[k].owner = Us => nm.owner = Us /\ (got[k].deleting => nm.deleting)

\* A step after which the daemon asks for a drain owes nothing.
LEMMA AskingOwesNothing ==
  ASSUME BranchInv, Asking
  PROVE  ReleaseInv
  BY Zenon DEF BranchInv, Asking, ReleaseInv

\* Steps that leave requests as they were read, with every pass in its branch.
LEMMA BranchKept ==
  ASSUME AskedInv, BranchInv, UNCHANGED <<request, asked>>,
         \A j \in Key : \/ pc'[j] \in {pc[j], "idle"}
                        \/ pc[j] \in {"drain", "request"} /\ pc'[j] \in {"request", "complete"}
                        \/ pc[j] \in {"undrain", "release"} /\ pc'[j] \in {"release", "restore"}
  PROVE  AskedInv' /\ BranchInv'
<1>1. AskedInv'
  BY Zenon DEF AskedInv
<1>2. BranchInv'
  BY Zenon DEF BranchInv, Asking
<1>3. QED
  BY <1>1, <1>2, Zenon

LEMMA PassBranch ==
  ASSUME TypeOK, AskedInv, BranchInv, NEW k \in Key, Pass(k)
  PROVE  AskedInv' /\ BranchInv'
<1> USE DEF annotations, copies
<1>1. CASE Reconcile(k)
  <2>1. /\ request' = request /\ asked'[k] = request /\ pc'[k] = "read"
        /\ \A j \in Key : j # k => asked'[j] = asked[j] /\ pc'[j] = pc[j]
    BY <1>1, Zenon DEF Reconcile, TypeOK
  <2>2. QED
    BY <2>1, Zenon DEF AskedInv, BranchInv, Asking
<1>2. CASE choose(k)
  <2>1. /\ UNCHANGED <<request, asked>> /\ pc'[k] = NextStep(asked[k]) /\ asked[k] = request
        /\ request # "" /\ current # "" /\ \A j \in Key : j # k => pc'[j] = pc[j]
    BY <1>2, Zenon DEF choose, AskedInv, TypeOK
  <2>2. /\ pc'[k] \in {"idle", "drain", "undrain", "complete"}
        /\ pc'[k] = "undrain" => request = "Idle"
        /\ pc'[k] \in {"drain", "complete"} => Asking
    BY <2>1, Zenon DEF NextStep, Asking, TypeOK, Request
  <2>3. QED
    BY <2>1, <2>2, Zenon DEF AskedInv, BranchInv, Asking
<1>3. CASE ensureAnnotationExists(k)
  <2>1. /\ asked' = asked /\ pc'[k] = "idle" /\ \A j \in Key : j # k => pc'[j] = pc[j]
        /\ request' = request \/ (request = "" /\ request' = "Idle")
    BY <1>3, Zenon DEF ensureAnnotationExists, AskedInv, TypeOK
  <2>2. QED
    BY <2>1, Zenon DEF AskedInv, BranchInv, Asking
<1>4. CASE checkForExistingNodeMaintenance(k)
  BY <1>4, BranchKept, Zenon DEF checkForExistingNodeMaintenance, TypeOK
<1>5. CASE createNodeMaintenance(k) \/ reuseNodeMaintenance(k) \/ joinNodeMaintenance(k)
  <2>1. /\ pc[k] = "request" /\ pc'[k] \in {"idle", "complete"} /\ UNCHANGED <<request, asked>>
        /\ \A j \in Key : j # k => pc'[j] = pc[j]
    BY <1>5, Zenon DEF createNodeMaintenance, reuseNodeMaintenance, joinNodeMaintenance, Goto, Answer, TypeOK
  <2>2. QED
    BY <2>1, BranchKept, Zenon
<1>6. CASE deleteNodeMaintenance(k) \/ leaveNodeMaintenance(k)
  <2>1. /\ pc[k] = "release" /\ pc'[k] \in {"idle", "restore"} /\ UNCHANGED <<request, asked>>
        /\ \A j \in Key : j # k => pc'[j] = pc[j]
    BY <1>6, Zenon DEF deleteNodeMaintenance, leaveNodeMaintenance, Goto, TypeOK
  <2>2. QED
    BY <2>1, BranchKept, Zenon
<1>7. CASE notExternal(k) \/ handleNodeDrainOrReboot(k) \/ handleNodeIdle(k)
  BY <1>7, BranchKept, Zenon DEF notExternal, handleNodeDrainOrReboot, handleNodeIdle, TypeOK
<1>8. QED
  BY <1>1, <1>2, <1>3, <1>4, <1>5, <1>6, <1>7, Zenon DEF Pass

LEMMA NextBranch ==
  ASSUME Turnaround # "any", TypeOK, AskedInv, BranchInv, [Next]_vars
  PROVE  AskedInv' /\ BranchInv'
<1> USE DEF annotations, copies
<1>1. CASE \E k \in Key : Pass(k)
  BY <1>1, PassBranch, Zenon
<1>2. CASE daemonDone \/ \E r \in {"Drain", "Reboot"} : daemonAsks(r)
  <2>1. \A k \in Key : pc'[k] = "idle"
    BY <1>2, Zenon DEF daemonDone, daemonAsks, Settled
  <2>2. QED
    BY <2>1, Zenon DEF AskedInv, BranchInv
<1>3. CASE UNCHANGED vars \/ operatorRestarts \/ sriovUsesExternalDrainer \/ nodeDrained \/ nodeUncordoned
  BY <1>3, BranchKept, Zenon DEF vars, operatorRestarts, sriovUsesExternalDrainer, nodeDrained, nodeUncordoned
<1>4. ASSUME NEW o \in Others, otherAsks(o) \/ otherReleases(o) PROVE AskedInv' /\ BranchInv'
  BY <1>4, BranchKept, Zenon DEF otherAsks, otherReleases
<1>5. ASSUME NEW k \in Key, retryLater(k) PROVE AskedInv' /\ BranchInv'
  BY <1>5, BranchKept, Zenon DEF retryLater, Goto, TypeOK
<1>6. QED
  BY <1>1, <1>2, <1>3, <1>4, <1>5, Zenon DEF Next

\* Steps by which we come to hold nothing, and no pass comes to release.
LEMMA ClaimShrinks ==
  ASSUME ReleaseInv, UNCHANGED got,
         ~Asking' /\ current' \in {"", "Idle"} => ~Asking /\ current \in {"", "Idle"},
         \A j \in Key : pc'[j] \in {"restore", "release"} => pc'[j] = pc[j],
         Us \in Holders(nm') => /\ Us \in Holders(nm)
                                /\ nm.owner = Us => nm'.owner = Us /\ (nm.deleting => nm'.deleting)
  PROVE  ReleaseInv'
<1> USE DEF ReleaseInv
<1>1. Released => Released'
  BY Zenon DEF Released
<1>2. \A j \in Key : pc'[j] = "restore" => Released'
  BY <1>1, Zenon
<1>3. ASSUME NEW j \in Key, pc'[j] = "release", Us \in Holders(nm')
      PROVE  /\ Us \in Holders(got'[j])
             /\ got'[j].owner = Us => nm'.owner = Us /\ (got'[j].deleting => nm'.deleting)
  BY <1>3, Zenon
<1>4. QED
  BY <1>1, <1>2, <1>3, Zenon

\* The steps by which a pass releases the node.
LEMMA ReleaseStep ==
  ASSUME TypeOK, FreshInv, BranchInv, ReleaseInv, NEW k \in Key,
         deleteNodeMaintenance(k) \/ leaveNodeMaintenance(k) \/ handleNodeIdle(k)
  PROVE  ReleaseInv'
<1> USE DEF annotations, maintenance, copies
<1>1. /\ UNCHANGED <<request, got>> /\ (Asking' <=> Asking)
      /\ \A j \in Key : j # k => pc'[j] = pc[j]
  BY Zenon DEF deleteNodeMaintenance, leaveNodeMaintenance, handleNodeIdle, Goto, TypeOK, Asking
<1>2. CASE handleNodeIdle(k)
  <2>1. nm' = nm /\ pc'[k] = "idle" /\ Released
    BY <1>2, Zenon DEF handleNodeIdle, ReleaseInv, TypeOK
  <2>2. Released'
    BY <2>1, Zenon DEF Released
  <2>3. QED
    BY <1>1, <2>1, <2>2, Zenon DEF ReleaseInv
<1>3. CASE leaveNodeMaintenance(k)
  <2>1. nm' = nm \/ (got[k] = nm /\ nm' = [nm EXCEPT !.additional = nm.additional \ {Us}])
    BY <1>3, Zenon DEF leaveNodeMaintenance, Write, Locked, FreshInv
  <2>2. /\ nm'.owner = nm.owner /\ nm'.deleting = nm.deleting /\ nm'.exists = nm.exists
        /\ nm'.additional \subseteq nm.additional
    BY <2>1, Zenon DEF TypeOK, NMType
  <2>3. current' = current /\ pc'[k] = "idle"
    BY <1>3, Zenon DEF leaveNodeMaintenance, Goto, TypeOK
  <2>4. QED
    BY <1>1, <2>2, <2>3, ClaimShrinks, Zenon DEF Holders
<1>4. CASE deleteNodeMaintenance(k)
  <2>1. /\ pc[k] = "release" /\ current' = current /\ pc'[k] \in {"idle", "restore"}
        /\ ~got[k].exists \/ got[k].owner = Us
        /\ nm' = nm \/ nm' = [nm EXCEPT !.deleting = TRUE]
    BY <1>4, Zenon DEF deleteNodeMaintenance, Goto, Write, TypeOK
  <2>2. /\ nm'.owner = nm.owner /\ nm'.exists = nm.exists /\ nm'.additional = nm.additional
        /\ nm.deleting => nm'.deleting
    BY <2>1, Zenon DEF TypeOK, NMType
  <2>3. Holders(nm') = Holders(nm)
    BY <2>2, Zenon DEF Holders
  <2>4. Released'
    <3> SUFFICES ASSUME Us \in Holders(nm) PROVE nm'.owner = Us /\ nm'.deleting
      BY <2>3, Zenon DEF Released
    <3>1. nm.exists /\ got[k].exists /\ nm.owner = Us /\ (got[k].deleting => nm.deleting)
      BY <2>1, Zenon DEF ReleaseInv, Holders
    <3>2. ~got[k].deleting => nm' = [nm EXCEPT !.deleting = TRUE]
      BY <1>4, <3>1, Zenon DEF deleteNodeMaintenance, Write
    <3>3. QED
      BY <2>2, <3>1, <3>2, Zenon DEF TypeOK, NMType
  <2>5. ASSUME NEW j \in Key, pc'[j] = "release", Us \in Holders(nm')
        PROVE  /\ Us \in Holders(got'[j])
               /\ got'[j].owner = Us => nm'.owner = Us /\ (got'[j].deleting => nm'.deleting)
    BY <1>1, <2>1, <2>2, <2>3, <2>5, Zenon DEF ReleaseInv
  <2>6. QED
    BY <2>4, <2>5, Zenon DEF ReleaseInv
<1>5. QED
  BY <1>2, <1>3, <1>4, Zenon

\* The maintenance operator and the other requestors do not act for us.
LEMMA OthersRelease ==
  ASSUME TypeOK, ReleaseInv,
         nodeDrained \/ nodeUncordoned \/ \E o \in Others : otherAsks(o) \/ otherReleases(o)
  PROVE  ReleaseInv'
<1> USE DrainAssumption DEF annotations, copies, Write
<1>1. UNCHANGED <<request, current, got, pc>>
  BY Zenon DEF nodeDrained, nodeUncordoned, otherAsks, otherReleases
<1>2. ASSUME Us \in Holders(nm')
      PROVE  Us \in Holders(nm) /\ (nm.owner = Us => nm'.owner = Us /\ (nm.deleting => nm'.deleting))
  <2>1. CASE nodeDrained
    BY <1>2, <2>1, Zenon DEF nodeDrained, Holders, TypeOK, NMType
  <2>2. CASE nodeUncordoned
    BY <1>2, <2>2, Zenon DEF nodeUncordoned, Holders, NoNM
  <2>3. ASSUME NEW o \in Others, otherAsks(o), nm.exists
        PROVE  Us \in Holders(nm) /\ (nm.owner = Us => nm'.owner = Us /\ (nm.deleting => nm'.deleting))
    BY <1>2, <2>3, Zenon DEF otherAsks, Holders, TypeOK, NMType
  <2>4. ASSUME NEW o \in Others, otherAsks(o), ~nm.exists PROVE FALSE
    <3>1. nm' = [NoNM EXCEPT !.exists = TRUE, !.owner = o]
      BY <2>4, Zenon DEF otherAsks
    <3>2. nm'.owner = o /\ nm'.additional = {}
      BY <3>1, Zenon DEF NoNM
    <3>3. QED
      BY <1>2, <3>2, Zenon DEF Holders
  <2>5. ASSUME NEW o \in Others, otherReleases(o)
        PROVE  Us \in Holders(nm) /\ (nm.owner = Us => nm'.owner = Us /\ (nm.deleting => nm'.deleting))
    <3>1. /\ nm'.exists = nm.exists /\ nm'.owner = nm.owner /\ nm'.additional \subseteq nm.additional
          /\ nm.deleting => nm'.deleting
      BY <2>5, Zenon DEF otherReleases, TypeOK, NMType
    <3>2. QED
      BY <1>2, <3>1, Zenon DEF Holders
  <2>6. QED
    BY <2>1, <2>2, <2>3, <2>4, <2>5, Zenon
<1>3. QED
  BY <1>1, <1>2, ClaimShrinks, Zenon DEF Asking

LEMMA NextRelease ==
  ASSUME ~Cancels, Turnaround # "any", TypeOK, FreshInv, AskedInv, BranchInv, ReleaseInv, [Next]_vars
  PROVE  ReleaseInv'
<1> USE DEF annotations, maintenance, copies
<1>1. BranchInv'
  BY NextBranch, Zenon
<1>2. CASE Asking'
  BY <1>1, <1>2, AskingOwesNothing, PTL
<1>3. CASE ~Asking'
  <2>1. CASE UNCHANGED vars \/ operatorRestarts \/ sriovUsesExternalDrainer
    BY <1>3, <2>1, ClaimShrinks, Zenon DEF vars, operatorRestarts, sriovUsesExternalDrainer, Asking
  <2>2. ASSUME NEW k \in Key, retryLater(k) \/ Reconcile(k) \/ notExternal(k) PROVE ReleaseInv'
    <3>1. UNCHANGED <<request, current, nm, got>> /\ \A j \in Key : pc'[j] \in {pc[j], "idle", "read"}
      BY <2>2, Zenon DEF retryLater, Reconcile, notExternal, Goto, TypeOK
    <3>2. QED
      BY <3>1, ClaimShrinks, Zenon DEF Asking
  <2>3. ASSUME NEW k \in Key, choose(k) PROVE ReleaseInv'
    <3>1. NextStep(asked[k]) \in {"idle", "undrain", "drain", "complete"}
      BY <2>3, Zenon DEF choose, NextStep, TypeOK
    <3>2. /\ UNCHANGED <<request, current, nm, got>>
          /\ \A j \in Key : pc'[j] \in {"restore", "release"} => pc'[j] = pc[j]
      BY <2>3, <3>1, Zenon DEF choose, TypeOK
    <3>3. QED
      BY <3>2, ClaimShrinks, Zenon DEF Asking
  <2>4. ASSUME NEW k \in Key, ensureAnnotationExists(k) PROVE ReleaseInv'
    <3>1. /\ UNCHANGED <<nm, got>> /\ \A j \in Key : pc'[j] \in {pc[j], "idle"}
          /\ current' = current \/ (current = "" /\ current' = "Idle")
          /\ request' = request \/ (request = "" /\ request' = "Idle")
      BY <2>4, Zenon DEF ensureAnnotationExists, AskedInv, TypeOK
    <3>2. QED
      BY <1>3, <3>1, ClaimShrinks, Zenon DEF Asking
  <2>5. ASSUME NEW k \in Key, checkForExistingNodeMaintenance(k) PROVE ReleaseInv'
    <3>1. /\ UNCHANGED <<request, current, nm>> /\ got'[k] = nm
          /\ pc'[k] \in {"request", "release"}
          /\ \A j \in Key : j # k => got'[j] = got[j] /\ pc'[j] = pc[j]
      BY <2>5, Zenon DEF checkForExistingNodeMaintenance, TypeOK
    <3>2. ~Asking' /\ current' \in {"", "Idle"} => Released'
      BY <3>1, Zenon DEF ReleaseInv, Released, Asking
    <3>3. \A j \in Key : pc'[j] = "restore" => Released'
      BY <3>1, Zenon DEF ReleaseInv, Released
    <3>4. ASSUME NEW j \in Key, pc'[j] = "release", Us \in Holders(nm')
          PROVE  /\ Us \in Holders(got'[j])
                 /\ got'[j].owner = Us => nm'.owner = Us /\ (got'[j].deleting => nm'.deleting)
      BY <3>1, <3>4, Zenon DEF ReleaseInv
    <3>5. QED
      BY <3>2, <3>3, <3>4, Zenon DEF ReleaseInv
  <2>6. ASSUME NEW k \in Key,
               \/ createNodeMaintenance(k) \/ reuseNodeMaintenance(k) \/ joinNodeMaintenance(k)
               \/ handleNodeDrainOrReboot(k)
        PROVE  FALSE
    <3>1. pc[k] \in {"request", "complete"} /\ request' = request
      BY <2>6, Zenon DEF createNodeMaintenance, reuseNodeMaintenance, joinNodeMaintenance, handleNodeDrainOrReboot
    <3>2. QED
      BY <1>3, <3>1, Zenon DEF BranchInv, Asking
  <2>7. CASE daemonDone
    <3>1. current' = "Complete" /\ \A j \in Key : pc'[j] = "idle"
      BY <2>7, Zenon DEF daemonDone, Settled
    <3>2. QED
      BY <3>1, Zenon DEF ReleaseInv
  <2>8. ASSUME NEW r \in {"Drain", "Reboot"}, daemonAsks(r) PROVE FALSE
    BY <1>3, <2>8, Zenon DEF daemonAsks, Asking
  <2>9. QED
    BY <2>1, <2>2, <2>3, <2>4, <2>5, <2>6, <2>7, <2>8, ReleaseStep, OthersRelease, Zenon DEF Next, Pass
<1>4. QED
  BY <1>2, <1>3, Zenon

\* If the daemon takes no request back before it is answered, and reacts to an
\* answer no sooner than the passes have ended, then a node that is said to be
\* idle is given back: however the two passes over the node interleave with
\* each other, with faults and restarts, and with what the other requestors do
\* to the shared object.
THEOREM IdleIsReleased ==
  ASSUME ~Cancels, Turnaround # "any"
  PROVE  Spec => []IdleMeansReleased
<1>1. Init => AskedInv /\ BranchInv /\ ReleaseInv
  <2> SUFFICES ASSUME Init PROVE AskedInv /\ BranchInv /\ ReleaseInv
    BY Zenon
  <2>1. nm = NoNM /\ \A k \in Key : pc[k] = "idle"
    BY Zenon DEF Init
  <2>2. Holders(nm) = {}
    BY <2>1, Zenon DEF Holders, NoNM
  <2>3. QED
    BY <2>1, <2>2, Zenon DEF AskedInv, BranchInv, ReleaseInv, Released
<1>2. TypeOK /\ FreshInv /\ AskedInv /\ BranchInv /\ ReleaseInv /\ [Next]_vars
        => AskedInv' /\ BranchInv' /\ ReleaseInv'
  BY NextBranch, NextRelease, Zenon
<1>3. ReleaseInv => IdleMeansReleased
  BY Zenon DEF ReleaseInv, Released, IdleMeansReleased, Asking
<1>4. QED
  BY <1>1, <1>2, <1>3, InitType, NextType, PTL DEF Spec

-----------------------------------------------------------------------------
(***************************************************************************)
(* No request is forgotten, for any daemon.                                 *)
(***************************************************************************)

\* The node state answers what the node asks for.
Answered == (Asking /\ current = "Complete") \/ (request = "Idle" /\ current = "Idle")

\* A pass over the key is due, or one is under way that works on the request
\* as it is now and will answer it or be repeated.
Pending(k) ==
  \/ queued[k]
  \/ pc[k] = "read" /\ asked[k] = request
  \/ pc[k] \in {"drain", "request", "complete"} /\ Asking
  \/ pc[k] \in {"undrain", "release", "restore"} /\ request = "Idle"

PendingInv == external => Answered \/ \E k \in Key : Pending(k)

\* What a step has queued is pending.
LEMMA WakePends ==
  ASSUME NEW keys, Wake(keys)
  PROVE  /\ \A j \in Key : queued[j] => queued'[j]
         /\ \A j \in Key : j \in keys => queued'[j]
  BY Zenon DEF Wake

\* Steps that leave the request and the answer alone, and let what is pending
\* be so.
LEMMA PendingKept ==
  ASSUME PendingInv, UNCHANGED <<external, request, current>>,
         \A j \in Key : Pending(j) => Pending(j)'
  PROVE  PendingInv'
  BY Zenon DEF PendingInv, Answered, Asking

\* A pass leaves the other one where it is.
LEMMA OtherPassPends ==
  ASSUME NEW j \in Key, Pending(j), UNCHANGED request,
         queued[j] => queued'[j], pc'[j] = pc[j], asked'[j] = asked[j]
  PROVE  Pending(j)'
  BY Zenon DEF Pending, Asking

\* A pass that goes on, or ends to be repeated, stays pending.
LEMMA GotoPends ==
  ASSUME TypeOK, NEW k \in Key, NEW step, Goto(k, step), UNCHANGED <<request, asked>>,
         Pending(k) => \/ step = "idle"
                       \/ step = "complete" /\ Asking
                       \/ step = "restore" /\ request = "Idle"
                       \/ queued[k]
  PROVE  \A j \in Key : Pending(j) => Pending(j)'
<1>1. \A j \in Key : (queued[j] => queued'[j]) /\ (j # k => pc'[j] = pc[j])
  BY WakePends, Zenon DEF Goto, TypeOK
<1>2. pc'[k] = step /\ (step = "idle" => queued'[k])
  BY WakePends, Zenon DEF Goto, TypeOK
<1>3. Pending(k) => Pending(k)'
  BY <1>1, <1>2, Zenon DEF Pending, Asking
<1>4. ASSUME NEW j \in Key, j # k, Pending(j) PROVE Pending(j)'
  BY <1>1, <1>4, OtherPassPends, Zenon
<1>5. QED
  BY <1>3, <1>4, Zenon

\* The steps of a pass that write the answer: one that changes it is an event.
LEMMA AnswerPends ==
  ASSUME TypeOK, PendingInv, NEW k \in Key, handleNodeDrainOrReboot(k) \/ handleNodeIdle(k)
  PROVE  PendingInv'
<1> USE DEF annotations, maintenance, copies
<1>1. /\ UNCHANGED <<external, request, asked>> /\ pc[k] \in {"complete", "restore"}
      /\ current' = IF pc[k] = "complete" THEN "Complete" ELSE "Idle"
      /\ \A j \in Key : (queued[j] => queued'[j]) /\ (j # k => pc'[j] = pc[j])
      /\ current' # current => queued'["state"]
  BY WakePends, Zenon DEF handleNodeDrainOrReboot, handleNodeIdle, Key, TypeOK
<1>2. CASE current' # current
  BY <1>1, <1>2, Zenon DEF PendingInv, Pending, Key
<1>3. CASE current' = current
  <2> SUFFICES ASSUME external, ~Answered' PROVE \E j \in Key : Pending(j)'
    BY <1>1, Zenon DEF PendingInv
  <2>1. PICK j \in Key : Pending(j)
    BY <1>1, <1>3, Zenon DEF PendingInv, Answered, Asking
  <2>2. CASE j # k
    BY <1>1, <2>1, <2>2, OtherPassPends, Zenon
  <2>3. CASE j = k
    <3>1. queued[k]
      BY <1>1, <2>1, <2>3, Zenon DEF Pending, Answered, Asking
    <3>2. QED
      BY <1>1, <3>1, Zenon DEF Pending
  <2>4. QED
    BY <2>2, <2>3, Zenon
<1>4. QED
  BY <1>2, <1>3, Zenon

LEMMA PassPends ==
  ASSUME TypeOK, PendingInv, NEW k \in Key, Pass(k)
  PROVE  PendingInv'
<1> USE DEF annotations, maintenance, copies
<1>1. CASE Reconcile(k)
  <2>1. /\ UNCHANGED <<external, request, current>> /\ asked'[k] = request /\ pc'[k] = "read"
        /\ \A j \in Key : j # k => asked'[j] = asked[j] /\ pc'[j] = pc[j] /\ queued'[j] = queued[j]
    BY <1>1, Zenon DEF Reconcile, TypeOK
  <2>2. Pending(k)'
    BY <2>1, Zenon DEF Pending
  <2>3. QED
    BY <2>2, Zenon DEF PendingInv
<1>2. CASE notExternal(k)
  BY <1>2, Zenon DEF notExternal, PendingInv
<1>3. CASE ensureAnnotationExists(k)
  <2>1. queued'[k]
    BY <1>3, WakePends, Zenon DEF ensureAnnotationExists
  <2>2. QED
    BY <2>1, Zenon DEF PendingInv, Pending
<1>4. CASE choose(k)
  <2>1. /\ UNCHANGED <<external, request, current, asked, queued>> /\ pc[k] = "read" /\ pc'[k] = NextStep(asked[k])
        /\ asked[k] # "" /\ current # "" /\ \A j \in Key : j # k => pc'[j] = pc[j]
    BY <1>4, Zenon DEF choose, TypeOK
  <2>2. ASSUME asked[k] = request PROVE Answered \/ Pending(k)'
    <3>1. CASE request = "Idle"
      <4>1. Answered \/ NextStep(request) = "undrain"
        BY <2>1, <3>1, Zenon DEF NextStep, Answered, TypeOK
      <4>2. QED
        BY <2>1, <2>2, <3>1, <4>1, Zenon DEF Pending
    <3>2. CASE request # "Idle"
      <4>1. Asking
        BY <2>1, <2>2, <3>2, Zenon DEF Asking, TypeOK, Request
      <4>2. Answered \/ NextStep(request) \in {"drain", "complete"}
        BY <3>2, <4>1, Zenon DEF NextStep, Answered
      <4>3. QED
        BY <2>1, <2>2, <4>1, <4>2, Zenon DEF Pending, Asking
    <3>3. QED
      BY <3>1, <3>2, Zenon
  <2>3. ASSUME NEW j \in Key, Pending(j) PROVE Answered \/ Pending(j)'
    <3>1. CASE j # k
      BY <2>1, <2>3, <3>1, OtherPassPends, Zenon
    <3>2. CASE j = k
      BY <2>1, <2>2, <2>3, <3>2, Zenon DEF Pending
    <3>3. QED
      BY <3>1, <3>2, Zenon
  <2>4. Answered => Answered'
    BY <2>1, Zenon DEF Answered, Asking
  <2>5. QED
    BY <2>1, <2>3, <2>4, Zenon DEF PendingInv
<1>5. CASE checkForExistingNodeMaintenance(k)
  <2>1. /\ UNCHANGED <<external, request, current, asked, queued>>
        /\ pc[k] \in {"drain", "undrain"} /\ pc'[k] = IF pc[k] = "drain" THEN "request" ELSE "release"
        /\ \A j \in Key : j # k => pc'[j] = pc[j]
    BY <1>5, Zenon DEF checkForExistingNodeMaintenance, TypeOK
  <2>2. Pending(k) => Pending(k)'
    BY <2>1, Zenon DEF Pending, Asking
  <2>3. ASSUME NEW j \in Key, j # k, Pending(j) PROVE Pending(j)'
    BY <2>1, <2>3, OtherPassPends, Zenon
  <2>4. QED
    BY <2>1, <2>2, <2>3, PendingKept, Zenon
<1>6. CASE createNodeMaintenance(k) \/ reuseNodeMaintenance(k) \/ joinNodeMaintenance(k)
  <2>1. pc[k] = "request" /\ UNCHANGED <<external, request, current, asked>>
    BY <1>6, Zenon DEF createNodeMaintenance, reuseNodeMaintenance, joinNodeMaintenance
  <2>2. PICK step \in {"idle", "complete"} : Goto(k, step)
    BY <1>6, Zenon DEF createNodeMaintenance, reuseNodeMaintenance, joinNodeMaintenance, Answer
  <2>3. Pending(k) => step = "idle" \/ (step = "complete" /\ Asking) \/ queued[k]
    BY <2>1, <2>2, Zenon DEF Pending
  <2>4. QED
    BY <2>1, <2>2, <2>3, GotoPends, PendingKept, Zenon
<1>7. CASE deleteNodeMaintenance(k) \/ leaveNodeMaintenance(k)
  <2>1. pc[k] = "release" /\ UNCHANGED <<external, request, current, asked>>
    BY <1>7, Zenon DEF deleteNodeMaintenance, leaveNodeMaintenance
  <2>2. PICK step \in {"idle", "restore"} : Goto(k, step)
    BY <1>7, Zenon DEF deleteNodeMaintenance, leaveNodeMaintenance
  <2>3. Pending(k) => step = "idle" \/ (step = "restore" /\ request = "Idle") \/ queued[k]
    BY <2>1, <2>2, Zenon DEF Pending
  <2>4. QED
    BY <2>1, <2>2, <2>3, GotoPends, PendingKept, Zenon
<1>8. QED
  BY <1>1, <1>2, <1>3, <1>4, <1>5, <1>6, <1>7, AnswerPends, Zenon DEF Pass

LEMMA NextPends == TypeOK /\ PendingInv /\ [Next]_vars => PendingInv'
<1> SUFFICES ASSUME TypeOK, PendingInv, [Next]_vars PROVE PendingInv'
  BY Zenon
<1> USE DEF annotations, maintenance, copies
<1>1. CASE UNCHANGED vars
  <2>1. \A j \in Key : Pending(j) => Pending(j)'
    BY <1>1, OtherPassPends, Zenon DEF vars
  <2>2. QED
    BY <1>1, <2>1, PendingKept, Zenon DEF vars
<1>2. CASE \E k \in Key : Pass(k)
  BY <1>2, PassPends, Zenon
<1>3. ASSUME NEW k \in Key, retryLater(k) PROVE PendingInv'
  BY <1>3, GotoPends, PendingKept, Zenon DEF retryLater
<1>4. CASE operatorRestarts
  <2>1. queued'["state"]
    BY <1>4, Zenon DEF operatorRestarts, Key
  <2>2. QED
    BY <2>1, Zenon DEF PendingInv, Pending, Key
<1>5. CASE sriovUsesExternalDrainer \/ daemonDone \/ \E r \in {"Drain", "Reboot"} : daemonAsks(r)
  <2>1. \E k \in Key : queued'[k]
    BY <1>5, WakePends, Zenon DEF sriovUsesExternalDrainer, daemonDone, daemonAsks, Key
  <2>2. QED
    BY <2>1, Zenon DEF PendingInv, Pending
<1>6. CASE nodeDrained \/ nodeUncordoned \/ \E o \in Others : otherAsks(o) \/ otherReleases(o)
  <2>1. UNCHANGED <<external, request, current, queued, pc, asked>>
    BY <1>6, Zenon DEF nodeDrained, nodeUncordoned, otherAsks, otherReleases
  <2>2. \A j \in Key : Pending(j) => Pending(j)'
    BY <2>1, OtherPassPends, Zenon
  <2>3. QED
    BY <2>1, <2>2, PendingKept, Zenon
<1>7. QED
  BY <1>1, <1>2, <1>3, <1>4, <1>5, <1>6, Zenon DEF Next

\* When no pass is under way or due, the request of the node is answered.
\* This needs nothing of the daemon: it may ask, take a request back and ask
\* again under passes that have read something else.
THEOREM NothingForgotten == Spec => []QuietRequestAnswered
<1>1. Init => PendingInv
  <2> SUFFICES ASSUME Init PROVE queued["state"]
    BY Zenon DEF PendingInv, Pending, Key
  <2>1. QED
    BY Zenon DEF Init, Key
<1>2. PendingInv => QuietRequestAnswered
  BY Zenon DEF PendingInv, Pending, Answered, Asking, Quiet, QuietRequestAnswered
<1>3. QED
  BY <1>1, <1>2, InitType, NextType, NextPends, PTL DEF Spec

=============================================================================
