------------------------ MODULE PolicyPromiseProofs ------------------------
(***************************************************************************)
(* PolicySync implements PolicyPromise, and what is reported when nothing   *)
(* is left to do is true.                                                   *)
(***************************************************************************)
EXTENDS PolicyRefinement, PolicySyncProofs

-----------------------------------------------------------------------------
(***************************************************************************)
(* The refinement of PolicyPromise.                                         *)
(***************************************************************************)

asked == [p \in Policy |-> [g \in DOMAIN spec[p] |-> Wanted(p, spec[p][g])]]
have == [p \in Policy |-> [o \in DOMAIN obj[p] |-> obj[p][o].gen]]
claim == [p \in Policy |-> [gen |-> status[p].gen, ready |-> status[p].ready]]

LEMMA PromiseInit == Init => Promise!Init
<1> SUFFICES ASSUME Init PROVE Promise!Init
  BY Zenon
<1>1. asked = [p \in Policy |-> <<>>]
  BY DEF Init, asked
<1>2. claim = [p \in Policy |-> Promise!NoClaim]
  BY Zenon DEF Init, claim, NoStatus, Promise!NoClaim
<1>3. \A p \in Policy : \A o \in DOMAIN have[p] : have[p][o] = 0
  BY Zenon DEF Init, have, Gone
<1>4. QED
  BY <1>1, <1>2, <1>3, Zenon DEF Promise!Init, Init, asked, have, claim

\* The parts of the mapping that a step leaves alone.
LEMMA AskedKept == spec' = spec => asked' = asked
  BY Zenon DEF asked

LEMMA ClaimKept == status' = status => claim' = claim
  BY Zenon DEF claim

LEMMA HaveKept == obj' = obj => have' = have
  BY Zenon DEF have

LEMMA PromiseStutters ==
  ASSUME UNCHANGED <<asked, acting, have, taken, claim>>
  PROVE  UNCHANGED Promise!promise
  BY Zenon DEF Promise!promise, asked, have, claim

LEMMA HaveType ==
  ASSUME TypeOK, NEW p \in Policy
  PROVE  /\ DOMAIN have[p] = Objects(p) /\ \A o \in Objects(p) : have[p][o] = obj[p][o].gen
         /\ Promise!Wanted(p) = IF acting[p] = 0 THEN {} ELSE Asked(p)
<1>1. DOMAIN obj[p] = Objects(p)
  BY Zenon DEF TypeOK, PolicyOK
<1>2. acting[p] # 0 => acting[p] \in DOMAIN spec[p]
  <2>1. DOMAIN spec[p] = 1 .. Len(spec[p])
    BY DEF TypeOK, PolicyOK
  <2>2. QED
    BY <2>1, GenType
<1>3. QED
  BY <1>1, <1>2, Zenon DEF have, Promise!Wanted, Asked

\* One object of one policy changes.
LEMMA HaveStep ==
  ASSUME TypeOK, NEW p \in Policy, NEW o \in Objects(p), NEW v, ObjectStep(p, o, v)
  PROVE  have' = [have EXCEPT ![p][o] = v.gen]
<1>1. DOMAIN obj'[p] = Objects(p) /\ \A x \in Objects(p) : obj'[p][x] = IF x = o THEN v ELSE obj[p][x]
  BY Zenon DEF ObjectStep, TypeOK, PolicyOK
<1>2. DOMAIN have = Policy /\ DOMAIN have' = Policy
  BY Zenon DEF have
<1>3. \A q \in Policy \ {p} : have'[q] = have[q]
  BY Zenon DEF ObjectStep, have
<1>4. DOMAIN have[p] = Objects(p) /\ \A x \in Objects(p) : have[p][x] = obj[p][x].gen
  BY HaveType, Zenon
<1>5. have'[p] = [x \in Objects(p) |-> obj'[p][x].gen]
  BY <1>1, Zenon DEF have
<1>6. have'[p] = [have[p] EXCEPT ![o] = v.gen]
  BY <1>1, <1>4, <1>5
<1>7. PICK H : H = [have EXCEPT ![p][o] = v.gen]
  BY Zenon
<1>8. H = [q \in Policy |-> H[q]] /\ \A q \in Policy : H[q] = IF q = p THEN [have[p] EXCEPT ![o] = v.gen] ELSE have[q]
  BY <1>2, <1>7, Zenon
<1>9. have' = [q \in Policy |-> have'[q]]
  BY Zenon DEF have
<1>10. \A q \in Policy : have'[q] = H[q]
  BY <1>3, <1>6, <1>8, Zenon
<1>11. QED
  BY <1>7, <1>8, <1>9, <1>10, Zenon

LEMMA PromiseTake ==
  ASSUME Inv, NEW p \in Policy, NEW o \in Objects(p),
         daemonSetObserved(p, o) \/ podsChange(p, o) \/ garbageCollected(p, o) \/ deletedByHand(p, o)
  PROVE  [Promise!Next]_Promise!promise
<1>1. TypeOK /\ UNCHANGED <<spec, status, acting>>
  BY ClusterEffect, Zenon DEF Inv, users
<1>2. UNCHANGED <<asked, claim>>
  BY <1>1, AskedKept, ClaimKept, Zenon
<1>3. PICK v \in ObjectType :
        /\ ObjectStep(p, o, v)
        /\ \/ v = Gone /\ taken' = [taken EXCEPT ![p] = @ \cup {o}]
           \/ v.gen = obj[p][o].gen /\ taken' = taken
  BY <1>1, ClusterEffect, Zenon
<1>4. have' = [have EXCEPT ![p][o] = v.gen]
  BY <1>1, <1>3, HaveStep
<1>5. CASE v = Gone /\ taken' = [taken EXCEPT ![p] = @ \cup {o}]
  <2>1. Promise!Take(p, o)
    BY <1>1, <1>2, <1>4, <1>5, GoneType, Zenon DEF Promise!Take, asked, have, claim
  <2>2. o \in DOMAIN have[p]
    BY <1>1, HaveType, Zenon
  <2>3. QED
    BY <2>1, <2>2, Zenon DEF Promise!Next, have
<1>6. CASE v.gen = obj[p][o].gen /\ taken' = taken
  <2>1. have[p][o] = v.gen /\ have = [q \in Policy |-> have[q]] /\ have[p] = [x \in Objects(p) |-> have[p][x]]
    BY <1>1, <1>6, HaveType, Zenon DEF have
  <2>2. have' = have
    BY <1>4, <2>1, Zenon
  <2>3. QED
    BY <1>1, <1>2, <1>6, <2>2, PromiseStutters, Zenon
<1>7. QED
  BY <1>3, <1>5, <1>6, Zenon

LEMMA PromiseSubmit ==
  ASSUME Inv, NEW p \in Policy, NEW s \in Specs(p) \cup {NoPolicy}, Submit(p, s)
  PROVE  Promise!Next
<1>1. TypeOK /\ UNCHANGED <<acting, obj, taken>>
  BY Zenon DEF Inv, Submit, history
<1>2. have' = have
  BY <1>1, HaveKept, Zenon
<1>3. PICK n \in Nat : n = Len(spec[p]) /\ DOMAIN spec[p] = 1 .. n
  <2>1. spec[p] \in Seq(Specs(p) \cup {NoPolicy})
    BY <1>1, Zenon DEF TypeOK, PolicyOK
  <2>2. QED
    BY <2>1, LenProperties, Zenon
<1>4. /\ spec'[p] \in Seq(Specs(p) \cup {NoPolicy}) /\ Len(spec'[p]) = n + 1 /\ DOMAIN spec' = Policy
      /\ \A q \in Policy \ {p} : spec'[q] = spec[q]
      /\ \A g \in 1 .. n : spec'[p][g] = spec[p][g]
      /\ spec'[p] = Append(spec[p], s)
  BY <1>1, <1>3, SubmitEffect, Zenon
<1>5. DOMAIN spec'[p] = 1 .. n + 1
  BY <1>3, <1>4
<1>6. spec'[p][n + 1] = s
  <2>1. spec[p] \in Seq(Specs(p) \cup {NoPolicy})
    BY <1>1, Zenon DEF TypeOK, PolicyOK
  <2>2. QED
    BY <1>3, <1>4, <2>1, AppendProperties
<1>7. PICK want : want = Wanted(p, s)
  BY Zenon
<1>8. PICK f : f = [g \in 1 .. n |-> Wanted(p, spec[p][g])]
  BY Zenon
<1>9. asked[p] = f
  BY <1>3, <1>8, Zenon DEF asked
<1>10. asked'[p] = Append(f, want)
  <2>1. f \in Seq({f[g] : g \in 1 .. n} \cup {want}) /\ DOMAIN f = 1 .. n
    BY <1>3, <1>8, SeqDef
  <2>2. Len(f) = n
    <3>1. Len(f) \in Nat /\ DOMAIN f = 1 .. Len(f)
      BY <2>1, LenProperties, Zenon
    <3>2. \A a, b \in Nat : 1 .. a = 1 .. b => a = b
      OBVIOUS
    <3>3. QED
      BY <1>3, <2>1, <3>1, <3>2, Zenon
  <2>3. PICK F : F = Append(f, want)
    BY Zenon
  <2>4. /\ F \in Seq({f[g] : g \in 1 .. n} \cup {want}) /\ Len(F) = n + 1 /\ F[n + 1] = want
        /\ \A g \in 1 .. n : F[g] = f[g]
    BY <2>1, <2>2, <2>3, AppendProperties
  <2>5. F = [g \in 1 .. n + 1 |-> F[g]]
    BY <1>3, <2>4
  <2>6. asked'[p] = [g \in 1 .. n + 1 |-> Wanted(p, spec'[p][g])]
    BY <1>5, Zenon DEF asked
  <2>7. \A g \in 1 .. n + 1 : F[g] = Wanted(p, spec'[p][g])
    <3>1. ASSUME NEW g \in 1 .. n PROVE F[g] = Wanted(p, spec'[p][g])
      BY <1>4, <1>8, <2>4, <3>1, Zenon
    <3>2. F[n + 1] = Wanted(p, spec'[p][n + 1])
      BY <1>6, <1>7, <2>4, Zenon
    <3>3. QED
      BY <1>3, <3>1, <3>2
  <2>8. QED
    BY <2>3, <2>5, <2>6, <2>7, Zenon
<1>11. asked' = [asked EXCEPT ![p] = Append(@, want)]
  <2>1. \A q \in Policy \ {p} : asked'[q] = asked[q]
    BY <1>4, Zenon DEF asked
  <2>2. asked = [q \in Policy |-> asked[q]] /\ asked' = [q \in Policy |-> asked'[q]]
    BY Zenon DEF asked
  <2>3. QED
    BY <1>9, <1>10, <2>1, <2>2, Zenon
<1>12. claim' \in {claim, [claim EXCEPT ![p] = Promise!NoClaim]}
  <2>1. CASE s # NoPolicy
    <3>1. \A q \in Policy : status'[q] = status[q]
      BY <1>1, <2>1, Zenon DEF Submit, TypeOK
    <3>2. QED
      BY <3>1, Zenon DEF claim
  <2>2. CASE s = NoPolicy
    <3>1. \A q \in Policy : status'[q] = IF q = p THEN NoStatus ELSE status[q]
      BY <1>1, <2>2, Zenon DEF Submit, TypeOK
    <3>2. PICK c : c = Promise!NoClaim
      BY Zenon
    <3>3. c = [gen |-> NoStatus.gen, ready |-> NoStatus.ready]
      BY <3>2, Zenon DEF NoStatus, Promise!NoClaim
    <3>4. claim' = [claim EXCEPT ![p] = c]
      BY <3>1, <3>3, Zenon DEF claim
    <3>5. QED
      BY <3>2, <3>4, Zenon
  <2>3. QED
    BY <2>1, <2>2, Zenon
<1>13. Promise!Submit(p, want)
  BY <1>1, <1>2, <1>11, <1>12, Zenon DEF Promise!Submit, asked, have, claim
<1>14. want \subseteq DOMAIN have[p]
  BY <1>1, <1>7, HaveType, WantedType, Zenon DEF TypeOK
<1>15. QED
  BY <1>13, <1>14, Zenon DEF Promise!Next, have

LEMMA PromiseTakeUp ==
  ASSUME Inv, NEW p \in Policy, Reconcile(p)
  PROVE  [Promise!Next]_Promise!promise
<1>1. TypeOK /\ UNCHANGED <<spec, status, obj>>
  BY Zenon DEF Inv, Reconcile, users
<1>2. UNCHANGED <<asked, have, claim>>
  BY <1>1, AskedKept, ClaimKept, HaveKept, Zenon
<1>3. CASE UNCHANGED history
  BY <1>2, <1>3, PromiseStutters, Zenon DEF history
<1>4. CASE acting' = [acting EXCEPT ![p] = cache[p].gen] /\ taken' = [taken EXCEPT ![p] = {}]
  <2>1. Len(asked[p]) = Len(spec[p])
    <3>1. PICK n \in Nat : n = Len(spec[p]) /\ DOMAIN spec[p] = 1 .. n
      <4>1. spec[p] \in Seq(Specs(p) \cup {NoPolicy})
        BY <1>1, Zenon DEF TypeOK, PolicyOK
      <4>2. QED
        BY <4>1, LenProperties, Zenon
    <3>2. PICK f : f = asked[p]
      BY Zenon
    <3>3. f = [g \in 1 .. n |-> Wanted(p, spec[p][g])]
      BY <3>1, <3>2, Zenon DEF asked
    <3>4. f \in Seq({f[g] : g \in 1 .. n}) /\ DOMAIN f = 1 .. n
      BY <3>3, SeqDef
    <3>5. Len(f) \in Nat /\ DOMAIN f = 1 .. Len(f)
      BY <3>4, LenProperties, Zenon
    <3>6. \A a, b \in Nat : 1 .. a = 1 .. b => a = b
      OBVIOUS
    <3>7. QED
      BY <3>1, <3>2, <3>4, <3>5, <3>6, Zenon
  <2>2. cache[p].gen \in acting[p] .. Len(asked[p])
    BY <1>1, <2>1, GenType
  <2>3. Promise!TakeUp(p)
    BY <1>2, <1>4, <2>2, Zenon DEF Promise!TakeUp, asked, have, claim
  <2>4. QED
    BY <2>3, Zenon DEF Promise!Next
<1>5. QED
  BY <1>3, <1>4, Zenon DEF Reconcile

LEMMA PromiseDeploy ==
  ASSUME Inv, NEW t \in Thread, createOrUpdateObjs(t)
  PROVE  Promise!Next
<1>1. TypeOK /\ PassInv(t) /\ UNCHANGED <<spec, status, acting, taken>>
  BY Zenon DEF Inv, createOrUpdateObjs, users, history
<1>2. UNCHANGED <<asked, claim>>
  BY <1>1, AskedKept, ClaimKept, Zenon
<1>3. work[t].pc = "apply" /\ work[t].todo # <<>>
  BY Zenon DEF createOrUpdateObjs
<1>4. PICK p \in Policy : p = work[t].key
  BY <1>1, <1>3, PassType, Zenon
<1>5. PICK o : o = <<Comp(work[t]), Head(work[t].todo)>>
  BY Zenon
<1>6. work[t].gen = acting[p] /\ acting[p] # 0
  BY <1>1, <1>3, <1>4, Zenon DEF TypeOK, WorkOK
<1>7. o \in Objects(p) /\ o \in Asked(p)
  BY <1>1, <1>3, <1>4, <1>5, <1>6, ApplyObject, Zenon DEF Asked
<1>8. PICK m : m = mergeObjects(obj[p][o], acting[p])
  BY Zenon
<1>9. ObjectStep(p, o, m)
  BY <1>1, <1>4, <1>5, <1>6, <1>7, <1>8, ApplyType, Zenon
<1>10. m.gen = acting[p]
  BY <1>1, <1>7, <1>8, MergeType, Zenon
<1>11. have' = [have EXCEPT ![p][o] = acting[p]]
  BY <1>1, <1>7, <1>9, <1>10, HaveStep, Zenon
<1>12. o \in Promise!Wanted(p) /\ o \in DOMAIN have[p]
  BY <1>1, <1>6, <1>7, HaveType, Zenon
<1>13. Promise!Deploy(p, o)
  BY <1>1, <1>2, <1>11, <1>12, Zenon DEF Promise!Deploy, asked, have, claim
<1>14. QED
  BY <1>12, <1>13, Zenon DEF Promise!Next, have

LEMMA PromiseRemove ==
  ASSUME Inv, NEW t \in Thread, deleteStateRelatedObjects(t)
  PROVE  Promise!Next
<1>1. TypeOK /\ UNCHANGED <<spec, status, acting, taken>>
  BY SweepType, Zenon DEF Inv, users, history
<1>2. UNCHANGED <<asked, claim>>
  BY <1>1, AskedKept, ClaimKept, Zenon
<1>3. work[t].pc = "sweep"
  BY Zenon DEF deleteStateRelatedObjects
<1>4. PICK p \in Policy : p = work[t].key /\ work[t].gen = acting[p] /\ acting[p] # 0
  BY <1>1, <1>3, Zenon DEF TypeOK, WorkOK, WorkType
<1>5. PICK k \in Kind : /\ <<Comp(work[t]), k>> \in Objects(p) \ Wanted(p, spec[p][acting[p]])
                       /\ ObjectStep(p, <<Comp(work[t]), k>>, Gone)
  BY <1>1, <1>4, SweepType, Zenon
<1>6. PICK o : o = <<Comp(work[t]), k>>
  BY Zenon
<1>7. have' = [have EXCEPT ![p][o] = 0]
  BY <1>1, <1>5, <1>6, HaveStep, GoneType, Zenon
<1>8. o \notin Promise!Wanted(p) /\ o \in DOMAIN have[p]
  BY <1>1, <1>4, <1>5, <1>6, HaveType, Zenon DEF Asked
<1>9. Promise!Remove(p, o)
  BY <1>1, <1>2, <1>7, <1>8, Zenon DEF Promise!Remove, asked, have, claim
<1>10. QED
  BY <1>8, <1>9, Zenon DEF Promise!Next, have

\* A pass whose report is ready has everything in place that was not taken.
LEMMA ReadyPlaced ==
  ASSUME TypeOK, NEW t \in Thread, PassInv(t), work[t].pc = "status", Report(work[t]).ready
  PROVE  /\ \A i \in DOMAIN work[t].results : work[t].results[i] \in {"ready", "ignore"}
         /\ \A c \in Range(setup.of[work[t].key]) : Placed(work[t].key, c)
<1>1. PICK w : w = work[t]
  BY Zenon
<1>2. PICK p \in Policy : p = w.key
  BY <1>1, ReportType, Zenon
<1>3. w.results \in Seq({"ready", "notReady", "ignore", "error"}) /\ DOMAIN w.results = DOMAIN setup.of[p]
  BY <1>1, <1>2, ReportType, OfType, Zenon DEF TypeOK
<1>4. "False" \notin Range(computePolicyConditions(w.results))
  BY <1>1, Zenon DEF Report, ReadyCondition
<1>5. \A i \in DOMAIN w.results : Condition(w.results[i]) # "False"
  BY <1>4, Zenon DEF computePolicyConditions, Range
<1>6. \A i \in DOMAIN w.results : w.results[i] \in {"ready", "ignore"}
  BY <1>5, Zenon DEF Condition
<1>7. ResultsOK(w)
  BY <1>1, Zenon DEF PassInv
<1>8. \A i \in DOMAIN setup.of[p] : Placed(p, setup.of[p][i])
  BY <1>2, <1>3, <1>6, <1>7, Zenon DEF ResultsOK
<1>9. QED
  BY <1>1, <1>2, <1>6, <1>8, Zenon DEF Range

LEMMA PromiseReport ==
  ASSUME Inv, NEW t \in Thread, updatePolicyCRStatus(t)
  PROVE  [Promise!Next]_Promise!promise
<1>1. TypeOK /\ PassInv(t) /\ work[t].pc = "status" /\ UNCHANGED <<setup, spec, obj, acting, taken>>
  BY Zenon DEF Inv, updatePolicyCRStatus, users, history
<1>2. UNCHANGED <<asked, have>>
  BY <1>1, AskedKept, HaveKept, Zenon
<1>3. CASE status' = status
  BY <1>1, <1>2, <1>3, ClaimKept, PromiseStutters, Zenon
<1>4. CASE status' # status
  <2>1. PICK p \in Policy : p = work[t].key
    BY <1>1, ReportType, Zenon
  <2>2. PICK r : r = Report(work[t])
    BY Zenon
  <2>3. status' = [status EXCEPT ![p] = r]
    BY <1>4, <2>1, <2>2, Zenon DEF updatePolicyCRStatus
  <2>4. r.gen = acting[p] /\ r.ready \in BOOLEAN /\ acting[p] # 0
    BY <1>1, <2>1, <2>2, ReportType, ZenonT(60) DEF StatusType, TypeOK, WorkOK
  <2>5. claim' = [claim EXCEPT ![p] = [gen |-> acting[p], ready |-> r.ready]]
    <3>1. \A q \in Policy : status'[q] = IF q = p THEN r ELSE status[q]
      BY <1>1, <2>3, Zenon DEF TypeOK
    <3>2. QED
      BY <2>4, <3>1, Zenon DEF claim
  <2>6. ASSUME r.ready PROVE Promise!InPlace(p)
    <3>1. \A c \in Range(setup.of[p]) : Placed(p, c)
      BY <1>1, <2>1, <2>2, <2>6, ReadyPlaced, Zenon
    <3>2. \A o \in Objects(p) : o[1] \in Range(setup.of[p])
      BY <1>1, ObjectsType, Zenon DEF TypeOK
    <3>3. \A o \in Objects(p) \ taken[p] : obj[p][o].gen = IF o \in Asked(p) THEN acting[p] ELSE 0
      BY <3>1, <3>2, Zenon DEF Placed
    <3>4. Promise!Wanted(p) = Asked(p) /\ DOMAIN have[p] = Objects(p) /\ \A o \in Objects(p) : have[p][o] = obj[p][o].gen
      BY <1>1, <2>4, HaveType, Zenon
    <3>5. \A o \in DOMAIN have[p] \ taken[p] : have[p][o] = IF o \in Promise!Wanted(p) THEN acting[p] ELSE 0
      BY <3>3, <3>4, Zenon
    <3>6. QED
      BY <3>5, Zenon DEF Promise!InPlace, have
  <2>7. Promise!Report(p, r.ready)
    BY <1>1, <1>2, <2>5, <2>6, Zenon DEF Promise!Report, asked, have, claim
  <2>8. QED
    BY <2>4, <2>7, Zenon DEF Promise!Next
<1>5. QED
  BY <1>3, <1>4, Zenon

LEMMA PromiseNext == Inv /\ [Next]_vars => [Promise!Next]_Promise!promise
<1> SUFFICES ASSUME Inv, [Next]_vars PROVE [Promise!Next]_Promise!promise
  BY Zenon
<1>1. CASE UNCHANGED <<spec, status, obj, acting, taken>>
  BY <1>1, AskedKept, ClaimKept, HaveKept, PromiseStutters, Zenon
<1>2. ASSUME NEW t \in Thread,
             Sync(t) \/ sweepDone(t) \/ getSyncState(t) \/ callFails(t) \/ statusUpdateFails(t)
      PROVE  [Promise!Next]_Promise!promise
  BY <1>1, <1>2, Zenon DEF Sync, sweepDone, getSyncState, callFails, statusUpdateFails, users, history
<1>3. CASE operatorRestarts \/ crdInstalled \/ (\E q \in Policy : observe(q)) \/ UNCHANGED vars
  BY <1>1, <1>3, Zenon DEF operatorRestarts, crdInstalled, observe, users, history, vars
<1>4. CASE \E q \in Policy : userDeletes(q) \/ \E s \in Specs(q) : userSubmits(q, s)
  BY <1>4, PromiseSubmit, Zenon DEF userDeletes, userSubmits
<1>5. QED
  BY <1>2, <1>3, <1>4, PromiseTakeUp, PromiseDeploy, PromiseRemove, PromiseReport, PromiseTake, Zenon DEF Next, Step

\* The two controllers, working object by object from cached copies, implement
\* PolicyPromise: specs are taken up in order, a pass moves only objects of
\* its own policy and only towards the spec it read, and readiness is claimed
\* for a spec only when all its objects are in place and the others are gone,
\* but for those that somebody else took during the pass.
THEOREM PromiseImplemented == Spec => PromiseKept
<1>1. Promise!Spec <=> Promise!Init /\ [][Promise!Next]_Promise!promise
  BY Zenon DEF Promise!Spec
<1>2. QED
  BY <1>1, PromiseInit, PromiseNext, InitInv, NextInv, PTL DEF Spec, PromiseKept

-----------------------------------------------------------------------------
(***************************************************************************)
(* What the last pass left, when nothing is pending.                        *)
(***************************************************************************)

\* The DaemonSets that the last pass asked for are up.
Up(p, c) == \A o \in Objects(p) \cap Asked(p) : o[1] = c /\ o[2] = "DaemonSet" => obj[p][o].full

\* A pass over the policy is under way.
Busy(p) == work[Worker(p)].pc # "idle" /\ work[Worker(p)].key = p

\* No event for the policy is pending.
Attended(p) == p \notin queue /\ Exists(p) /\ cache[p] = [gen |-> Len(spec[p]), status |-> status[p]]

\* A DaemonSet that the check under way has been over was up and still is, or
\* an event is pending.
CheckInv(t) ==
  work[t].pc = "check" /\ work[t].key \notin queue /\ "DaemonSet" \notin Range(work[t].todo) =>
    Up(work[t].key, Comp(work[t]))

\* What has not changed since the pass under way, or the last one, began.
SinceInv(p) ==
  /\ Busy(p) /\ p \notin queue =>
       /\ cache[p].gen = work[Worker(p)].gen /\ cache[p].status = work[Worker(p)].status
       /\ \A i \in DOMAIN work[Worker(p)].results : work[Worker(p)].results[i] = "ready" => Up(p, setup.of[p][i])
  /\ Attended(p) \/ (Busy(p) /\ p \notin queue) =>
       \A o \in taken[p] : o[2] \notin GetWatchSources(States(p))
  /\ Attended(p) => acting[p] = Len(spec[p])
  /\ Attended(p) /\ ~Busy(p) =>
       /\ \A c \in Range(setup.of[p]) : Placed(p, c) /\ Up(p, c)
       /\ p \notin unsaid => SaysReady(p)

LEMMA SinceQueued ==
  ASSUME NEW p \in Policy, p \in queue'
  PROVE  SinceInv(p)'
  BY Zenon DEF SinceInv, Attended

LEMMA UpKept ==
  ASSUME setup' = setup, NEW p \in Policy, Asked(p)' = Asked(p),
         \A o \in Objects(p) \cap Asked(p) : o[2] = "DaemonSet" => obj'[p][o].full = obj[p][o].full
  PROVE  \A c : Up(p, c) => Up(p, c)'
<1>1. Objects(p)' = Objects(p)
  BY Zenon DEF Objects
<1>2. QED
  BY <1>1, Zenon DEF Up

LEMMA SaysReadyKept ==
  ASSUME NEW p \in Policy, setup' = setup, spec'[p] = spec[p], status'[p] = status[p]
  PROVE  SaysReady(p) => SaysReady(p)'
<1>1. Latest(p)' = Latest(p)
  BY Zenon DEF Latest
<1>2. QED
  BY <1>1, ZenonT(60) DEF SaysReady

\* A step that starts or ends no pass over the policy, and that says nothing
\* about it.
LEMMA SinceKept ==
  ASSUME TypeOK, NEW p \in Policy, SinceInv(p), NEW t \in Thread, t = Worker(p),
         setup' = setup, spec'[p] = spec[p], status'[p] = status[p], cache'[p] = cache[p],
         acting'[p] = acting[p], taken'[p] = taken[p], p \in queue => p \in queue', p \in unsaid => p \in unsaid',
         Busy(p)' <=> Busy(p), ~Busy(p) => obj'[p] = obj[p],
         Busy(p) => /\ work'[t].gen = work[t].gen /\ work'[t].status = work[t].status
                    /\ \A i \in DOMAIN work'[t].results : work'[t].results[i] = "ready" =>
                         \/ i \in DOMAIN work[t].results /\ work[t].results[i] = "ready"
                         \/ \A c : c = setup.of[p][i] => Up(p, c),
         \A o \in Objects(p) \cap Asked(p) : o[2] = "DaemonSet" => obj'[p][o].full = obj[p][o].full
  PROVE  SinceInv(p)'
<1>1. Asked(p)' = Asked(p) /\ Objects(p)' = Objects(p)
  BY Zenon DEF Asked, Objects
<1>2. \A c : Up(p, c) => Up(p, c)'
  BY <1>1, UpKept, Zenon
<1>3. \A c : ~Busy(p) /\ Placed(p, c) => Placed(p, c)'
  BY <1>1, Zenon DEF Placed
<1>4. SUFFICES ASSUME p \notin queue' PROVE SinceInv(p)'
  BY SinceQueued, Zenon
<1>5. p \notin queue /\ (Attended(p)' => Attended(p))
  BY <1>4, Zenon DEF Attended, Exists
<1>6. ASSUME Busy(p)
      PROVE  /\ cache'[p].gen = work'[t].gen /\ cache'[p].status = work'[t].status
             /\ \A i \in DOMAIN work'[t].results : work'[t].results[i] = "ready" => Up(p, setup.of[p][i])'
  <2>1. /\ cache[p].gen = work[t].gen /\ cache[p].status = work[t].status
        /\ \A i \in DOMAIN work[t].results : work[t].results[i] = "ready" => Up(p, setup.of[p][i])
    BY <1>5, <1>6, Zenon DEF SinceInv
  <2>2. ASSUME NEW i \in DOMAIN work'[t].results, work'[t].results[i] = "ready"
        PROVE  Up(p, setup.of[p][i])'
    <3>1. PICK c : c = setup.of[p][i]
      BY Zenon
    <3>2. Up(p, c)
      BY <1>6, <2>1, <2>2, <3>1, Zenon
    <3>3. Up(p, c)'
      BY <1>2, <3>2, Zenon
    <3>4. QED
      BY <3>1, <3>3, Zenon DEF Up
  <2>3. QED
    BY <1>6, <2>1, <2>2, Zenon
<1>7. ASSUME Attended(p)' \/ Busy(p) PROVE \A o \in taken'[p] : o[2] \notin GetWatchSources(States(p))
  BY <1>5, <1>7, Zenon DEF SinceInv
<1>8. ASSUME Attended(p)' PROVE acting'[p] = Len(spec'[p])
  BY <1>5, <1>8, Zenon DEF SinceInv
<1>9. ASSUME Attended(p)', ~Busy(p)
      PROVE  /\ \A c \in Range(setup'.of[p]) : Placed(p, c)' /\ Up(p, c)'
             /\ p \notin unsaid' => SaysReady(p)'
  <2>1. /\ \A c \in Range(setup.of[p]) : Placed(p, c) /\ Up(p, c)
        /\ p \notin unsaid => SaysReady(p)
    BY <1>5, <1>9, Zenon DEF SinceInv
  <2>2. SaysReady(p) => SaysReady(p)'
    BY SaysReadyKept, Zenon
  <2>3. QED
    BY <1>2, <1>3, <1>9, <2>1, <2>2, Zenon
<1>10. QED
  BY <1>6, <1>7, <1>8, <1>9, Zenon DEF SinceInv

LEMMA ReconcileSince ==
  ASSUME TypeOK, NEW p \in Policy, SinceInv(p), NEW q \in Policy, Reconcile(q)
  PROVE  SinceInv(p)'
<1>1. PICK t \in Thread : t = Worker(p)
  BY Zenon DEF Worker, Thread
<1>2. UNCHANGED <<setup, spec, status, cache, obj, unsaid>> /\ queue' = queue \ {q} /\ work[Worker(q)].pc = "idle"
  BY Zenon DEF Reconcile, users
<1>3. Asked(p)' = Asked(p) \/ acting'[p] # acting[p]
  BY <1>2, Zenon DEF Asked
<1>4. CASE q # p
  <2>1. acting'[p] = acting[p] /\ taken'[p] = taken[p]
    BY <1>4, Zenon DEF Reconcile, history, TypeOK
  <2>2. CASE Worker(q) # t
    <3>1. work'[t] = work[t]
      BY <2>2, Zenon DEF Reconcile, TypeOK
    <3>2. QED
      BY <1>1, <1>2, <1>4, <2>1, <3>1, SinceKept, Zenon DEF Busy
  <2>3. CASE Worker(q) = t
    <3>1. work'[t] = work[t] \/ work'[t].key = q
      <4>1. \/ work' = work
            \/ work'[t] = [Idle EXCEPT !.pc = "sync", !.key = q, !.at = 1, !.gen = cache[q].gen, !.status = cache[q].status]
        BY <2>3, Zenon DEF Reconcile, TypeOK
      <4>2. QED
        BY <4>1, Zenon DEF Idle
    <3>2. ~Busy(p) /\ ~Busy(p)'
      BY <1>1, <1>2, <1>4, <2>3, <3>1, Zenon DEF Busy
    <3>3. QED
      BY <1>1, <1>2, <1>4, <2>1, <3>2, SinceKept, Zenon
  <2>4. QED
    BY <2>2, <2>3, Zenon
<1>5. CASE q = p /\ (cache[p].gen = 0 \/ spec[p][cache[p].gen] = NoPolicy)
  <2>1. work' = work
    BY <1>5, Zenon DEF Reconcile
  <2>2. ~Busy(p)'
    BY <1>2, <1>5, <2>1, Zenon DEF Busy
  <2>3. ~Attended(p)'
    <3>1. SUFFICES ASSUME Attended(p)' PROVE FALSE
      BY Zenon
    <3>2. cache[p].gen = Len(spec[p]) /\ spec[p] # <<>> /\ spec[p][Len(spec[p])] # NoPolicy
      BY <1>2, <3>1 DEF Attended, Exists
    <3>3. spec[p] \in Seq(Specs(p) \cup {NoPolicy})
      BY Zenon DEF TypeOK, PolicyOK
    <3>4. QED
      BY <1>5, <3>2, <3>3, EmptySeq, Zenon
  <2>4. QED
    BY <2>2, <2>3, Zenon DEF SinceInv
<1>6. CASE q = p /\ ~(cache[p].gen = 0 \/ spec[p][cache[p].gen] = NoPolicy)
  <2>1. /\ work'[t] = [Idle EXCEPT !.pc = "sync", !.key = p, !.at = 1, !.gen = cache[p].gen, !.status = cache[p].status]
        /\ acting'[p] = cache[p].gen /\ taken'[p] = {}
    BY <1>1, <1>6, Zenon DEF Reconcile, TypeOK
  <2>2. /\ work'[t].pc = "sync" /\ work'[t].key = p /\ work'[t].gen = cache[p].gen /\ work'[t].status = cache[p].status
        /\ work'[t].results = <<>>
    BY <2>1, Zenon DEF Idle
  <2>3. Busy(p)'
    BY <1>1, <2>2, Zenon DEF Busy
  <2>4. Attended(p)' => acting'[p] = Len(spec'[p])
    BY <1>2, <2>1 DEF Attended
  <2>5. QED
    BY <1>1, <1>2, <2>1, <2>2, <2>3, <2>4 DEF SinceInv
<1>7. QED
  BY <1>4, <1>5, <1>6, Zenon

\* A pass over another policy.
LEMMA OtherSince ==
  ASSUME TypeOK, \A t \in Thread : PassInv(t), NEW u \in Thread, Step(u) \/ callFails(u) \/ statusUpdateFails(u),
         NEW p \in Policy, SinceInv(p), work[u].key # p
  PROVE  SinceInv(p)'
<1>1. PICK t \in Thread : t = Worker(p)
  BY Zenon DEF Worker, Thread
<1>2. /\ UNCHANGED <<setup, spec, cache, acting, taken>> /\ status'[p] = status[p] /\ obj'[p] = obj[p]
      /\ p \in queue => p \in queue'
      /\ p \in unsaid => p \in unsaid'
  BY StepEffect, Zenon
<1>3. CASE t # u
  <2>1. work'[t] = work[t]
    BY <1>3, StepEffect, Zenon
  <2>2. Busy(p)' <=> Busy(p)
    BY <1>1, <2>1, Zenon DEF Busy
  <2>3. QED
    BY <1>1, <1>2, <2>1, <2>2, SinceKept, Zenon
<1>4. CASE t = u
  <2>1. work'[t].pc = "idle" \/ work'[t].key = work[t].key
    BY <1>4, StepEffect, Zenon
  <2>2. ~Busy(p) /\ ~Busy(p)'
    BY <1>1, <1>4, <2>1, Zenon DEF Busy
  <2>3. QED
    BY <1>1, <1>2, <2>2, SinceKept, Zenon
<1>5. QED
  BY <1>3, <1>4, Zenon

\* The result of a component: ready only if its DaemonSets are up.
LEMMA ResultSince ==
  ASSUME TypeOK, NEW t \in Thread, work[t].pc \in {"sync", "apply", "sweep", "check"},
         NEW r \in {"ready", "notReady", "ignore", "error"}, Result(t, r),
         UNCHANGED <<users, status, cache, obj, queue, history, unsaid>>,
         NEW p \in Policy, p = work[t].key, SinceInv(p), r = "ready" => Up(p, Comp(work[t]))
  PROVE  SinceInv(p)'
<1>1. t = Worker(p) /\ Busy(p)
  BY Zenon DEF TypeOK, WorkOK, Busy
<1>2. /\ work'[t].key = p /\ work'[t].gen = work[t].gen /\ work'[t].status = work[t].status
      /\ work'[t].results = Append(work[t].results, r) /\ work'[t].pc # "idle"
  BY ResultWork, Zenon
<1>3. PICK n \in Nat : /\ work[t].results \in Seq({"ready", "notReady", "ignore", "error"})
                      /\ Len(work[t].results) = n /\ work[t].at = n + 1
  <2>1. work[t].results \in Seq({"ready", "notReady", "ignore", "error"}) /\ Len(work[t].results) + 1 = work[t].at
    BY Zenon DEF TypeOK, WorkOK, WorkType
  <2>2. QED
    BY <2>1
<1>4. ASSUME NEW i \in DOMAIN work'[t].results, work'[t].results[i] = "ready"
      PROVE  \/ i \in DOMAIN work[t].results /\ work[t].results[i] = "ready"
             \/ \A c : c = setup.of[p][i] => Up(p, c)
  <2>1. i \in 1 .. n + 1
    BY <1>2, <1>3, <1>4
  <2>2. CASE i \in 1 .. n
    BY <1>2, <1>3, <1>4, <2>2
  <2>3. CASE i = n + 1
    <3>1. r = "ready"
      BY <1>2, <1>3, <1>4, <2>3
    <3>2. Comp(work[t]) = setup.of[p][i]
      BY <1>3, <2>3, Zenon DEF Comp
    <3>3. QED
      BY <3>1, <3>2, Zenon
  <2>4. QED
    BY <1>3, <2>1, <2>2, <2>3
<1>5. Busy(p)'
  BY <1>1, <1>2, Zenon DEF Busy
<1>6. UNCHANGED <<setup, spec, acting, taken>>
  BY Zenon DEF users, history
<1>7. QED
  BY <1>1, <1>2, <1>4, <1>5, <1>6, SinceKept, Zenon

\* The check of one more object.
LEMMA CheckedUp ==
  ASSUME TypeOK, NEW t \in Thread, CheckInv(t), work[t].pc = "check", work[t].todo # <<>>,
         NEW p \in Policy, p = work[t].key, p \notin queue,
         NEW k, k = Head(work[t].todo), k = "DaemonSet" => isDaemonSetReady(obj[p][<<Comp(work[t]), k>>]),
         "DaemonSet" \notin Range(Tail(work[t].todo))
  PROVE  Up(p, Comp(work[t]))
<1>1. PICK c : c = Comp(work[t])
  BY Zenon
<1>2. CASE k = "DaemonSet"
  <2>1. \A o \in Objects(p) : o = <<o[1], o[2]>>
    BY ObjectsType, Zenon DEF TypeOK
  <2>2. QED
    BY <1>1, <1>2, <2>1 DEF Up, isDaemonSetReady
<1>3. CASE k # "DaemonSet"
  <2>1. PICK s \in Seq(Kind) : s = work[t].todo
    BY Zenon DEF TypeOK, WorkOK, WorkType, Kind
  <2>2. \A i \in 1 .. Len(s) : s[i] = k \/ s[i] \in Range(Tail(s))
    <3>1. Tail(s) \in Seq(Kind) /\ DOMAIN Tail(s) = 1 .. Len(s) - 1 /\ \A i \in 1 .. Len(s) - 1 : Tail(s)[i] = s[i + 1]
      BY <2>1
    <3>2. ASSUME NEW i \in 1 .. Len(s), i # 1 PROVE s[i] \in Range(Tail(s))
      <4>1. i - 1 \in DOMAIN Tail(s) /\ Tail(s)[i - 1] = s[i]
        BY <2>1, <3>1, <3>2
      <4>2. QED
        BY <4>1, Zenon DEF Range
    <3>3. s # <<>> => Head(s) = s[1]
      BY <2>1
    <3>4. QED
      BY <2>1, <3>2, <3>3, Zenon
  <2>3. DOMAIN s = 1 .. Len(s)
    BY <2>1
  <2>4. "DaemonSet" \notin Range(s)
    <3>1. SUFFICES ASSUME "DaemonSet" \in Range(s) PROVE FALSE
      BY Zenon
    <3>2. PICK i \in DOMAIN s : s[i] = "DaemonSet"
      BY <3>1, Zenon DEF Range
    <3>3. QED
      BY <1>3, <2>1, <2>2, <2>3, <3>2, Zenon
  <2>5. QED
    BY <2>1, <2>4, Zenon DEF CheckInv
<1>4. QED
  BY <1>2, <1>3, Zenon

\* The check begins with all objects, or goes on with the next one.
LEMMA CheckingUp ==
  ASSUME TypeOK, NEW t \in Thread, CheckInv(t), sweepDone(t) \/ getSyncState(t), Checking(t)
  PROVE  CheckInv(t)'
<1>1. /\ UNCHANGED <<setup, spec, obj, queue, acting>> /\ work'[t].key = work[t].key /\ work'[t].at = work[t].at
      /\ work[t].pc \in {"sweep", "check"} /\ work[t] \in WorkType /\ DOMAIN work = Thread
  BY CheckWork, Zenon DEF sweepDone, getSyncState, users, history, TypeOK, WorkOK
<1>2. PICK p \in Policy : p = work[t].key
  BY <1>1, PassType, Zenon
<1>3. PICK c : c = Comp(work[t])
  BY Zenon
<1>4. Up(p, c) => Up(p, c)'
  BY <1>1, Zenon DEF Up, Asked, Objects
<1>5. p = work'[t].key /\ c = Comp(work[t])'
  BY <1>1, <1>2, <1>3, Zenon DEF Comp
<1>6. SUFFICES ASSUME p \notin queue, "DaemonSet" \notin Range(work'[t].todo) PROVE Up(p, c)
  BY <1>1, <1>4, <1>5, Zenon DEF CheckInv, Up
<1>7. CASE work[t].pc = "sweep"
  <2>1. PICK mode : mode = ModeOf(work[t])
    BY Zenon
  <2>2. PICK s : s = GetManifestObjects(p, c, mode) /\ work' = [work EXCEPT ![t].pc = "check", ![t].todo = s]
    BY <1>2, <1>3, <1>7, <2>1, Zenon DEF Checking
  <2>3. work'[t].todo = s
    BY <1>1, <2>2, Zenon DEF WorkType
  <2>4. c \in DOMAIN spec[p][acting[p]] /\ spec[p][acting[p]] \in Specs(p) /\ mode = spec[p][acting[p]][c]
    BY <1>2, <1>3, <1>7, <2>1, PassType, Zenon DEF ModeOf
  <2>5. <<c, "DaemonSet">> \notin Asked(p)
    BY <1>6, <2>2, <2>3, <2>4, WantedType, Zenon DEF Asked, TypeOK
  <2>6. \A o \in Objects(p) : o = <<o[1], o[2]>>
    BY ObjectsType, Zenon DEF TypeOK
  <2>7. QED
    BY <2>5, <2>6 DEF Up
<1>8. CASE work[t].pc = "check"
  <2>1. work[t].todo # <<>> /\ work' = [work EXCEPT ![t].todo = Tail(@)] /\ getSyncState(t)
    BY <1>8, Zenon DEF Checking, sweepDone
  <2>2. work'[t].todo = Tail(work[t].todo)
    BY <1>1, <2>1, Zenon DEF WorkType
  <2>3. PICK k : k = Head(work[t].todo)
    BY Zenon
  <2>4. ASSUME NEW r, Result(t, r) PROVE FALSE
    <3>1. work'[t].at = work[t].at + 1 /\ work[t].at \in Nat
      BY <1>1, <2>4 DEF Result, WorkType
    <3>2. QED
      BY <1>1, <3>1
  <2>5. k = "DaemonSet" => isDaemonSetReady(obj[p][<<Comp(work[t]), k>>])
    BY <1>2, <2>1, <2>3, <2>4 DEF getSyncState
  <2>6. QED
    BY <1>2, <1>3, <1>6, <1>8, <2>1, <2>2, <2>3, <2>5, CheckedUp, Zenon
<1>9. QED
  BY <1>1, <1>7, <1>8, Zenon

\* A step that leaves the pass, what it asks for and the DaemonSets as they are.
LEMMA CheckKept ==
  ASSUME TypeOK, NEW t \in Thread, CheckInv(t), setup' = setup, work'[t] = work[t],
         NEW p \in Policy, p = work[t].key, p \in queue => p \in queue', Asked(p)' = Asked(p),
         \A o \in Objects(p) \cap Asked(p) : o[2] = "DaemonSet" => obj'[p][o].full = obj[p][o].full
  PROVE  CheckInv(t)'
<1>1. PICK c : c = Comp(work[t])
  BY Zenon
<1>2. Up(p, c) => Up(p, c)'
  BY UpKept, Zenon
<1>3. p = work'[t].key /\ c = Comp(work[t])'
  BY <1>1, Zenon DEF Comp
<1>4. QED
  BY <1>1, <1>2, <1>3, Zenon DEF CheckInv, Up

LEMMA NextCheck ==
  ASSUME TypeOK, \A u \in Thread : PassInv(u), [Next]_vars, NEW t \in Thread, CheckInv(t)
  PROVE  CheckInv(t)'
<1>1. SUFFICES ASSUME work'[t].pc = "check" PROVE CheckInv(t)'
  BY Zenon DEF CheckInv
<1>2. ASSUME NEW u \in Thread, Step(u) \/ callFails(u) \/ statusUpdateFails(u), u # t PROVE CheckInv(t)'
  <2>1. work'[t] = work[t]
    BY <1>2, StepEffect, Zenon
  <2>2. PICK p \in Policy : p = work[t].key /\ t = Worker(p)
    BY <1>1, <2>1, PassType, Zenon DEF TypeOK, WorkOK
  <2>3. p # work[u].key /\ UNCHANGED <<setup, spec, acting>> /\ obj'[p] = obj[p] /\ (p \in queue => p \in queue')
    BY <1>2, <2>2, StepEffect, Zenon
  <2>4. QED
    BY <2>1, <2>2, <2>3, CheckKept, Zenon DEF Asked
<1>3. ASSUME Step(t) \/ callFails(t) \/ statusUpdateFails(t) PROVE CheckInv(t)'
  <2>1. work[t] \in WorkType /\ DOMAIN work = Thread
    BY Zenon DEF TypeOK, WorkOK
  <2>2. ~(updatePolicyCRStatus(t) \/ statusUpdateFails(t))
    BY <1>1 DEF updatePolicyCRStatus, statusUpdateFails, Idle, TypeOK
  <2>3. ~createOrUpdateObjs(t)
    <3>1. SUFFICES ASSUME createOrUpdateObjs(t) PROVE FALSE
      BY Zenon
    <3>2. work'[t].pc \in {"sweep", "apply"}
      BY <3>1, ApplyObject, ApplyType, Zenon DEF createOrUpdateObjs
    <3>3. QED
      BY <1>1, <3>2, Zenon
  <2>4. ~deleteStateRelatedObjects(t)
    <3>1. SUFFICES ASSUME deleteStateRelatedObjects(t) PROVE FALSE
      BY Zenon
    <3>2. work'[t].pc = work[t].pc /\ work[t].pc = "sweep"
      BY <2>1, <3>1, SweepType, Zenon DEF deleteStateRelatedObjects, WorkType
    <3>3. QED
      BY <1>1, <3>2, Zenon
  <2>5. ASSUME NEW r \in {"ready", "notReady", "ignore", "error"}, Result(t, r),
               work[t].pc \in {"sync", "apply", "sweep", "check"}
        PROVE  FALSE
    BY <1>1, <2>5, ResultWork, Zenon
  <2>6. ~Sync(t)
    <3>1. SUFFICES ASSUME Sync(t) PROVE FALSE
      BY Zenon
    <3>2. work'[t].pc \in {"sweep", "apply"}
      BY <2>1, <2>5, <3>1, Zenon DEF Sync, WorkType
    <3>3. QED
      BY <1>1, <3>2, Zenon
  <2>7. sweepDone(t) \/ getSyncState(t) \/ callFails(t)
    BY <1>3, <2>2, <2>3, <2>4, <2>6, Zenon DEF Step
  <2>8. work[t].pc \in {"apply", "sweep", "check"}
    BY <2>7, Zenon DEF sweepDone, getSyncState, callFails
  <2>9. Checking(t)
    BY <2>5, <2>7, <2>8, SyncEnds, Zenon
  <2>10. ~callFails(t)
    BY <2>5, <2>8, Zenon DEF callFails
  <2>11. QED
    BY <2>7, <2>9, <2>10, CheckingUp, Zenon
<1>4. ASSUME NEW q \in Policy, Reconcile(q) PROVE CheckInv(t)'
  <2>1. t # Worker(q)
    <3>1. SUFFICES ASSUME t = Worker(q) PROVE FALSE
      BY Zenon
    <3>2. \/ work' = work /\ work[t].pc = "idle"
          \/ work'[t] = [Idle EXCEPT !.pc = "sync", !.key = q, !.at = 1, !.gen = cache[q].gen, !.status = cache[q].status]
      BY <1>4, <3>1, Zenon DEF Reconcile, TypeOK
    <3>3. QED
      BY <1>1, <3>2, Zenon DEF Idle
  <2>2. work'[t] = work[t] /\ UNCHANGED <<setup, spec, obj>> /\ queue' = queue \ {q}
    BY <1>4, <2>1, Zenon DEF Reconcile, TypeOK, users
  <2>3. PICK p \in Policy : p = work[t].key /\ t = Worker(p)
    BY <1>1, <2>2, PassType, Zenon DEF TypeOK, WorkOK
  <2>4. acting'[p] = acting[p]
    BY <1>4, <2>1, <2>3, Zenon DEF Reconcile, history, TypeOK
  <2>5. QED
    BY <2>1, <2>2, <2>3, <2>4, CheckKept, Zenon DEF Asked
<1>5. CASE work' = work /\ setup' = setup /\ ~(\E q \in Policy : Reconcile(q))
  <2>1. PICK p \in Policy : p = work[t].key /\ t = Worker(p)
    BY <1>1, <1>5, PassType, Zenon DEF TypeOK, WorkOK
  <2>2. acting[p] \in 1 .. Len(spec[p])
    <3>1. acting[p] # 0
      BY <1>1, <1>5, <2>1, ZenonT(60) DEF TypeOK, WorkOK
    <3>2. QED
      BY <3>1, GenType
  <2>3. CASE UNCHANGED <<obj, queue, acting>> /\ spec'[p][acting[p]] = spec[p][acting[p]]
    BY <1>5, <2>1, <2>3, CheckKept, Zenon DEF Asked
  <2>4. ASSUME NEW q \in Policy, NEW s \in Specs(q) \cup {NoPolicy}, Submit(q, s) PROVE CheckInv(t)'
    <3>1. UNCHANGED <<obj, queue, acting>>
      BY <2>4, Zenon DEF Submit, history
    <3>2. spec'[p][acting[p]] = spec[p][acting[p]]
      BY <2>2, <2>4, SubmitEffect, Zenon
    <3>3. QED
      BY <2>3, <3>1, <3>2, Zenon
  <2>5. ASSUME NEW q \in Policy, observe(q) PROVE CheckInv(t)'
    <3>1. UNCHANGED <<obj, spec, acting>> /\ (p \in queue => p \in queue')
      BY <2>5, Zenon DEF observe, users, history
    <3>2. QED
      BY <1>5, <2>1, <3>1, CheckKept, Zenon DEF Asked
  <2>6. ASSUME NEW q \in Policy, NEW o \in Objects(q),
               daemonSetObserved(q, o) \/ podsChange(q, o) \/ garbageCollected(q, o) \/ deletedByHand(q, o)
        PROVE  CheckInv(t)'
    <3>1. UNCHANGED <<spec, acting>> /\ queue' = Notify(q, o[2])
      BY <2>6, ClusterEffect, Zenon DEF users
    <3>2. PICK v \in ObjectType : ObjectStep(q, o, v)
      BY <2>6, ClusterEffect, Zenon
    <3>3. p \in queue => p \in queue'
      BY <3>1, Zenon DEF Notify
    <3>4. CASE q # p
      <4>1. obj'[p] = obj[p]
        BY <3>2, <3>4, Zenon DEF ObjectStep, TypeOK
      <4>2. QED
        BY <1>5, <2>1, <3>1, <3>3, <4>1, CheckKept, Zenon DEF Asked
    <3>5. CASE q = p /\ o[2] = "DaemonSet"
      <4>1. o[1] \in DOMAIN States(p)
        BY <3>5, ObjectsType, OfType, Zenon DEF TypeOK
      <4>2. p \in queue'
        BY <3>1, <3>5, <4>1, ComponentFacts, Zenon DEF Notify
      <4>3. work'[t].key = p
        BY <1>5, <2>1, Zenon
      <4>4. QED
        BY <4>2, <4>3, Zenon DEF CheckInv
    <3>6. CASE q = p /\ o[2] # "DaemonSet"
      <4>1. \A x \in Objects(p) : obj'[p][x] = IF x = o THEN v ELSE obj[p][x]
        BY <3>2, <3>6, ZenonT(60) DEF ObjectStep, TypeOK, PolicyOK
      <4>2. QED
        BY <1>5, <2>1, <3>1, <3>3, <3>6, <4>1, CheckKept, Zenon DEF Asked
    <3>7. QED
      BY <3>4, <3>5, <3>6, Zenon
  <2>7. CASE crdInstalled \/ UNCHANGED vars
    BY <2>3, <2>7, Zenon DEF crdInstalled, history, vars
  <2>8. CASE \E u \in Thread : Step(u) \/ callFails(u) \/ statusUpdateFails(u)
    BY <1>2, <1>3, <2>8, Zenon
  <2>9. CASE operatorRestarts
    BY <1>1, <2>9, Zenon DEF operatorRestarts, Idle
  <2>10. QED
    BY <1>5, <2>4, <2>5, <2>6, <2>7, <2>8, <2>9, Zenon DEF Next, userDeletes, userSubmits
<1>6. CASE operatorRestarts
  BY <1>1, <1>6, Zenon DEF operatorRestarts, Idle
<1>7. \/ work' = work /\ setup' = setup
      \/ operatorRestarts
      \/ \E q \in Policy : Reconcile(q)
      \/ \E u \in Thread : Step(u) \/ callFails(u) \/ statusUpdateFails(u)
  <2>1. ASSUME NEW q \in Policy, NEW o \in Objects(q),
               daemonSetObserved(q, o) \/ podsChange(q, o) \/ garbageCollected(q, o) \/ deletedByHand(q, o)
        PROVE  work' = work /\ setup' = setup
    BY <2>1, ClusterEffect, Zenon DEF users
  <2>2. ASSUME NEW q \in Policy, observe(q) PROVE work' = work /\ setup' = setup
    BY <2>2, Zenon DEF observe, users
  <2>3. ASSUME NEW q \in Policy, NEW s \in Specs(q) \cup {NoPolicy}, Submit(q, s)
        PROVE  work' = work /\ setup' = setup
    BY <2>3, Zenon DEF Submit
  <2>4. ASSUME crdInstalled \/ UNCHANGED vars PROVE work' = work /\ setup' = setup
    BY <2>4, Zenon DEF crdInstalled, vars
  <2>5. QED
    BY <2>1, <2>2, <2>3, <2>4, Zenon DEF Next, userDeletes, userSubmits
<1>8. QED
  BY <1>2, <1>3, <1>4, <1>5, <1>6, <1>7, Zenon

\* The pass over the policy, up to its end.
LEMMA PassSince ==
  ASSUME TypeOK, \A u \in Thread : PassInv(u), NEW t \in Thread, CheckInv(t), NEW p \in Policy, p = work[t].key, SinceInv(p),
         \/ Sync(t) \/ createOrUpdateObjs(t) \/ deleteStateRelatedObjects(t)
         \/ sweepDone(t) \/ getSyncState(t) \/ callFails(t)
  PROVE  SinceInv(p)'
<1>1. /\ work[t].pc \in {"sync", "apply", "sweep", "check"} /\ t = Worker(p) /\ Busy(p) /\ work[t].gen = acting[p]
      /\ work[t] \in WorkType /\ DOMAIN work = Thread
  BY Zenon DEF Sync, createOrUpdateObjs, deleteStateRelatedObjects, sweepDone, getSyncState, callFails, TypeOK, WorkOK, Busy
<1>2. CASE createOrUpdateObjs(t)
  <2>1. work[t].todo # <<>> /\ work[t].pc = "apply" /\ UNCHANGED <<setup, spec, status, cache, acting, taken, unsaid>>
    BY <1>2, Zenon DEF createOrUpdateObjs, users, history
  <2>2. PICK o : o = <<Comp(work[t]), Head(work[t].todo)>>
    BY Zenon
  <2>3. o \in Objects(p)
    BY <2>1, <2>2, ApplyObject, Zenon
  <2>4. PICK m : m = mergeObjects(obj[p][o], work[t].gen)
    BY Zenon
  <2>5. /\ work'[t].key = p /\ work'[t].gen = work[t].gen /\ work'[t].status = work[t].status
        /\ work'[t].results = work[t].results /\ ObjectStep(p, o, m)
        /\ work'[t].pc = IF Len(work[t].todo) = 1 THEN "sweep" ELSE "apply"
    BY <1>2, <2>2, <2>3, <2>4, ApplyType, Zenon
  <2>6. m.full = obj[p][o].full
    BY <2>3, <2>4, MergeType
  <2>7. \A x \in Objects(p) : obj'[p][x] = IF x = o THEN m ELSE obj[p][x]
    BY <2>3, <2>5, Zenon DEF ObjectStep, TypeOK, PolicyOK
  <2>8. Busy(p)'
    BY <1>1, <2>5, Zenon DEF Busy
  <2>9. p \in queue => p \in queue'
    BY <1>2, Zenon DEF createOrUpdateObjs, Notify
  <2>10. QED
    BY <1>1, <2>1, <2>5, <2>6, <2>7, <2>8, <2>9, SinceKept, ZenonT(60)
<1>3. CASE deleteStateRelatedObjects(t)
  <2>1. /\ UNCHANGED <<setup, spec, status, cache, acting, taken, unsaid>>
        /\ work'[t] = [work[t] EXCEPT !.found = TRUE]
    BY <1>3, SweepType, Zenon DEF users, history
  <2>2. /\ work'[t].key = p /\ work'[t].gen = work[t].gen /\ work'[t].status = work[t].status
        /\ work'[t].results = work[t].results /\ work'[t].pc = work[t].pc
    BY <1>1, <2>1, Zenon DEF WorkType
  <2>3. PICK k \in Kind :
          /\ <<Comp(work[t]), k>> \in Objects(p) \ Wanted(p, spec[p][work[t].gen])
          /\ ObjectStep(p, <<Comp(work[t]), k>>, Gone) /\ queue' = Notify(p, k)
    BY <1>3, SweepType, Zenon
  <2>4. PICK o : o = <<Comp(work[t]), k>>
    BY Zenon
  <2>5. o \notin Asked(p)
    BY <1>1, <2>3, <2>4, Zenon DEF Asked
  <2>6. \A x \in Objects(p) : obj'[p][x] = IF x = o THEN Gone ELSE obj[p][x]
    BY <2>3, <2>4, ZenonT(60) DEF ObjectStep, TypeOK, PolicyOK
  <2>7. Busy(p)'
    BY <1>1, <2>2, Zenon DEF Busy
  <2>8. p \in queue => p \in queue'
    BY <2>3, Zenon DEF Notify
  <2>9. QED
    BY <1>1, <2>1, <2>2, <2>5, <2>6, <2>7, <2>8, SinceKept, Zenon
<1>4. CASE Sync(t) \/ sweepDone(t) \/ getSyncState(t) \/ callFails(t)
  <2>1. UNCHANGED <<users, status, cache, obj, queue, history, unsaid>>
    BY <1>4, Zenon DEF Sync, sweepDone, getSyncState, callFails
  <2>2. ASSUME NEW r \in {"notReady", "ignore", "error"}, Result(t, r) PROVE SinceInv(p)'
    BY <1>1, <2>1, <2>2, ResultSince, Zenon
  <2>3. CASE Result(t, "ready") /\ getSyncState(t)
    <3>1. work[t].pc = "check" /\ work[t].todo # <<>>
      BY <2>3, Zenon DEF getSyncState
    <3>2. PICK k : k = Head(work[t].todo)
      BY Zenon
    <3>3. ASSUME Result(t, "notReady") PROVE FALSE
      <4>1. /\ work'[t].results = Append(work[t].results, "ready")
            /\ work'[t].results = Append(work[t].results, "notReady")
        BY <1>1, <2>3, <3>3, ResultWork, Zenon
      <4>2. PICK s \in Seq({"ready", "notReady", "ignore", "error"}) : s = work[t].results
        BY <1>1, Zenon DEF WorkType
      <4>3. Append(s, "ready")[Len(s) + 1] = "ready" /\ Append(s, "notReady")[Len(s) + 1] = "notReady"
        BY AppendProperties
      <4>4. QED
        BY <4>1, <4>2, <4>3, Zenon
    <3>4. work' # [work EXCEPT ![t].todo = Tail(@)]
      <4>1. SUFFICES ASSUME work' = [work EXCEPT ![t].todo = Tail(@)] PROVE FALSE
        BY Zenon
      <4>2. work'[t].at = work[t].at /\ work[t].at \in Nat
        BY <1>1, <4>1, Zenon DEF WorkType
      <4>3. work'[t].at = work[t].at + 1
        BY <1>1, <2>3, ResultWork, Zenon
      <4>4. QED
        BY <4>2, <4>3
    <3>5. /\ k = "DaemonSet" => isDaemonSetReady(obj[p][<<Comp(work[t]), k>>])
          /\ ~(Len(work[t].todo) > 1)
      BY <2>3, <3>2, <3>3, <3>4, Zenon DEF getSyncState
    <3>6. Range(Tail(work[t].todo)) = {}
      <4>1. PICK s \in Seq(Kind) : s = work[t].todo
        BY <1>1, Zenon DEF WorkType, Kind
      <4>2. Tail(s) = <<>>
        BY <3>1, <3>5, <4>1
      <4>3. Range(<<>>) = {}
        BY DEF Range
      <4>4. QED
        BY <4>1, <4>2, <4>3, Zenon
    <3>7. p \notin queue => Up(p, Comp(work[t]))
      BY <1>1, <3>1, <3>2, <3>5, <3>6, CheckedUp, Zenon
    <3>8. p \in queue => p \in queue'
      BY <2>1, Zenon
    <3>9. QED
      BY <1>1, <2>1, <2>3, <3>7, <3>8, ResultSince, SinceQueued, Zenon
  <2>4. ASSUME work'[t].key = p, work'[t].gen = work[t].gen, work'[t].status = work[t].status,
               work'[t].results = work[t].results, work'[t].pc # "idle"
        PROVE  SinceInv(p)'
    <3>1. Busy(p)'
      BY <1>1, <2>4, Zenon DEF Busy
    <3>2. QED
      BY <1>1, <2>1, <2>4, <3>1, SinceKept, Zenon DEF users, history
  <2>5. ASSUME Checking(t) PROVE SinceInv(p)'
    <3>1. work'[t].status = work[t].status
      BY <1>1, <2>5, Zenon DEF Checking, WorkType
    <3>2. QED
      BY <2>4, <2>5, <3>1, CheckWork, Zenon
  <2>6. ASSUME NEW todo, NEW pc \in {"sweep", "apply"}, work' = [work EXCEPT ![t].pc = pc, ![t].todo = todo]
        PROVE  SinceInv(p)'
    <3>1. /\ work'[t].key = p /\ work'[t].gen = work[t].gen /\ work'[t].status = work[t].status
          /\ work'[t].results = work[t].results /\ work'[t].pc = pc
      BY <1>1, <2>6, Zenon DEF WorkType
    <3>2. QED
      BY <2>4, <3>1, Zenon
  <2>7. CASE Sync(t)
    <3>1. ASSUME work' = [work EXCEPT ![t].pc = "sweep"]
          PROVE  work' = [work EXCEPT ![t].pc = "sweep", ![t].todo = work[t].todo]
      BY <1>1, <3>1, Zenon DEF WorkType
    <3>2. QED
      BY <2>2, <2>6, <2>7, <3>1, Zenon DEF Sync
  <2>8. CASE sweepDone(t) \/ callFails(t)
    <3>1. Checking(t) \/ \E r \in {"notReady", "ignore", "error"} : Result(t, r)
      BY <2>8, Zenon DEF sweepDone, callFails, Checking
    <3>2. QED
      BY <2>2, <2>5, <3>1, Zenon
  <2>9. CASE getSyncState(t)
    <3>1. Checking(t) \/ Result(t, "ready") \/ Result(t, "notReady")
      BY <2>9, Zenon DEF getSyncState, Checking
    <3>2. QED
      BY <2>2, <2>3, <2>5, <2>9, <3>1, Zenon
  <2>10. QED
    BY <1>4, <2>7, <2>8, <2>9, Zenon
<1>5. QED
  BY <1>2, <1>3, <1>4, Zenon

\* A pass that is not repeated found everything in place, up and, if its
\* report was accepted, said so.
LEMMA ReadySince ==
  ASSUME TypeOK, NEW t \in Thread, PassInv(t), work[t].pc = "status", SyncState(work[t].results) = "ready",
         NEW p \in Policy, p = work[t].key, SinceInv(p), p \notin queue
  PROVE  /\ Report(work[t]).state = "ready" /\ Report(work[t]).ready
         /\ \A i \in DOMAIN setup.of[p] :
              Report(work[t]).conditions[i] = IF spec[p][acting[p]][setup.of[p][i]] = "off" THEN "" ELSE "True"
         /\ \A c \in Range(setup.of[p]) : Placed(p, c) /\ Up(p, c)
<1>1. PICK w : w = work[t]
  BY Zenon
<1>2. /\ w.key = p /\ w.gen = acting[p] /\ w.results \in Seq({"ready", "notReady", "ignore", "error"})
      /\ DOMAIN w.results = DOMAIN setup.of[p] /\ spec[p][acting[p]] \in Specs(p) /\ t = Worker(p)
  BY <1>1, ReportType, OfType, ZenonT(60) DEF TypeOK, WorkOK
<1>3. \A i \in DOMAIN w.results : w.results[i] \in {"ready", "ignore"}
  <2>1. Range(w.results) \cap {"notReady", "error"} = {}
    BY <1>1, Zenon DEF SyncState
  <2>2. \A i \in DOMAIN w.results : w.results[i] \in Range(w.results)
    BY ZenonT(60) DEF Range
  <2>3. \A i \in DOMAIN w.results : w.results[i] \in {"ready", "notReady", "ignore", "error"}
    BY <1>2
  <2>4. QED
    BY <2>1, <2>2, <2>3, Zenon
<1>4. ResultsOK(w)
  BY <1>1, Zenon DEF PassInv
<1>5. \A i \in DOMAIN setup.of[p] :
        /\ Placed(p, setup.of[p][i])
        /\ w.results[i] = "ignore" <=> spec[p][acting[p]][setup.of[p][i]] = "off"
  BY <1>2, <1>3, <1>4, Zenon DEF ResultsOK
<1>6. \A i \in DOMAIN setup.of[p] :
        Condition(w.results[i]) = IF spec[p][acting[p]][setup.of[p][i]] = "off" THEN "" ELSE "True"
  BY <1>2, <1>3, <1>5, Zenon DEF Condition
<1>7. PICK conditions : conditions = computePolicyConditions(w.results)
  BY Zenon
<1>8. DOMAIN conditions = DOMAIN w.results /\ \A i \in DOMAIN w.results : conditions[i] = Condition(w.results[i])
  BY <1>7, Zenon DEF computePolicyConditions
<1>9. "False" \notin Range(conditions)
  BY <1>2, <1>6, <1>8, Zenon DEF Range
<1>10. /\ Report(w).state = "ready" /\ Report(w).conditions = conditions
       /\ Report(w).ready
  BY <1>1, <1>7, <1>9, Zenon DEF Report, ReadyCondition
<1>11. ASSUME NEW i \in DOMAIN setup.of[p] PROVE Up(p, setup.of[p][i])
  <2>1. CASE w.results[i] = "ready"
    <3>1. Busy(p)
      BY <1>1, <1>2, Zenon DEF Busy
    <3>2. QED
      BY <1>1, <1>2, <1>11, <2>1, <3>1, Zenon DEF SinceInv
  <2>2. CASE w.results[i] = "ignore"
    <3>1. PICK c : c = setup.of[p][i]
      BY Zenon
    <3>2. spec[p][acting[p]][c] = "off" /\ c \in DOMAIN spec[p][acting[p]]
      <4>1. c \in Range(setup.of[p])
        BY <1>11, <3>1, Zenon DEF Range
      <4>2. DOMAIN spec[p][acting[p]] = Range(setup.of[p])
        BY <1>2, SpecType, Zenon DEF TypeOK
      <4>3. spec[p][acting[p]][c] = "off"
        BY <1>5, <1>11, <2>2, <3>1, Zenon
      <4>4. QED
        BY <4>1, <4>2, <4>3, Zenon
    <3>3. \A k : <<c, k>> \notin Asked(p)
      BY <1>2, <3>2, WantedType, ZenonT(60) DEF Asked, TypeOK
    <3>4. \A o \in Objects(p) : o = <<o[1], o[2]>>
      BY ObjectsType, Zenon DEF TypeOK
    <3>5. QED
      BY <3>1, <3>3, <3>4 DEF Up
  <2>3. QED
    BY <1>2, <1>3, <1>11, <2>1, <2>2, Zenon
<1>12. \A c \in Range(setup.of[p]) : Placed(p, c) /\ Up(p, c)
  BY <1>5, <1>11, ZenonT(60) DEF Range
<1>13. \A i \in DOMAIN setup.of[p] :
         Report(w).conditions[i] = IF spec[p][acting[p]][setup.of[p][i]] = "off" THEN "" ELSE "True"
  BY <1>2, <1>6, <1>8, <1>10, Zenon
<1>14. QED
  BY <1>1, <1>10, <1>12, <1>13, Zenon

LEMMA PassEndsSince ==
  ASSUME TypeOK, NEW t \in Thread, PassInv(t), NEW p \in Policy, p = work[t].key, SinceInv(p),
         updatePolicyCRStatus(t) \/ statusUpdateFails(t)
  PROVE  SinceInv(p)'
<1>1. PICK w : w = work[t]
  BY Zenon
<1>2. PICK r : r = Report(w)
  BY Zenon
<1>3. w.pc = "status" /\ UNCHANGED <<setup, spec, cache, obj, acting, taken>> /\ queue' = Requeue(w)
  BY <1>1, Zenon DEF updatePolicyCRStatus, statusUpdateFails, users, history
<1>4. SUFFICES ASSUME p \notin queue' PROVE SinceInv(p)'
  BY SinceQueued, Zenon
<1>5. SyncState(w.results) = "ready" /\ p \notin queue
  BY <1>1, <1>3, <1>4, Zenon DEF Requeue
<1>6. w.key = p /\ w.gen = acting[p] /\ t = Worker(p) /\ Busy(p) /\ r.gen = acting[p]
  BY <1>1, <1>2, <1>3, ReportType, ZenonT(60) DEF TypeOK, WorkOK, Busy
<1>7. /\ r.state = "ready" /\ r.ready
      /\ \A i \in DOMAIN setup.of[p] : r.conditions[i] = IF spec[p][acting[p]][setup.of[p][i]] = "off" THEN "" ELSE "True"
      /\ \A c \in Range(setup.of[p]) : Placed(p, c) /\ Up(p, c)
  BY <1>1, <1>2, <1>3, <1>5, ReadySince, ZenonT(60)
<1>8. ~Busy(p)'
  <2>1. work'[t].pc = "idle"
    BY DEF updatePolicyCRStatus, statusUpdateFails, Idle, TypeOK
  <2>2. QED
    BY <1>6, <2>1, Zenon DEF Busy
<1>9. SUFFICES ASSUME Attended(p)'
               PROVE  /\ \A o \in taken'[p] : o[2] \notin GetWatchSources(States(p))
                      /\ acting'[p] = Len(spec'[p])
                      /\ \A c \in Range(setup'.of[p]) : Placed(p, c)' /\ Up(p, c)'
                      /\ p \notin unsaid' => SaysReady(p)'
  BY <1>8, Zenon DEF SinceInv
<1>10. cache[p].gen = w.gen /\ cache[p].status = w.status /\ \A o \in taken[p] : o[2] \notin GetWatchSources(States(p))
  BY <1>1, <1>5, <1>6, Zenon DEF SinceInv
<1>11. cache[p].gen = Len(spec[p]) /\ cache[p].status = status'[p]
  BY <1>3, <1>9 DEF Attended
<1>12. \A c : (Placed(p, c) => Placed(p, c)') /\ (Up(p, c) => Up(p, c)')
  BY <1>3, Zenon DEF Placed, Up, Asked, Objects
<1>13. ASSUME p \notin unsaid' PROVE SaysReady(p)'
  <2>1. updatePolicyCRStatus(t)
    BY <1>1, <1>6, <1>13, Zenon DEF statusUpdateFails
  <2>2. status'[p] = r
    <3>1. CASE UpToDate(w)
      BY <1>1, <1>2, <1>6, <2>1, <3>1, ZenonT(60) DEF updatePolicyCRStatus, TypeOK
    <3>2. CASE ~UpToDate(w)
      <4>1. status' = status
        BY <1>1, <2>1, <3>2, Zenon DEF updatePolicyCRStatus
      <4>2. QED
        BY <1>6, <1>10, <1>11, <3>2, <4>1, Zenon DEF UpToDate
    <3>3. QED
      BY <3>1, <3>2, Zenon
  <2>3. Latest(p)' = spec[p][acting[p]] /\ acting[p] = Len(spec'[p])
    BY <1>3, <1>6, <1>10, <1>11, Zenon DEF Latest
  <2>4. QED
    BY <1>3, <1>6, <1>7, <2>2, <2>3, ZenonT(60) DEF SaysReady
<1>14. QED
  BY <1>3, <1>6, <1>7, <1>10, <1>11, <1>12, <1>13, Zenon

\* What others do to objects is noticed, but for the kinds nobody watches.
LEMMA ClusterSince ==
  ASSUME TypeOK, NEW p \in Policy, SinceInv(p), NEW q \in Policy, NEW o \in Objects(q),
         daemonSetObserved(q, o) \/ podsChange(q, o) \/ garbageCollected(q, o) \/ deletedByHand(q, o)
  PROVE  SinceInv(p)'
<1>1. PICK t \in Thread : t = Worker(p)
  BY Zenon DEF Worker, Thread
<1>2. UNCHANGED <<setup, spec, status, cache, acting, work, unsaid>> /\ queue' = Notify(q, o[2])
  BY ClusterEffect, Zenon DEF users
<1>3. PICK v \in ObjectType :
        /\ ObjectStep(q, o, v)
        /\ \/ v = Gone /\ taken' = [taken EXCEPT ![q] = @ \cup {o}]
           \/ v.gen = obj[q][o].gen /\ taken' = taken /\ o[2] = "DaemonSet"
  BY ClusterEffect, Zenon
<1>4. p \in queue => p \in queue'
  BY <1>2, Zenon DEF Notify
<1>5. Busy(p)' <=> Busy(p)
  BY <1>2, Zenon DEF Busy
<1>6. CASE q # p
  <2>1. obj'[p] = obj[p] /\ taken'[p] = taken[p]
    BY <1>3, <1>6, Zenon DEF ObjectStep, TypeOK
  <2>2. QED
    BY <1>1, <1>2, <1>4, <1>5, <2>1, SinceKept, Zenon
<1>7. CASE q = p /\ o[2] \in GetWatchSources(States(p))
  <2>1. p \in queue'
    BY <1>2, <1>7, Zenon DEF Notify
  <2>2. QED
    BY <2>1, SinceQueued, Zenon
<1>8. CASE q = p /\ o[2] \notin GetWatchSources(States(p))
  <2>1. o[1] \in DOMAIN States(p)
    BY <1>8, ObjectsType, OfType, Zenon DEF TypeOK
  <2>2. o[2] # "DaemonSet"
    BY <1>8, <2>1, ComponentFacts, Zenon
  <2>3. v = Gone /\ taken'[p] = taken[p] \cup {o}
    BY <1>3, <1>8, <2>2, Zenon DEF TypeOK
  <2>4. \A x \in Objects(p) : obj'[p][x] = IF x = o THEN Gone ELSE obj[p][x]
    BY <1>3, <1>8, <2>3, ZenonT(60) DEF ObjectStep, TypeOK, PolicyOK
  <2>5. Asked(p)' = Asked(p)
    BY <1>2, Zenon DEF Asked
  <2>6. \A c : Up(p, c) => Up(p, c)'
    BY <1>2, <2>2, <2>4, <2>5, UpKept, Zenon
  <2>7. \A c : Placed(p, c) => Placed(p, c)'
    BY <1>2, <2>3, <2>4, PlacedKept, Zenon
  <2>8. queue' = queue
    BY <1>2, <1>8, Zenon DEF Notify
  <2>9. Attended(p)' <=> Attended(p)
    BY <1>2, <2>8, Zenon DEF Attended, Exists
  <2>10. SaysReady(p)' <=> SaysReady(p)
    BY <1>2, Zenon DEF SaysReady, Latest
  <2>11. ASSUME Busy(p), p \notin queue
         PROVE  /\ cache'[p].gen = work'[t].gen /\ cache'[p].status = work'[t].status
                /\ \A i \in DOMAIN work'[t].results : work'[t].results[i] = "ready" => Up(p, setup.of[p][i])'
    <3>1. /\ cache[p].gen = work[t].gen /\ cache[p].status = work[t].status
          /\ \A i \in DOMAIN work[t].results : work[t].results[i] = "ready" => Up(p, setup.of[p][i])
      BY <1>1, <2>11, Zenon DEF SinceInv
    <3>2. ASSUME NEW i \in DOMAIN work[t].results, work[t].results[i] = "ready"
          PROVE  Up(p, setup.of[p][i])'
      <4>1. PICK c : c = setup.of[p][i]
        BY Zenon
      <4>2. Up(p, c)'
        BY <2>6, <3>1, <3>2, <4>1, Zenon
      <4>3. QED
        BY <1>2, <4>1, <4>2, Zenon DEF Up
    <3>3. QED
      BY <1>2, <3>1, <3>2, Zenon
  <2>12. Attended(p) \/ (Busy(p) /\ p \notin queue) => \A x \in taken'[p] : x[2] \notin GetWatchSources(States(p))
    BY <1>8, <2>3, Zenon DEF SinceInv
  <2>13. /\ Attended(p) => acting'[p] = Len(spec'[p])
         /\ Attended(p) /\ ~Busy(p) =>
              /\ \A c \in Range(setup.of[p]) : Placed(p, c)' /\ Up(p, c)'
              /\ p \notin unsaid => SaysReady(p)'
    BY <1>2, <2>6, <2>7, <2>10, Zenon DEF SinceInv
  <2>14. Attended(p)' \/ (Busy(p)' /\ p \notin queue') => \A x \in taken'[p] : x[2] \notin GetWatchSources(States(p))
    BY <1>5, <2>8, <2>9, <2>12, Zenon
  <2>15. Attended(p)' => acting'[p] = Len(spec'[p])
    BY <2>9, <2>13, Zenon
  <2>16. Attended(p)' /\ ~Busy(p)' =>
           /\ \A c \in Range(setup'.of[p]) : Placed(p, c)' /\ Up(p, c)'
           /\ p \notin unsaid' => SaysReady(p)'
    BY <1>2, <1>5, <2>9, <2>13, Zenon
  <2>17. QED
    BY <1>1, <1>5, <2>8, <2>11, <2>14, <2>15, <2>16, Zenon DEF SinceInv
<1>9. QED
  BY <1>6, <1>7, <1>8, Zenon

LEMMA SubmitSince ==
  ASSUME TypeOK, NEW p \in Policy, SinceInv(p), NEW q \in Policy, NEW s \in Specs(q) \cup {NoPolicy}, Submit(q, s)
  PROVE  SinceInv(p)'
<1>1. PICK t \in Thread : t = Worker(p)
  BY Zenon DEF Worker, Thread
<1>2. UNCHANGED <<setup, cache, obj, queue, work, acting, taken, unsaid>>
  BY Zenon DEF Submit, history
<1>3. Busy(p)' <=> Busy(p)
  BY <1>2, Zenon DEF Busy
<1>4. CASE q # p
  <2>1. spec'[p] = spec[p] /\ status'[p] = status[p]
    BY <1>4, SubmitEffect, Zenon DEF Submit, TypeOK
  <2>2. QED
    BY <1>1, <1>2, <1>3, <2>1, SinceKept, Zenon
<1>5. CASE q = p
  <2>1. Len(spec'[p]) = Len(spec[p]) + 1 /\ \A g \in 1 .. Len(spec[p]) : spec'[p][g] = spec[p][g]
    BY <1>5, SubmitEffect, Zenon
  <2>2. cache'[p].gen # Len(spec'[p])
    BY <1>2, <2>1, GenType
  <2>3. ~Attended(p)'
    BY <2>2 DEF Attended
  <2>4. ASSUME Busy(p), p \notin queue
        PROVE  /\ cache'[p].gen = work'[t].gen /\ cache'[p].status = work'[t].status
               /\ \A i \in DOMAIN work'[t].results : work'[t].results[i] = "ready" => Up(p, setup.of[p][i])'
               /\ \A o \in taken'[p] : o[2] \notin GetWatchSources(States(p))
    <3>1. /\ cache[p].gen = work[t].gen /\ cache[p].status = work[t].status
          /\ \A i \in DOMAIN work[t].results : work[t].results[i] = "ready" => Up(p, setup.of[p][i])
          /\ \A o \in taken[p] : o[2] \notin GetWatchSources(States(p))
      BY <1>1, <2>4, Zenon DEF SinceInv
    <3>2. acting[p] # 0
      BY <1>1, <2>4, ZenonT(60) DEF Busy, TypeOK, WorkOK
    <3>3. acting[p] \in 1 .. Len(spec[p])
      BY <3>2, GenType
    <3>4. Asked(p)' = Asked(p)
      BY <1>2, <2>1, <3>3, Zenon DEF Asked
    <3>5. \A c : Up(p, c) => Up(p, c)'
      BY <1>2, <3>4, UpKept, Zenon
    <3>6. ASSUME NEW i \in DOMAIN work[t].results, work[t].results[i] = "ready"
          PROVE  Up(p, setup.of[p][i])'
      <4>1. PICK c : c = setup.of[p][i]
        BY Zenon
      <4>2. Up(p, c)'
        BY <3>1, <3>5, <3>6, <4>1, Zenon
      <4>3. QED
        BY <1>2, <4>1, <4>2, Zenon DEF Up
    <3>7. QED
      BY <1>2, <3>1, <3>6, Zenon
  <2>5. QED
    BY <1>1, <1>2, <1>3, <2>3, <2>4, Zenon DEF SinceInv
<1>6. QED
  BY <1>4, <1>5, Zenon

LEMMA NextSince ==
  ASSUME TypeOK, \A t \in Thread : PassInv(t) /\ CheckInv(t), [Next]_vars, NEW p \in Policy, SinceInv(p)
  PROVE  SinceInv(p)'
<1>1. PICK t \in Thread : t = Worker(p)
  BY Zenon DEF Worker, Thread
<1>2. CASE UNCHANGED <<setup, spec, status, cache, obj, queue, work, acting, taken, unsaid>>
  <2>1. Busy(p)' <=> Busy(p)
    BY <1>2, Zenon DEF Busy
  <2>2. QED
    BY <1>1, <1>2, <2>1, SinceKept, Zenon
<1>3. ASSUME NEW q \in Policy, observe(q) PROVE SinceInv(p)'
  <2>1. CASE q = p
    BY <1>3, <2>1, SinceQueued, Zenon DEF observe
  <2>2. CASE q # p
    <3>1. /\ UNCHANGED <<setup, spec, status, obj, work, acting, taken, unsaid>> /\ cache'[p] = cache[p]
          /\ p \in queue => p \in queue'
      BY <1>3, <2>2, Zenon DEF observe, users, history, TypeOK
    <3>2. Busy(p)' <=> Busy(p)
      BY <3>1, Zenon DEF Busy
    <3>3. QED
      BY <1>1, <3>1, <3>2, SinceKept, Zenon
  <2>3. QED
    BY <2>1, <2>2, Zenon
<1>4. CASE operatorRestarts
  <2>1. CASE Exists(p)
    BY <1>4, <2>1, SinceQueued, Zenon DEF operatorRestarts
  <2>2. CASE ~Exists(p)
    <3>1. ~Attended(p)'
      BY <1>4, <2>2, Zenon DEF operatorRestarts, users, Attended, Exists
    <3>2. ~Busy(p)'
      BY <1>1, <1>4, Zenon DEF operatorRestarts, Busy, Idle
    <3>3. QED
      BY <3>1, <3>2, Zenon DEF SinceInv
  <2>3. QED
    BY <2>1, <2>2, Zenon
<1>5. ASSUME NEW u \in Thread, Step(u) \/ callFails(u) \/ statusUpdateFails(u) PROVE SinceInv(p)'
  <2>1. CASE work[u].key # p
    BY <1>5, <2>1, OtherSince, Zenon
  <2>2. CASE work[u].key = p
    BY <1>5, <2>2, PassSince, PassEndsSince, Zenon DEF Step
  <2>3. QED
    BY <2>1, <2>2, Zenon
<1>6. CASE crdInstalled \/ UNCHANGED vars
  BY <1>2, <1>6, Zenon DEF crdInstalled, history, vars
<1>7. CASE \E q \in Policy : userDeletes(q) \/ \E s \in Specs(q) : userSubmits(q, s)
  BY <1>7, SubmitSince, Zenon DEF userDeletes, userSubmits
<1>8. QED
  BY <1>3, <1>4, <1>5, <1>6, <1>7, ReconcileSince, ClusterSince, Zenon DEF Next

QuietInv == Inv /\ (\A t \in Thread : CheckInv(t)) /\ \A p \in Policy : SinceInv(p)

LEMMA QuietTruthful == QuietInv => QuietStatusTruthful
<1> SUFFICES ASSUME QuietInv, NEW p \in Policy, Exists(p), Quiet(p)
             PROVE  InPlace(p) /\ (p \notin unsaid => SaysReady(p))
  BY Zenon DEF QuietStatusTruthful
<1>1. TypeOK /\ TakenInv(p) /\ SinceInv(p)
  BY Zenon DEF QuietInv, Inv
<1>2. Attended(p) /\ ~Busy(p)
  BY Zenon DEF Quiet, Attended, Busy
<1>3. /\ acting[p] = Len(spec[p]) /\ \A o \in taken[p] : o[2] \notin GetWatchSources(States(p))
      /\ \A c \in Range(setup.of[p]) : Placed(p, c) /\ Up(p, c)
      /\ p \notin unsaid => SaysReady(p)
  BY <1>1, <1>2, Zenon DEF SinceInv
<1>4. Asked(p) = Wanted(p, Latest(p))
  BY <1>3, Zenon DEF Asked, Latest
<1>5. \A o \in Objects(p) : o[1] \in Range(setup.of[p])
  BY <1>1, ObjectsType, Zenon DEF TypeOK
<1>6. \A o \in Objects(p) \ taken[p] : obj[p][o].gen = IF o \in Wanted(p, Latest(p)) THEN Len(spec[p]) ELSE 0
  BY <1>3, <1>4, <1>5, Zenon DEF Placed
<1>7. \A o \in Objects(p) : o \in Wanted(p, Latest(p)) /\ o[2] = "DaemonSet" => obj[p][o].full
  BY <1>3, <1>4, <1>5, Zenon DEF Up
<1>8. \A o \in taken[p] : obj[p][o].gen = 0 \/ (o \in Wanted(p, Latest(p)) /\ obj[p][o].gen = Len(spec[p]))
  BY <1>1, <1>3, <1>4, Zenon DEF TakenInv
<1>9. InPlace(p)
  BY <1>3, <1>6, <1>7, <1>8, Zenon DEF InPlace
<1>10. QED
  BY <1>3, <1>9, Zenon

\* Whenever a controller has nothing left to do for a policy, the objects are
\* those of its latest spec, all its DaemonSets are up, and its status says
\* ready for that spec, component by component; whatever was edited, deleted,
\* refused, lost or restarted on the way.
THEOREM StatusTruthfulWhenQuiet == Spec => []QuietStatusTruthful
<1>1. Init => QuietInv
  <2>1. ASSUME Init, NEW p \in Policy PROVE SinceInv(p)
    <3>1. ~Attended(p)
      BY <2>1, Zenon DEF Init, Attended, Exists
    <3>2. ~Busy(p)
      BY <2>1, Zenon DEF Init, Busy, Idle, Worker, Thread
    <3>3. QED
      BY <3>1, <3>2, Zenon DEF SinceInv
  <2>2. ASSUME Init, NEW t \in Thread PROVE CheckInv(t)
    BY <2>2, Zenon DEF Init, CheckInv, Idle
  <2>3. QED
    BY <2>1, <2>2, InitInv, Zenon DEF QuietInv
<1>2. QuietInv /\ [Next]_vars => QuietInv'
  <2>1. SUFFICES ASSUME QuietInv, [Next]_vars PROVE QuietInv'
    BY Zenon
  <2>2. \A p \in Policy : SinceInv(p)'
    BY <2>1, NextSince, Zenon DEF QuietInv, Inv
  <2>3. \A t \in Thread : CheckInv(t)'
    BY <2>1, NextCheck, Zenon DEF QuietInv, Inv
  <2>4. QED
    BY <2>1, <2>2, <2>3, NextInv, Zenon DEF QuietInv
<1>3. QED
  BY <1>1, <1>2, QuietTruthful, PTL DEF Spec
=============================================================================
