---------------------------- MODULE PolicyPromise ----------------------------
(***************************************************************************)
(* What the operator promises the author of a policy about the objects it   *)
(* deploys, whatever components the policy configures.  Specs are submitted *)
(* one after the other and acted on in that order, possibly skipping some.  *)
(* Acting on a spec moves objects to what that spec wants and to nothing    *)
(* else; readiness is claimed for a spec once its objects are in place.     *)
(* Others may take objects away at any time.                                *)
(***************************************************************************)
EXTENDS Naturals, Sequences

CONSTANT Policy

VARIABLES
  asked,    \* for each policy the object sets its specs ask for, in order
  acting,   \* the spec that is acted on, 0 at first
  have,     \* the spec that each object of the policy was deployed for, or 0
  taken,    \* objects that others took since the current spec was taken up
  claim     \* the last report: on which spec, and whether it is ready

promise == <<asked, acting, have, taken, claim>>

NoClaim == [gen |-> 0, ready |-> FALSE]

Wanted(p) == IF acting[p] = 0 THEN {} ELSE asked[p][acting[p]]

Init ==
  /\ asked = [p \in Policy |-> <<>>]
  /\ acting = [p \in Policy |-> 0]
  /\ \A p \in Policy : \A o \in DOMAIN have[p] : have[p][o] = 0
  /\ taken = [p \in Policy |-> {}]
  /\ claim = [p \in Policy |-> NoClaim]

\* The report stays with the policy, and goes when the policy is deleted.
Submit(p, want) ==
  /\ UNCHANGED <<acting, have, taken>>
  /\ asked' = [asked EXCEPT ![p] = Append(@, want)]
  /\ claim' \in {claim, [claim EXCEPT ![p] = NoClaim]}

TakeUp(p) ==
  /\ \E g \in acting[p] .. Len(asked[p]) : acting' = [acting EXCEPT ![p] = g]
  /\ taken' = [taken EXCEPT ![p] = {}]
  /\ UNCHANGED <<asked, have, claim>>

Deploy(p, o) ==
  /\ o \in Wanted(p)
  /\ have' = [have EXCEPT ![p][o] = acting[p]]
  /\ UNCHANGED <<asked, acting, taken, claim>>

Remove(p, o) ==
  /\ o \notin Wanted(p)
  /\ have' = [have EXCEPT ![p][o] = 0]
  /\ UNCHANGED <<asked, acting, taken, claim>>

Take(p, o) ==
  /\ have' = [have EXCEPT ![p][o] = 0]
  /\ taken' = [taken EXCEPT ![p] = @ \cup {o}]
  /\ UNCHANGED <<asked, acting, claim>>

InPlace(p) ==
  \A o \in DOMAIN have[p] \ taken[p] :
    have[p][o] = IF o \in Wanted(p) THEN acting[p] ELSE 0

Report(p, ready) ==
  /\ ready => InPlace(p)
  /\ claim' = [claim EXCEPT ![p] = [gen |-> acting[p], ready |-> ready]]
  /\ UNCHANGED <<asked, acting, have, taken>>

Next ==
  \E p \in Policy :
    \/ TakeUp(p)
    \/ \E ready \in BOOLEAN : Report(p, ready)
    \/ \E o \in DOMAIN have[p] : Deploy(p, o) \/ Remove(p, o) \/ Take(p, o)
    \/ \E want \in SUBSET DOMAIN have[p] : Submit(p, want)

Spec == Init /\ [][Next]_promise

=============================================================================
