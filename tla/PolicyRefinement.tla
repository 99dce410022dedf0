-------------------------- MODULE PolicyRefinement --------------------------
(***************************************************************************)
(* What PolicySync says about PolicyPromise: of a spec the objects it asks  *)
(* for, of an object the spec it was deployed for, of a status which spec   *)
(* it is about and whether it is ready.                                     *)
(***************************************************************************)
EXTENDS PolicySync

\* The controllers implement the promise of PolicyPromise: a spec is acted on
\* in order, a pass touches only the objects of its own policy and only
\* towards the spec it read, and readiness is claimed for a spec only after
\* its objects are in place and superseded ones are gone.
Promise ==
  INSTANCE PolicyPromise WITH
    asked <- [p \in Policy |-> [g \in DOMAIN spec[p] |-> Wanted(p, spec[p][g])]],
    have <- [p \in Policy |-> [o \in DOMAIN obj[p] |-> obj[p][o].gen]],
    claim <- [p \in Policy |-> [gen |-> status[p].gen, ready |-> status[p].ready]]

PromiseKept == Promise!Spec

=============================================================================
