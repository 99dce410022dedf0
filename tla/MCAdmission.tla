----------------------------- MODULE MCAdmission -----------------------------
(* Instances of Admission.                                                   *)
EXTENDS Admission, TLC

CONSTANTS n1, n2, p1, p2

Labels == (n1 :> {"a"}) @@ (n2 :> {"b"})

A == [sel |-> {"a"}, sections |-> {"ofed"}]
B == [sel |-> {"b"}, sections |-> {"rdma"}]
All == [sel |-> {}, sections |-> {"ofed"}]
Empty == [sel |-> {"b"}, sections |-> {}]

Base ==
  [labels |-> Labels, found |-> (p1 :> A) @@ (p2 :> None), specs |-> {A, B},
   sections |-> {}, other |-> None, edits |-> 0, relabels |-> 0, faults |-> 0]

\* Requests race, also those that hand a node over or recreate a policy.
Racing == [Base EXCEPT !.edits = 3]

Widened == [Base EXCEPT !.specs = {A, B, All}, !.edits = 2, !.faults = 1]

\* Nodes are relabelled under two policies, one of which may be edited.
Relabelled == [Base EXCEPT !.found[p2] = B, !.edits = 1, !.relabels = 1]

RelabelledTwice == [Base EXCEPT !.found[p2] = B, !.relabels = 2]

\* Both kinds of policies, an ignored cluster policy, and faults.
Mixed(other) ==
  [Base EXCEPT !.specs = {A, B, Empty}, !.sections = {{}, {"ofed"}, {"ofed", "rdma"}},
               !.other = other, !.edits = 2, !.faults = 1]

MCSetups == {Racing, Widened, Relabelled, RelabelledTwice, Mixed(None), Mixed({"rdma"})}
=============================================================================
