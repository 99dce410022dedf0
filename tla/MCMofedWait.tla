---------------------------- MODULE MCMofedWait ----------------------------
(* Instances of MofedWait: a NicNodePolicy selects n1; n2 has no NIC.       *)
EXTENDS MofedWait, TLC

CONSTANTS n1, n2, q1

AllModes == {"absent", "plain", "ofed"}

SelectsFirst == [q \in Policy |-> {n1}]

\* The driver is configured in NicNodePolicies only, or in the cluster policy.
NodePolicies == [o \in Owner |-> IF o = Ncp THEN {"absent", "plain"} ELSE {"absent", "ofed"}]

NodePoliciesEdited == [o \in Owner |-> IF o = Ncp THEN {"absent", "plain"} ELSE AllModes]

ClusterPolicyOnly == [o \in Owner |-> IF o = Ncp THEN AllModes ELSE {"absent", "plain"}]

CreatedAndDeleted ==
  {[modes |-> NodePolicies, faults |-> 0], [modes |-> ClusterPolicyOnly, faults |-> 1]}

NodePolicyFaults == [modes |-> NodePoliciesEdited, faults |-> 1]

AllSetups == CreatedAndDeleted \cup {NodePolicyFaults}

NodePolicyEdits == {[modes |-> NodePoliciesEdited, faults |-> 0]}

=============================================================================
