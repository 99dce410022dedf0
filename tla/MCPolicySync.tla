---------------------------- MODULE MCPolicySync ----------------------------
(* Instances of PolicySync.                                                  *)
EXTENDS PolicyRefinement

CONSTANT np

Of(ofNcp, ofNp) == [p \in Policy |-> IF p = Ncp THEN ofNcp ELSE ofNp]

\* Each component by itself in the cluster policy; faults for one of each
\* shape: a DaemonSet only, a Deployment, an optional ConfigMap.
Alone ==
  {[of |-> Of(<<c>>, <<>>), modes |-> {"off", "plain", "full", "invalid"}, edits |-> 2,
    faults |-> IF c \in {"cniPlugins", "ibKubernetes", "rdma"} THEN 1 ELSE 0] :
     c \in DOMAIN newNicClusterPolicyStates}

\* A policy that is deleted and created again.
Recreated ==
  {[of |-> Of(<<"cniPlugins">>, <<>>), modes |-> {"off", "plain"}, edits |-> 3, faults |-> 1]}

\* Two components in one policy, and one component in two policies.
Together ==
  {[of |-> Of(<<"cniPlugins", "ibKubernetes">>, <<>>), modes |-> {"off", "plain", "invalid"}, edits |-> 2, faults |-> 0],
   [of |-> Of(<<"rdma">>, <<"rdma">>), modes |-> {"off", "plain"}, edits |-> 2, faults |-> 0]}

MCSetups == Alone \cup Recreated \cup Together

=============================================================================
