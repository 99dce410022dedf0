----------------------------- MODULE Components -----------------------------
(***************************************************************************)
(* The components that a policy configures besides the OFED driver, as far  *)
(* as their states (pkg/state/state_*.go) differ.  They all run the same    *)
(* Sync, which PolicySync models; what sets one apart is recorded here:     *)
(*                                                                          *)
(*   kinds    what its manifests render, in the order they are applied      *)
(*            ("Support" stands for ServiceAccounts, RBAC, CRDs, Services)  *)
(*   plain    the same without those that only some settings ask for        *)
(*   watches  the kinds whose events it asks for                            *)
(*   shared   NicNodePolicies have it too, told apart by the ds-owner label *)
(*   needsCRD it waits for the CRD of the maintenance operator              *)
(***************************************************************************)
EXTENDS Sequences

Component(kinds, plain, watches, shared, needsCRD) ==
  [kinds |-> kinds, plain |-> plain, watches |-> watches, shared |-> shared, needsCRD |-> needsCRD]

\* A component of the cluster policy whose settings do not change what it renders.
Fixed(kinds, watches, needsCRD) == Component(kinds, kinds, watches, FALSE, needsCRD)

stateMultusCNI ==
  Component(<<"Support", "ConfigMap", "DaemonSet">>, <<"Support", "DaemonSet">>, {"DaemonSet", "ConfigMap"},
            FALSE, FALSE)

stateCNIPlugins == Fixed(<<"DaemonSet">>, {"DaemonSet"}, FALSE)

stateIPoIBCNI == Fixed(<<"Support", "DaemonSet">>, {"DaemonSet"}, FALSE)

stateIBKubernetes == Fixed(<<"Support", "Deployment">>, {"Deployment"}, FALSE)

stateNVIPAMCNI == Fixed(<<"Support", "Deployment", "DaemonSet">>, {"DaemonSet", "Deployment", "ConfigMap"}, FALSE)

stateNICFeatureDiscovery == Fixed(<<"Support", "DaemonSet">>, {"DaemonSet"}, FALSE)

\* shouldDeployConfigMap: none if the policy names a ConfigMap of its own.
docaTelemetryServiceState ==
  Component(<<"DaemonSet", "ConfigMap", "Support">>, <<"DaemonSet", "Support">>, {"DaemonSet"}, FALSE, FALSE)

stateSpectrumXOperator == Fixed(<<"Support", "DaemonSet">>, {"DaemonSet"}, FALSE)

stateNicConfigurationOperator ==
  Fixed(<<"Support", "ConfigMap", "Deployment", "DaemonSet">>, {"DaemonSet", "Deployment", "ConfigMap"}, TRUE)

stateRDMASharedDevicePlugin ==
  Component(<<"Support", "ConfigMap", "DaemonSet">>, <<"Support", "DaemonSet">>, {"DaemonSet", "ConfigMap"},
            TRUE, FALSE)

stateSriovDp ==
  Component(<<"ConfigMap", "Support", "DaemonSet">>, <<"Support", "DaemonSet">>, {"DaemonSet", "ConfigMap"},
            TRUE, FALSE)

newNicNodePolicyStates ==
  [rdma |-> stateRDMASharedDevicePlugin, sriovDp |-> stateSriovDp]

newNicClusterPolicyStates ==
  [multus |-> stateMultusCNI, cniPlugins |-> stateCNIPlugins, ipoib |-> stateIPoIBCNI,
   rdma |-> stateRDMASharedDevicePlugin, sriovDp |-> stateSriovDp,
   ibKubernetes |-> stateIBKubernetes, nvIpam |-> stateNVIPAMCNI,
   nicFeatureDiscovery |-> stateNICFeatureDiscovery,
   docaTelemetry |-> docaTelemetryServiceState,
   nicConfigurationOperator |-> stateNicConfigurationOperator,
   spectrumX |-> stateSpectrumXOperator]

\* A state manager watches what any of its states watches.
GetWatchSources(states) == UNION {states[c].watches : c \in DOMAIN states}

\* GetSupportedGVKs: the order in which objects are looked for and deleted.
\* "Support" has the place of ServiceAccounts; the rest of it comes last.
GetSupportedGVKs == <<"Support", "ConfigMap", "DaemonSet", "Deployment">>

=============================================================================
