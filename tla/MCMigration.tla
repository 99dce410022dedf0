----------------------------- MODULE MCMigration -----------------------------
(* Instances of Migration.                                                   *)
EXTENDS Migration

CONSTANTS n1, n2, p1, p2

MCHome == [n \in Node |-> IF n = n1 THEN p1 ELSE p2]

Conf(ncp, c1, c2) == [o \in Owner |-> IF o = Ncp THEN ncp ELSE IF o = p1 THEN c1 ELSE c2]

\* The operator is upgraded from an older release; two node policies, of
\* which one or none upgrades automatically; the cluster policy upgrades, and
\* may give way to a node policy.
Old == {<<"single", Conf("auto", "absent", "absent")>>, <<"unlabelled", Conf("auto", "absent", "absent")>>}

ByNode == <<"no", Conf("absent", "auto", "manual")>>

ByCluster == <<"no", Conf("auto", "absent", "absent")>>

Setup(found, e, f) == [old |-> found[1], conf |-> found[2], edits |-> e, faults |-> f]

MCSetups ==
  {Setup(f, 0, 1) : f \in Old} \cup {Setup(f, 1, 0) : f \in {x \in Old : x[1] = "single"}}
  \cup {Setup(ByNode, 1, 1), Setup(ByNode, 2, 0), Setup(ByCluster, 2, 0)}

\* One node policy upgrades automatically; one new driver, and one fault.
MCOneFault == {Setup(ByNode, 1, 1)}

\* A node is handed over by the cluster policy with its state only: what there is
\* in requestor mode beyond that is in the other set-ups.
HandoverInPlace == setup.old = "no" /\ setup.conf[Ncp] = "auto" => ~requestor

=============================================================================
