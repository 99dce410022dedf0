------------------------------ MODULE MCNetwork ------------------------------
(* An instance of Network.                                                   *)
EXTENDS Network

MCNamespace == {"default", "other"}

\* Bound: three edits without and two with a fault or of the config.  Configs
\* being alike, the first one of a network is 1.
Bounded ==
  /\ edits = 3 => faults = 0 /\ cr.config # 2
  /\ cr # NoNetwork /\ cr.gen = cr.uid => cr.config = 1

=============================================================================
