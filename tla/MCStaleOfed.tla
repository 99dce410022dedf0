----------------------------- MODULE MCStaleOfed -----------------------------
(***************************************************************************)
(* Instances of StaleOfed.  The DaemonSets d1 and d2 are the ones rendered  *)
(* for the two pools; old is one of an older release for the first pool and *)
(* bare one that is pinned to no pool.  The first node carries the label    *)
(* zone, and the nodes of the first pool all carry os.                      *)
(***************************************************************************)
EXTENDS StaleOfed, TLC

CONSTANTS n1, n2, p1, p2, d1, d2, old, bare, zone, os

MCNodeLabels == [n \in Node |-> IF n = n1 THEN {zone} ELSE {}]

MCPoolLabels == [p \in Pool |-> IF p = p1 THEN {os} ELSE {}]

MCRenderedKey == [p \in Pool |-> IF p = p1 THEN d1 ELSE d2]

MCKeyPool ==
  [k \in Key |-> CASE k = d2 -> p2 [] k = bare -> NoPool [] OTHER -> p1]

\* A selector that the labels of the first pool answer and those of the
\* second do not.
MCPoolSelectors == {{}, {os}}

MCNodeSelectors == {{}, {zone}}

\* Faults are explored with the DaemonSets the manifest renders and the empty
\* selector, the rest without faults.  No step of the worker, the timer or
\* the clock leaves these states, so they are a choice of what users and
\* faults do and cut no fair step off.
FaultsOfRendered ==
  faults > 0 =>
    /\ ds \subseteq {RenderedKey[p] : p \in Pool}
    /\ {spec.sel, run.sel} \cup {sel[k] : k \in Key} = {{}}
=============================================================================
