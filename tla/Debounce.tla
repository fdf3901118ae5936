------------------------------ MODULE Debounce ------------------------------
(***************************************************************************)
(* What the failure counter of a node is for: a node is healthy exactly    *)
(* when at least one of its last K checks passed, checks before the start  *)
(* counting as failed.  window[n][1] is the latest verdict on node n.      *)
(***************************************************************************)
EXTENDS Naturals

CONSTANTS
  Node,
  K        \* the number of failed checks in a row that makes a node unhealthy

VARIABLES window, healthy

dvars == <<window, healthy>>

Shift(w, verdict) == [i \in 1 .. K |-> IF i = 1 THEN verdict ELSE w[i - 1]]

DInit ==
  /\ window = [n \in Node |-> [i \in 1 .. K |-> FALSE]]
  /\ healthy = [n \in Node |-> FALSE]

Round(verdicts) ==
  /\ window' = [n \in Node |-> Shift(window[n], verdicts[n])]
  /\ healthy' = [n \in Node |-> \E i \in 1 .. K : window'[n][i]]

DNext == \E verdicts \in [Node -> BOOLEAN] : Round(verdicts)

DSpec == DInit /\ [][DNext]_dvars
=============================================================================
