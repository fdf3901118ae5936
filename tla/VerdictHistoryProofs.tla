------------------------ MODULE VerdictHistoryProofs ------------------------
(***************************************************************************)
(* The failure counter of a node debounces its verdicts: HSpec implements  *)
(* Debounce for the EL and for the CL nodes, for every number of nodes,    *)
(* every threshold (0 included) and every width of the counter.            *)
(***************************************************************************)
EXTENDS VerdictHistory, HealthMonitorProofs

(***************************************************************************)
(* How the counter f of a node and its verdict stand to its last K checks  *)
(* w.  A healthy node passed f + 1 checks ago and has failed since; of an  *)
(* unhealthy one the counter says nothing, since it may have wrapped.      *)
(***************************************************************************)
Counted(f, is_healthy, w) ==
  IF is_healthy
    THEN /\ f < K
         /\ w[f + 1]
         /\ \A i \in 1 .. f : ~w[i]
    ELSE \A i \in 1 .. K : ~w[i]

Windows(Node) == [Node -> [1 .. K -> BOOLEAN]]

ElCounted ==
  /\ el_window \in Windows(EL)
  /\ \A n \in EL :
       Counted(el_nodes[n].consecutive_failures, el_nodes[n].is_healthy, el_window[n])

ClCounted ==
  /\ cl_window \in Windows(CL)
  /\ \A n \in CL :
       Counted(cl_nodes[n].consecutive_failures, cl_nodes[n].is_healthy, cl_window[n])

LEMMA Threshold == K \in Nat \ {0} /\ K < FailureWrap /\ K >= MaxFailures
BY WidthAssumption DEF K

(***************************************************************************)
(* One verdict.  The counter of a healthy node is below K, hence does not  *)
(* wrap when it is incremented.                                            *)
(***************************************************************************)
CounterAfter(f, passed) == IF passed THEN 0 ELSE NextFailure(f)
HealthyAfter(f, is_healthy, passed) ==
  IF passed THEN TRUE ELSE is_healthy /\ CounterAfter(f, passed) < MaxFailures
WindowAfter(w, passed) == [i \in 1 .. K |-> IF i = 1 THEN passed ELSE w[i - 1]]

LEMMA OneVerdict ==
  ASSUME NEW f \in FailureCount, NEW is_healthy \in BOOLEAN,
         NEW w \in [1 .. K -> BOOLEAN], NEW passed \in BOOLEAN,
         Counted(f, is_healthy, w)
  PROVE  /\ WindowAfter(w, passed) \in [1 .. K -> BOOLEAN]
         /\ Counted(CounterAfter(f, passed), HealthyAfter(f, is_healthy, passed),
                    WindowAfter(w, passed))
         /\ HealthyAfter(f, is_healthy, passed) <=> \E i \in 1 .. K : WindowAfter(w, passed)[i]
<1> DEFINE g == CounterAfter(f, passed)
           h == HealthyAfter(f, is_healthy, passed)
           v == WindowAfter(w, passed)
<1> USE Threshold
<1>1. v \in [1 .. K -> BOOLEAN]
  <2>1. \A i \in 1 .. K : i # 1 => i - 1 \in 1 .. K
    OBVIOUS
  <2> QED BY <2>1 DEF WindowAfter
<1>2. CASE passed
  <2>1. g = 0 /\ h /\ v[1] /\ 1 \in 1 .. K
    BY <1>2 DEF CounterAfter, HealthyAfter, WindowAfter
  <2>2. g < K /\ g + 1 = 1 /\ (\A i \in 1 .. g : ~v[i])
    BY <2>1
  <2> HIDE DEF g, h, v
  <2>3. Counted(g, h, v)
    BY <2>1, <2>2 DEF Counted
  <2>4. h <=> \E i \in 1 .. K : v[i]
    BY <2>1
  <2> QED BY <1>1, <2>3, <2>4 DEF g, h, v
<1>3. CASE ~passed /\ ~is_healthy
  <2>1. ~h
    BY <1>3 DEF HealthyAfter
  <2>2. ASSUME NEW i \in 1 .. K PROVE ~v[i]
    <3>1. i # 1 => i - 1 \in 1 .. K
      OBVIOUS
    <3> QED BY <1>3, <3>1 DEF Counted, WindowAfter
  <2> HIDE DEF g, h, v
  <2>3. Counted(g, h, v)
    BY <2>1, <2>2 DEF Counted
  <2>4. h <=> \E i \in 1 .. K : v[i]
    BY <2>1, <2>2
  <2> QED BY <1>1, <2>3, <2>4 DEF g, h, v
<1>4. CASE ~passed /\ is_healthy
  <2>1. f \in Nat /\ f < K /\ w[f + 1] /\ \A i \in 1 .. f : ~w[i]
    BY <1>4 DEF Counted, FailureCount
  <2>2. g = f + 1 /\ g \in 1 .. K
    BY <1>4, <2>1, WidthAssumption DEF CounterAfter, NextFailure
  <2>3. ASSUME NEW i \in 1 .. g PROVE ~v[i]
    <3>1. i \in 1 .. K /\ (i # 1 => i - 1 \in 1 .. f)
      BY <2>1, <2>2
    <3> QED BY <1>4, <2>1, <3>1 DEF WindowAfter
  <2>4. CASE g < MaxFailures
    <3>1. g < K /\ g + 1 \in 1 .. K /\ g + 1 # 1 /\ g + 1 - 1 = f + 1
      BY <2>2, <2>4, WidthAssumption
    <3>2. h
      BY <1>4, <2>4 DEF HealthyAfter
    <3>3. v[g + 1]
      <4>1. \A j \in 1 .. K : j # 1 => v[j] = w[j - 1]
        BY <1>4 DEF WindowAfter
      <4>2. v[g + 1] = w[(g + 1) - 1]
        BY <4>1, <3>1
      <4>3. (g + 1) - 1 = f + 1
        BY <2>1, <2>2
      <4> HIDE DEF g, v
      <4>4. v[g + 1] = w[f + 1]
        BY <4>2, <4>3, Zenon
      <4> QED BY <4>4, <2>1
    <3> HIDE DEF g, h, v
    <3>4. Counted(g, h, v)
      BY <2>3, <3>1, <3>2, <3>3 DEF Counted
    <3>5. h <=> \E i \in 1 .. K : v[i]
      BY <3>1, <3>2, <3>3
    <3> QED BY <1>1, <3>4, <3>5 DEF g, h, v
  <2>5. CASE ~(g < MaxFailures)
    <3>1. g = K
      BY <2>2, <2>5, WidthAssumption DEF K
    <3>2. ~h
      BY <1>4, <2>5 DEF HealthyAfter
    <3> HIDE DEF g, h, v
    <3>3. Counted(g, h, v)
      BY <2>3, <3>1, <3>2 DEF Counted
    <3>4. h <=> \E i \in 1 .. K : v[i]
      BY <2>3, <3>1, <3>2
    <3> QED BY <1>1, <3>3, <3>4 DEF g, h, v
  <2> QED BY <2>4, <2>5
<1> QED BY <1>2, <1>3, <1>4
-----------------------------------------------------------------------------
(***************************************************************************)
(* A second pass is one verdict on every node.                             *)
(***************************************************************************)
LEMMA ElRound ==
  ASSUME TypeOK, ElCounted, ElSecondPass, RecordEl
  PROVE  ElCounted' /\ ElDebounce!DNext
<1> DEFINE verdict == [n \in EL |->
             /\ el_nodes[n].check_ok
             /\ SaturatingSub(el_chain_head, el_nodes[n].block_number) <= MaxElLag]
           f(n) == el_nodes[n].consecutive_failures
           b(n) == el_nodes[n].is_healthy
<1>1. ASSUME NEW n \in EL
      PROVE  /\ verdict[n] \in BOOLEAN /\ f(n) \in FailureCount /\ b(n) \in BOOLEAN
             /\ ElPassed(n)' = verdict[n]
             /\ el_nodes'[n].consecutive_failures = CounterAfter(f(n), verdict[n])
             /\ el_nodes'[n].is_healthy = HealthyAfter(f(n), b(n), verdict[n])
  <2>1. /\ el_nodes[n] \in ElNodeState
        /\ el_nodes'[n] = calculate_el_health(el_nodes[n], el_chain_head, MaxElLag, MaxFailures)
    BY DEF TypeOK, ElSecondPass
  <2> QED
    BY <2>1 DEF calculate_el_health, Verdict, ElPassed, ElNodeState,
                CounterAfter, HealthyAfter
<1> HIDE DEF verdict
<1>2. ASSUME NEW n \in EL
      PROVE  /\ el_window[n] \in [1 .. K -> BOOLEAN]
             /\ Counted(f(n), b(n), el_window[n])
             /\ el_window'[n] = WindowAfter(el_window[n], verdict[n])
  BY <1>1 DEF RecordEl, ElDebounce!Shift, WindowAfter, ElCounted, Windows
<1>3. ASSUME NEW n \in EL
      PROVE  /\ el_window'[n] \in [1 .. K -> BOOLEAN]
             /\ Counted(el_nodes'[n].consecutive_failures, el_nodes'[n].is_healthy, el_window'[n])
             /\ el_nodes'[n].is_healthy = (\E i \in 1 .. K : el_window'[n][i])
  <2>1. HealthyAfter(f(n), b(n), verdict[n]) \in BOOLEAN
    BY <1>1 DEF HealthyAfter
  <2> DEFINE g == CounterAfter(f(n), verdict[n])
             h == HealthyAfter(f(n), b(n), verdict[n])
             w == WindowAfter(el_window[n], verdict[n])
  <2>2. w \in [1 .. K -> BOOLEAN] /\ Counted(g, h, w) /\ (h <=> \E i \in 1 .. K : w[i])
    BY <1>1, <1>2, OneVerdict
  <2>3. el_nodes'[n].consecutive_failures = g /\ el_nodes'[n].is_healthy = h /\ el_window'[n] = w
    BY <1>1, <1>2
  <2> HIDE DEF g, h, w
  <2> QED BY <2>1, <2>2, <2>3 DEF h
<1>4. ElCounted'
  <2>1. DOMAIN el_window' = EL /\ el_window' = [n \in EL |-> el_window'[n]]
    BY DEF RecordEl
  <2> QED BY <1>3, <2>1 DEF ElCounted, Windows
<1>5. verdict \in [EL -> BOOLEAN]
  BY <1>1 DEF verdict
<1>6. ElDebounce!Round(verdict)
  <2>1. el_window' = [n \in EL |-> ElDebounce!Shift(el_window[n], verdict[n])]
    BY <1>1 DEF RecordEl, ElDebounce!Shift
  <2> QED BY <1>3, <2>1 DEF ElDebounce!Round
<1>7. ElDebounce!DNext
  BY <1>5, <1>6 DEF ElDebounce!DNext, ElDebounce!Round
<1> QED BY <1>4, <1>7

LEMMA ClRound ==
  ASSUME TypeOK, ClCounted, ClSecondPass, RecordCl
  PROVE  ClCounted' /\ ClDebounce!DNext
<1> DEFINE verdict == [n \in CL |->
             /\ cl_nodes[n].health_ok
             /\ SaturatingSub(cl_chain_head, cl_nodes[n].slot) <= MaxClLag]
           f(n) == cl_nodes[n].consecutive_failures
           b(n) == cl_nodes[n].is_healthy
<1>1. ASSUME NEW n \in CL
      PROVE  /\ verdict[n] \in BOOLEAN /\ f(n) \in FailureCount /\ b(n) \in BOOLEAN
             /\ ClPassed(n)' = verdict[n]
             /\ cl_nodes'[n].consecutive_failures = CounterAfter(f(n), verdict[n])
             /\ cl_nodes'[n].is_healthy = HealthyAfter(f(n), b(n), verdict[n])
  <2>1. /\ cl_nodes[n] \in ClNodeState
        /\ cl_nodes'[n] = calculate_cl_health(cl_nodes[n], cl_chain_head, MaxClLag, MaxFailures)
    BY DEF TypeOK, ClSecondPass
  <2> QED
    BY <2>1 DEF calculate_cl_health, Verdict, ClPassed, ClNodeState,
                CounterAfter, HealthyAfter
<1> HIDE DEF verdict
<1>2. ASSUME NEW n \in CL
      PROVE  /\ cl_window[n] \in [1 .. K -> BOOLEAN]
             /\ Counted(f(n), b(n), cl_window[n])
             /\ cl_window'[n] = WindowAfter(cl_window[n], verdict[n])
  BY <1>1 DEF RecordCl, ClDebounce!Shift, WindowAfter, ClCounted, Windows
<1>3. ASSUME NEW n \in CL
      PROVE  /\ cl_window'[n] \in [1 .. K -> BOOLEAN]
             /\ Counted(cl_nodes'[n].consecutive_failures, cl_nodes'[n].is_healthy, cl_window'[n])
             /\ cl_nodes'[n].is_healthy = (\E i \in 1 .. K : cl_window'[n][i])
  <2>1. HealthyAfter(f(n), b(n), verdict[n]) \in BOOLEAN
    BY <1>1 DEF HealthyAfter
  <2> DEFINE g == CounterAfter(f(n), verdict[n])
             h == HealthyAfter(f(n), b(n), verdict[n])
             w == WindowAfter(cl_window[n], verdict[n])
  <2>2. w \in [1 .. K -> BOOLEAN] /\ Counted(g, h, w) /\ (h <=> \E i \in 1 .. K : w[i])
    BY <1>1, <1>2, OneVerdict
  <2>3. cl_nodes'[n].consecutive_failures = g /\ cl_nodes'[n].is_healthy = h /\ cl_window'[n] = w
    BY <1>1, <1>2
  <2> HIDE DEF g, h, w
  <2> QED BY <2>1, <2>2, <2>3 DEF h
<1>4. ClCounted'
  <2>1. DOMAIN cl_window' = CL /\ cl_window' = [n \in CL |-> cl_window'[n]]
    BY DEF RecordCl
  <2> QED BY <1>3, <2>1 DEF ClCounted, Windows
<1>5. verdict \in [CL -> BOOLEAN]
  BY <1>1 DEF verdict
<1>6. ClDebounce!Round(verdict)
  <2>1. cl_window' = [n \in CL |-> ClDebounce!Shift(cl_window[n], verdict[n])]
    BY <1>1 DEF RecordCl, ClDebounce!Shift
  <2> QED BY <1>3, <2>1 DEF ClDebounce!Round
<1>7. ClDebounce!DNext
  BY <1>5, <1>6 DEF ClDebounce!DNext, ClDebounce!Round
<1> QED BY <1>4, <1>7
-----------------------------------------------------------------------------
(***************************************************************************)
(* The history does not restrict the monitor.                              *)
(***************************************************************************)
LEMMA HistoryIsSpec == HSpec => Spec
<1>1. HInit => Init
  BY DEF HInit
<1>2. [HNext]_hvars => [Next]_vars
  BY DEF HNext, hvars, Next
<1> QED BY <1>1, <1>2, PTL DEF HSpec, Spec

(***************************************************************************)
(* ElSecondPass is a round of Debounce; no other step touches an EL        *)
(* verdict, its counter or its window.                                     *)
(***************************************************************************)
LEMMA ElStep ==
  ASSUME TypeOK, ElCounted, [HNext]_hvars
  PROVE  ElCounted' /\ [ElDebounce!DNext]_(ElDebounce!dvars)
<1>1. CASE ElSecondPass /\ RecordEl
  BY <1>1, ElRound
<1>2. CASE /\ UNCHANGED el_window
           /\ \A n \in EL :
                /\ el_nodes'[n].is_healthy = el_nodes[n].is_healthy
                /\ el_nodes'[n].consecutive_failures = el_nodes[n].consecutive_failures
  BY <1>2 DEF ElCounted, ElDebounce!dvars
<1>3. CASE ElCheck /\ UNCHANGED el_window
  BY <1>2, <1>3, ElCheckKeepsVerdict
<1>4. CASE UNCHANGED el_nodes /\ UNCHANGED el_window
  BY <1>2, <1>4
<1>5. CASE StartCycle \/ ElStoreHead \/ StartClPass \/ ClStoreHead \/ ClCheck
             \/ ClSecondPass \/ UpdateFailoverFlag \/ UNCHANGED vars
  <2>1. UNCHANGED el_nodes
    BY <1>5 DEF StartCycle, ElStoreHead, StartClPass, ClStoreHead, ClCheck, ClCheckOk,
                ClCheckErr, ClSecondPass, UpdateFailoverFlag, vars, el_vars
  <2>2. CASE UNCHANGED el_window
    BY <1>4, <2>1, <2>2
  <2>3. CASE ElSecondPass /\ RecordEl
    BY <1>1, <2>3
  <2>4. UNCHANGED el_window \/ (ElSecondPass /\ RecordEl)
    BY DEF HNext, hvars
  <2> QED BY <2>2, <2>3, <2>4
<1> QED BY <1>1, <1>3, <1>5 DEF HNext, hvars

THEOREM ElDebouncing == HSpec => ElDebounced
<1>1. HInit => ElDebounce!DInit
  BY DEF HInit, Init, ElFromConfig, ElDebounce!DInit
<1>2. HInit => ElCounted
  BY Threshold DEF HInit, Init, ElFromConfig, ElCounted, Windows, Counted
<1>3. TypeOK /\ ElCounted /\ [HNext]_hvars
        => ElCounted' /\ [ElDebounce!DNext]_(ElDebounce!dvars)
  BY ElStep
<1>4. HSpec => []TypeOK
  BY HistoryIsSpec, TypeCorrect, PTL
<1> QED BY <1>1, <1>2, <1>3, <1>4, PTL DEF HSpec, ElDebounced, ElDebounce!DSpec

(***************************************************************************)
(* ClSecondPass is a round of Debounce; no other step touches a CL         *)
(* verdict, its counter or its window.                                     *)
(***************************************************************************)
LEMMA ClStep ==
  ASSUME TypeOK, ClCounted, [HNext]_hvars
  PROVE  ClCounted' /\ [ClDebounce!DNext]_(ClDebounce!dvars)
<1>1. CASE ClSecondPass /\ RecordCl
  BY <1>1, ClRound
<1>2. CASE /\ UNCHANGED cl_window
           /\ \A n \in CL :
                /\ cl_nodes'[n].is_healthy = cl_nodes[n].is_healthy
                /\ cl_nodes'[n].consecutive_failures = cl_nodes[n].consecutive_failures
  BY <1>2 DEF ClCounted, ClDebounce!dvars
<1>3. CASE ClCheck /\ UNCHANGED cl_window
  BY <1>2, <1>3, ClCheckKeepsVerdict
<1>4. CASE UNCHANGED cl_nodes /\ UNCHANGED cl_window
  BY <1>2, <1>4
<1>5. CASE StartCycle \/ ClStoreHead \/ StartClPass \/ ElStoreHead \/ ElCheck
             \/ ElSecondPass \/ UpdateFailoverFlag \/ UNCHANGED vars
  <2>1. UNCHANGED cl_nodes
    BY <1>5 DEF StartCycle, ClStoreHead, StartClPass, ElStoreHead, ElCheck, ElCheckOk,
                ElCheckErr, ElSecondPass, UpdateFailoverFlag, vars, cl_vars
  <2>2. CASE UNCHANGED cl_window
    BY <1>4, <2>1, <2>2
  <2>3. CASE ClSecondPass /\ RecordCl
    BY <1>1, <2>3
  <2>4. UNCHANGED cl_window \/ (ClSecondPass /\ RecordCl)
    BY DEF HNext, hvars
  <2> QED BY <2>2, <2>3, <2>4
<1> QED BY <1>1, <1>3, <1>5 DEF HNext, hvars

THEOREM ClDebouncing == HSpec => ClDebounced
<1>1. HInit => ClDebounce!DInit
  BY DEF HInit, Init, ClFromConfig, ClDebounce!DInit
<1>2. HInit => ClCounted
  BY Threshold DEF HInit, Init, ClFromConfig, ClCounted, Windows, Counted
<1>3. TypeOK /\ ClCounted /\ [HNext]_hvars
        => ClCounted' /\ [ClDebounce!DNext]_(ClDebounce!dvars)
  BY ClStep
<1>4. HSpec => []TypeOK
  BY HistoryIsSpec, TypeCorrect, PTL
<1> QED BY <1>1, <1>2, <1>3, <1>4, PTL DEF HSpec, ClDebounced, ClDebounce!DSpec
=============================================================================
