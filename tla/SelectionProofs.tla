-------------------------- MODULE SelectionProofs ---------------------------
(***************************************************************************)
(* Lemmas about Selection, which the proofs about its callers cite.        *)
(***************************************************************************)
EXTENDS Selection, NaturalsInduction, WellFoundedInduction, TLAPS

(***************************************************************************)
(* A non-empty set of positions has a least element, and Min is it.        *)
(***************************************************************************)
LEMMA MinOfPositions ==
  ASSUME NEW S \in SUBSET Nat, S # {}
  PROVE  Min(S) \in S
<1> DEFINE Less == {r \in Nat \X Nat : r[1] < r[2]}
<1>1. IsWellFoundedOn(Less, Nat)
  BY NatLessThanWellFounded DEF OpToRel
<1>2. PICK b \in S : \A c \in S : ~(<<c, b>> \in Less)
  <2> HIDE DEF Less
  <2> QED
    BY <1>1, WFMin
<1>3. \A c \in S : b <= c
  <2> SUFFICES ASSUME NEW c \in S PROVE b <= c
    OBVIOUS
  <2>1. b \in Nat /\ c \in Nat
    OBVIOUS
  <2>2. ~(c < b)
    BY <1>2, <2>1
  <2> QED
    BY <2>1, <2>2
<1> QED
  BY <1>3 DEF Min

LEMMA FirstOfPositions ==
  ASSUME NEW S \in SUBSET (Nat \ {0})
  PROVE  /\ First(S) \in {NoNode} \cup S
         /\ First(S) = NoNode <=> S = {}
BY MinOfPositions DEF First, NoNode

(***************************************************************************)
(* What is selected: a node of its own pool, and no EL node only when no   *)
(* primary is healthy and no backup may be used.                           *)
(***************************************************************************)
LEMMA SelectElNode ==
  ASSUME NEW nodes, NEW flag \in BOOLEAN
  PROVE  /\ select_el_node(nodes, flag) \in {NoNode} \cup EL
         /\ select_el_node(nodes, flag) = NoNode =>
              /\ HealthyPrimaries(nodes) = {}
              /\ flag => HealthyBackups(nodes) = {}
<1>1. /\ HealthyPrimaries(nodes) \in SUBSET EL
      /\ HealthyBackups(nodes) \in SUBSET EL
  BY DEF HealthyPrimaries, HealthyBackups
<1>2. EL \subseteq Nat \ {0}
  BY ConfigAssumption DEF EL
<1> QED
  BY <1>1, <1>2, FirstOfPositions DEF select_el_node

LEMMA SelectClNode ==
  ASSUME NEW nodes
  PROVE  select_cl_node(nodes) \in {NoNode} \cup CL
<1>1. CL \subseteq Nat \ {0}
  BY ConfigAssumption DEF CL
<1> QED
  BY <1>1, FirstOfPositions DEF select_cl_node
=============================================================================
