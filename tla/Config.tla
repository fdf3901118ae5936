------------------------------- MODULE Config -------------------------------
(***************************************************************************)
(* What a configuration that was loaded guarantees (src/src/config.rs) and *)
(* the node vectors AppState::new makes of it (src/src/state.rs).  The     *)
(* modules of the running proxy know only its outcome: the numbers of      *)
(* nodes, ConfigAssumption, and IsPrimary as a property of the position.   *)
(*                                                                         *)
(* Of a URL only what validate_url asks is kept: what it starts with, and  *)
(* whether Url::parse accepts it.  A node has a name, which is not         *)
(* validated, and URLs.                                                    *)
(***************************************************************************)
EXTENDS Naturals, Sequences, SequenceTheorems, TLAPS

CONSTANTS Name    \* the names nodes may have

Prefix == {"http://", "https://", "ws://", "wss://"}
Url == [starts_with : Prefix \cup {"other"}, parses : BOOLEAN]

ElNode == [name : Name, http_url : Url, ws_url : Url]
ClNode == [name : Name, url : Url]
Configuration == [primary : Seq(ElNode), backup : Seq(ElNode), cl : Seq(ClNode)]

-----------------------------------------------------------------------------
(***************************************************************************)
(* The same test for every field: an http_url may start with ws://.        *)
(***************************************************************************)
validate_url(url) == url.starts_with \in Prefix /\ url.parses

ElNodeValid(node) == validate_url(node.http_url) /\ validate_url(node.ws_url)
ClNodeValid(node) == validate_url(node.url)

ElValid(config) ==
  /\ Len(config.primary) # 0
  /\ \A i \in 1 .. Len(config.primary) : ElNodeValid(config.primary[i])
  /\ \A i \in 1 .. Len(config.backup) : ElNodeValid(config.backup[i])

validate(config) ==
  /\ ElValid(config)
  /\ Len(config.cl) # 0
  /\ \A i \in 1 .. Len(config.cl) : ClNodeValid(config.cl[i])

(***************************************************************************)
(* The primaries are pushed first, the backups after them.                 *)
(***************************************************************************)
Pushed(nodes, is_primary) ==
  [i \in 1 .. Len(nodes) |-> [config |-> nodes[i], is_primary |-> is_primary]]

el_nodes(config) == Pushed(config.primary, TRUE) \o Pushed(config.backup, FALSE)

-----------------------------------------------------------------------------
(***************************************************************************)
(* A sequence of pushed nodes is a sequence as long as its source.         *)
(***************************************************************************)
LEMMA PushedIsSequence ==
  ASSUME NEW nodes \in Seq(ElNode), NEW is_primary \in BOOLEAN
  PROVE  /\ Pushed(nodes, is_primary) \in Seq([config : ElNode, is_primary : BOOLEAN])
         /\ Len(Pushed(nodes, is_primary)) = Len(nodes)
         /\ \A i \in 1 .. Len(nodes) :
              Pushed(nodes, is_primary)[i] = [config |-> nodes[i], is_primary |-> is_primary]
<1>1. Len(nodes) \in Nat /\ \A i \in 1 .. Len(nodes) : nodes[i] \in ElNode
  OBVIOUS
<1>2. \A i \in 1 .. Len(nodes) :
        [config |-> nodes[i], is_primary |-> is_primary] \in [config : ElNode, is_primary : BOOLEAN]
  BY <1>1
<1> QED
  BY <1>1, <1>2 DEF Pushed

(***************************************************************************)
(* A configuration that was loaded has what ConfigAssumption of AppState   *)
(* assumes, and in the vector AppState::new makes of it the primaries are  *)
(* the first positions, which is what IsPrimary of AppState says; every    *)
(* URL a handler or a check will use has been validated.                   *)
(***************************************************************************)
THEOREM LoadedConfiguration ==
  ASSUME NEW config \in Configuration, validate(config)
  PROVE  /\ Len(config.primary) >= 1 /\ Len(config.cl) >= 1
         /\ Len(el_nodes(config)) = Len(config.primary) + Len(config.backup)
         /\ \A i \in 1 .. Len(el_nodes(config)) :
              /\ el_nodes(config)[i].is_primary <=> i <= Len(config.primary)
              /\ ElNodeValid(el_nodes(config)[i].config)
<1> DEFINE Entry == [config : ElNode, is_primary : BOOLEAN]
           P == Pushed(config.primary, TRUE)
           B == Pushed(config.backup, FALSE)
           nodes == P \o B
           primaries == Len(config.primary)
           backups == Len(config.backup)
<1>1. /\ config.primary \in Seq(ElNode) /\ config.backup \in Seq(ElNode)
      /\ Len(config.primary) \in Nat /\ Len(config.backup) \in Nat /\ Len(config.cl) \in Nat
  BY DEF Configuration
<1>2. /\ P \in Seq(Entry) /\ Len(P) = Len(config.primary)
      /\ \A i \in 1 .. Len(config.primary) :
           P[i] = [config |-> config.primary[i], is_primary |-> TRUE]
  BY <1>1, PushedIsSequence
<1>3. /\ B \in Seq(Entry) /\ Len(B) = Len(config.backup)
      /\ \A i \in 1 .. Len(config.backup) :
           B[i] = [config |-> config.backup[i], is_primary |-> FALSE]
  BY <1>1, PushedIsSequence
<1>4. primaries \in Nat /\ backups \in Nat
  BY <1>1
<1> HIDE DEF Entry, P, B, primaries, backups
<1>5. /\ Len(nodes) = Len(P) + Len(B)
      /\ \A i \in 1 .. Len(P) + Len(B) :
           nodes[i] = IF i <= Len(P) THEN P[i] ELSE B[i - Len(P)]
  <2>1. P \in Seq(Entry) /\ B \in Seq(Entry)
    BY <1>2, <1>3
  <2> QED
    BY ONLY <2>1, ConcatProperties, Zenon
<1>6. el_nodes(config) = nodes
  BY DEF el_nodes, P, B
<1> HIDE DEF nodes
<1>7. Len(nodes) = primaries + backups
  BY <1>2, <1>3, <1>5 DEF primaries, backups
<1>8. ASSUME NEW i \in 1 .. Len(nodes)
      PROVE  /\ nodes[i].is_primary <=> i <= primaries
             /\ ElNodeValid(nodes[i].config)
  <2>1. i \in 1 .. (primaries + backups)
    BY ONLY <1>7, i \in 1 .. Len(nodes)
  <2>2. nodes[i] = IF i <= primaries THEN P[i] ELSE B[i - primaries]
    BY <1>2, <1>3, <1>5, <2>1 DEF primaries, backups
  <2>3. CASE i <= primaries
    <3>1. i \in 1 .. primaries
      BY ONLY <1>4, <2>1, <2>3
    <3>2. nodes[i] = [config |-> config.primary[i], is_primary |-> TRUE]
      BY <1>2, <2>2, <2>3, <3>1 DEF primaries
    <3>3. ElNodeValid(config.primary[i])
      BY <3>1 DEF validate, ElValid, primaries
    <3> QED
      BY <2>3, <3>2, <3>3
  <2>4. CASE ~(i <= primaries)
    <3>1. i - primaries \in 1 .. backups
      BY ONLY <1>4, <2>1, <2>4
    <3>2. nodes[i] = [config |-> config.backup[i - primaries], is_primary |-> FALSE]
      BY <1>3, <2>2, <2>4, <3>1 DEF backups
    <3>3. ElNodeValid(config.backup[i - primaries])
      BY <3>1 DEF validate, ElValid, backups
    <3> QED
      BY <2>4, <3>2, <3>3
  <2> QED
    BY <2>3, <2>4
<1>9. Len(config.primary) >= 1 /\ Len(config.cl) >= 1
  BY <1>1 DEF validate, ElValid
<1> QED
  BY <1>6, <1>7, <1>8, <1>9 DEF primaries, backups
=============================================================================
