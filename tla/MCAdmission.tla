----------------------------- MODULE MCAdmission -----------------------------
(***************************************************************************)
(* Admission for TLC: two replicas, a claim for the proxy, two ways to     *)
(* configure the pods, and a document with a claim that is listed twice.   *)
(***************************************************************************)
EXTENDS Admission

Users == Permutations(User)

Isvd == <<"isvd">>
P1 == <<"pvc", "1">>
P2 == <<"pvc", "2">>
ServerMap == <<"server", "config">>

Claims == {P1, P2}
Facts == Claims \cup {ServerMap}
NoSecond == Facts \ {P2}
PodRefs == [p \in {"a", "b"} |-> IF p = "a" THEN <<ServerMap>> ELSE <<>>]

Doc(claims, proxyClaim, pods) ==
  [claims |-> claims, proxyClaim |-> proxyClaim, pods |-> pods]

Contents ==
  {Doc(<<P1>>, None, "a"), Doc(<<P1, P2>>, None, "a"), Doc(<<P1>>, P1, "a"),
   Doc(<<>>, P2, "b")}

TwoReplicas == {Doc(<<P1>>, None, "a"), Doc(<<P1, P2>>, None, "a")}
=============================================================================
