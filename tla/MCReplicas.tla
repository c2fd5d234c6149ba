------------------------------ MODULE MCReplicas ------------------------------
(***************************************************************************)
(* Replicas for TLC: small sets of claims, and the documents users write.  *)
(***************************************************************************)
EXTENDS Replicas

CONSTANTS p1, p2, p3

\* One replica becomes three, in one edit or in two; one is replaced by
\* another; one goes and comes back.
ThreeDocs == {<<p1>>, <<p1, p2>>, <<p3, p2, p1>>, <<p2, p3>>, <<p3>>}

\* One replica, two of them with the new one first, or the other one.
TwoDocs == {<<p1>>, <<p2, p1>>, <<p2>>}

\* One replica becomes two, or two become one.
GrowDocs == {<<p1>>, <<p1, p2>>}

\* The same where the replica that comes and goes is the first of the two.
FrontDocs == {<<p1>>, <<p2, p1>>}
=============================================================================
