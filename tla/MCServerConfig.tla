--------------------------- MODULE MCServerConfig ---------------------------
(***************************************************************************)
(* ServerConfig for TLC: the ways to give the two ports, and each mistake  *)
(* in the other entries.  A port has five bits here: 32 becomes 0, and 24  *)
(* becomes -8.                                                             *)
(***************************************************************************)
EXTENDS ServerConfig

CONSTANT s1

Number(n) == [kind |-> "int", n |-> n]
Reference == [kind |-> "secret", name |-> s1]
Other == [kind |-> "other"]
List(entries) == [kind |-> "list", entries |-> entries]

Good == [shape |-> "map", ldap |-> Nothing, ldaps |-> Nothing, license |-> Text,
         dn |-> Text, pwd |-> Text, suffixes |-> List(<<"dn">>)]

\* The second port is only looked at when the first one is zero.
PortPairs ==
  {<<p, Nothing>> : p \in {Nothing, Number(1), Text}}
  \cup {<<Number(0), q>> : q \in {Nothing, Number(2), Number(24), Reference}}
  \cup {<<p, Number(2)>> : p \in {Number(32), Reference}}

Configs ==
  {[Good EXCEPT !.ldap = p[1], !.ldaps = p[2]] : p \in PortPairs}
  \cup {[Good EXCEPT !.license = e] : e \in {Nothing, Number(1), Reference}}
  \cup {[Good EXCEPT !.dn = e] : e \in {Nothing, Other}}
  \cup {[Good EXCEPT !.pwd = e] : e \in {Nothing, Number(1)}}
  \cup {[Good EXCEPT !.suffixes = e] :
          e \in {Other, List(<<>>), List(<<"dn", "noDn", "scalar">>),
                 List(<<"scalar">>)}}
  \cup {[Good EXCEPT !.shape = s] : s \in Shape}
=============================================================================
