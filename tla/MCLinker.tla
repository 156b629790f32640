------------------------------ MODULE MCLinker ------------------------------
(***************************************************************************)
(* Linker on small instances: three threads with a link call each, over    *)
(* every way of wiring a given multiset of ports to their arguments.       *)
(***************************************************************************)
EXTENDS Linker, TLC

CONSTANTS t1, t2, t3, x, y, r, m, n, o

Arrangements(ports) == {[i \in DOMAIN ports |-> ports[p[i]]] :
                          p \in Permutations(DOMAIN ports)}
Wiring(s) == (t1 :> << <<s[1], s[2]>> >>) @@ (t2 :> << <<s[3], s[4]>> >>)
               @@ (t3 :> << <<s[5], s[6]>> >>)

\* Two variables and two ports, with loops of variables; a root, a variable
\* and three ports.
SixPorts == {Wiring(s) : s \in Arrangements(<<x, x, y, y, m, n>>)
                                 \cup Arrangements(<<x, x, r, m, n, o>>)}

\* One thread creates a variable in a cell that the others have freed.
Cells == (t1 :> {x}) @@ (t2 :> {}) @@ (t3 :> {})
=============================================================================
