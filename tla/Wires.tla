------------------------------- MODULE Wires --------------------------------
(***************************************************************************)
(* What linking promises, with no variable and no memory in sight.  A net  *)
(* is a set of wires; a wire joins two ends.  An end is a non-variable     *)
(* port, or a root: a variable the program never consumes because its      *)
(* other occurrence belongs to whoever reads the result back.  The only    *)
(* thing that may happen is that a wire between two non-variable ports is  *)
(* found and becomes a redex, once.  Everything the substitution map and   *)
(* the racing calls of link do must amount to that.                        *)
(***************************************************************************)
EXTENDS FiniteSets

CONSTANTS
  Node,   \* occurrences of non-variable ports
  Root    \* variables with one occurrence only

VARIABLES
  wires,    \* the pairs of ends still to be brought together
  redexes   \* the pairs of ports handed to a redex bag

Ends == Node \cup Root

\* A pairing of some of the ends: no end is on two wires.
IsWiring(W) ==
  /\ \A w \in W : w \subseteq Ends /\ Cardinality(w) = 2
  /\ \A v, w \in W : v # w => v \cap w = {}

Init ==
  /\ IsWiring(wires)
  /\ redexes = {}

\* One wire between two non-variable ports is resolved into a redex.
Connect(w) ==
  /\ w \in wires
  /\ w \subseteq Node
  /\ wires' = wires \ {w}
  /\ redexes' = redexes \cup {w}

Next == \E w \in SUBSET Node : Connect(w)

Spec == Init /\ [][Next]_<<wires, redexes>>

=============================================================================
