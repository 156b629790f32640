------------------------------- MODULE Linker -------------------------------
(***************************************************************************)
(* The substitution map and the atomic linker of the C runtime             *)
(* (src/src/hvm.c, enter and link).  Every variable of a net occurs twice. *)
(* vars_buf holds, for each variable, FREE (the cell is not allocated),    *)
(* NONE (allocated, no occurrence linked yet) or the port the first linked *)
(* occurrence was pointed at.  Threads call link on the pairs of ports     *)
(* their interactions produce; one action below is one atomic access to    *)
(* vars_buf, with the thread-local tests around it.                        *)
(*                                                                         *)
(* Data kept abstract: a variable is its cell; a non-variable port is a    *)
(* model value standing for one occurrence of it; a redex is the pair of   *)
(* ports pushed, the bag that receives it belongs to module Evaluator.     *)
(***************************************************************************)
EXTENDS Naturals, Sequences, FiniteSets, Functions

CONSTANTS
  Thread,      \* the TPC threads
  Var,         \* variable cells
  Node,        \* occurrences of non-variable ports
  Root,        \* variables of which the program holds one occurrence (ROOT)
  Partition,   \* the cells each thread allocates from
  Wirings,     \* the link calls the threads start with
  MaxFresh,    \* bound: variables allocated by one thread
  FREE, NONE

Port == Var \cup Node
Links == Seq(Port \X Port)

ASSUME LinkerAssumption ==
  /\ IsFiniteSet(Var) /\ Root \subseteq Var /\ Var \cap Node = {}
  /\ FREE \notin Port /\ NONE \notin Port /\ FREE # NONE
  /\ Partition \in [Thread -> SUBSET Var]
  /\ \A t, u \in Thread : t # u => Partition[t] \cap Partition[u] = {}
  /\ Wirings \subseteq [Thread -> Links]
  /\ MaxFresh \in Nat

VARIABLES
  vars_buf,  \* net->vars_buf: the substitution map
  todo,      \* link_pair calls the thread's interaction still has to make
  pc,        \* what the thread is about to do
  A, B,      \* link's two ports
  loc,       \* the cell about to be deleted or created
  redexes,   \* ports pushed with push_redex
  fresh      \* variables allocated so far, per thread (bounds the model)

vars == <<vars_buf, todo, pc, A, B, loc, redexes, fresh>>

-----------------------------------------------------------------------------
(* Where ports are held.                                                   *)

\* The wires a state holds: the pairs a thread still has to link ...
HeldBy(t) ==
  todo[t] \o (IF pc[t] \in {"link", "enter", "point", "take_a", "take_b"}
              THEN << <<A[t], B[t]>> >> ELSE <<>>)

\* ... and the substitutions, but for the cells a thread has emptied into its
\* own hands and is about to delete.
Deleting == {loc[t] : t \in {u \in Thread : pc[u] \in {"take_a", "take_b"}}}
Substituted == {x \in Var \ Deleting : vars_buf[x] \in Port}

\* Every occurrence of a port in the net, with the place that holds it.
OccurrencesOf(t) ==
  {<<t, i, k, HeldBy(t)[i][k]>> : i \in DOMAIN HeldBy(t), k \in {1, 2}}
Occurrences ==
  (UNION {OccurrencesOf(t) : t \in Thread})
    \cup {<<x, 0, 0, vars_buf[x]>> : x \in Substituted}

-----------------------------------------------------------------------------
UsedBy(w) ==
  {p \in Var : \E t \in Thread : \E i \in DOMAIN w[t] : p \in Range(w[t][i])}

\* The places of a wiring that name a variable.
Uses(w, x) ==
  UNION {{u \in {t} \X (DOMAIN w[t]) \X {1, 2} : w[t][u[2]][u[3]] = x} : t \in Thread}

\* A variable of a net is named twice, the root once, and an occurrence of a port
\* that is no variable once; and the allocators never find the root's cell free: boot_redex creates it (hvm.c:1205), nobody deletes it.
ASSUME WiringAssumption ==
  /\ \A w \in Wirings, x \in Var : x \in UsedBy(w) =>
       /\ IsFiniteSet(Uses(w, x))
       /\ Cardinality(Uses(w, x)) = IF x \in Root THEN 1 ELSE 2
  /\ \A w \in Wirings, n \in Node : \A u, v \in Uses(w, n) : u = v
  /\ \A t \in Thread : Partition[t] \cap Root = {}

Init ==
  /\ todo \in Wirings
  /\ vars_buf = [x \in Var |-> IF x \in UsedBy(todo) THEN NONE ELSE FREE]
  /\ pc = [t \in Thread |-> "idle"]
  /\ A = [t \in Thread |-> NONE]
  /\ B = [t \in Thread |-> NONE]
  /\ loc = [t \in Thread |-> NONE]
  /\ redexes = {}
  /\ fresh = [t \in Thread |-> 0]

Goto(t, label) == pc' = [pc EXCEPT ![t] = label]

\* link_pair: the next pair of the interaction becomes link's A and B.
Call(t) ==
  /\ pc[t] = "idle" /\ todo[t] # <<>>
  /\ A' = [A EXCEPT ![t] = Head(todo[t])[1]]
  /\ B' = [B EXCEPT ![t] = Head(todo[t])[2]]
  /\ todo' = [todo EXCEPT ![t] = Tail(@)]
  /\ Goto(t, "link")
  /\ UNCHANGED <<vars_buf, loc, redexes, fresh>>

\* Top of link's loop, A a variable once the two are swapped if need be.
Orient(t) ==
  LET swap == A[t] \notin Var /\ B[t] \in Var
  IN  /\ pc[t] = "link"
      /\ A[t] \in Var \/ B[t] \in Var
      /\ A' = [A EXCEPT ![t] = IF swap THEN B[t] ELSE @]
      /\ B' = [B EXCEPT ![t] = IF swap THEN A[t] ELSE @]
      /\ Goto(t, "enter")
      /\ UNCHANGED <<vars_buf, todo, loc, redexes, fresh>>

\* A mutation: no break after the push.
PushRedexLoops(t) ==
  /\ pc[t] = "link"
  /\ A[t] \notin Var /\ B[t] \notin Var
  /\ redexes' = redexes \cup {{A[t], B[t]}}
  /\ UNCHANGED <<vars_buf, todo, pc, A, B, loc, fresh>>

\* Top of link's loop, no variable left: the wire is a redex.
PushRedex(t) ==
  /\ pc[t] = "link"
  /\ A[t] \notin Var /\ B[t] \notin Var
  /\ redexes' = redexes \cup {{A[t], B[t]}}
  /\ Goto(t, "idle")
  /\ UNCHANGED <<vars_buf, todo, A, B, loc, fresh>>

\* A mutation: B's substitution is exchanged for FREE.
EnterExchangeFree(t) ==
  LET val == vars_buf[B[t]]
  IN  /\ pc[t] = "enter" /\ B[t] \in Var
      /\ vars_buf' = [vars_buf EXCEPT ![B[t]] = FREE]
      /\ IF val \in {NONE, FREE}
         THEN Goto(t, "point") /\ UNCHANGED <<B, loc>>
         ELSE /\ loc' = [loc EXCEPT ![t] = B[t]]
              /\ B' = [B EXCEPT ![t] = val]
              /\ Goto(t, "take_b")
      /\ UNCHANGED <<todo, A, redexes, fresh>>

\* A mutation: B's substitution is loaded, not exchanged.
EnterLoad(t) ==
  LET val == vars_buf[B[t]]
  IN  /\ pc[t] = "enter" /\ B[t] \in Var
      /\ IF val \in {NONE, FREE}
         THEN Goto(t, "point") /\ UNCHANGED <<B, loc>>
         ELSE /\ loc' = [loc EXCEPT ![t] = B[t]]
              /\ B' = [B EXCEPT ![t] = val]
              /\ Goto(t, "take_b")
      /\ UNCHANGED <<vars_buf, todo, A, redexes, fresh>>

\* enter, one iteration: B's substitution is exchanged for NONE.
EnterExchange(t) ==
  LET val == vars_buf[B[t]]
  IN  /\ pc[t] = "enter" /\ B[t] \in Var
      /\ vars_buf' = [vars_buf EXCEPT ![B[t]] = NONE]
      /\ IF val \in {NONE, FREE}
         THEN Goto(t, "point") /\ UNCHANGED <<B, loc>>
         ELSE /\ loc' = [loc EXCEPT ![t] = B[t]]
              /\ B' = [B EXCEPT ![t] = val]
              /\ Goto(t, "take_b")
      /\ UNCHANGED <<todo, A, redexes, fresh>>

\* enter: the followed cell is deleted (both occurrences are ours).
EnterTake(t) ==
  /\ pc[t] = "take_b"
  /\ vars_buf' = [vars_buf EXCEPT ![loc[t]] = FREE]
  /\ Goto(t, "enter")
  /\ UNCHANGED <<todo, A, B, loc, redexes, fresh>>

\* A mutation: A's previous substitution is overwritten and forgotten.
PointStore(t) ==
  /\ pc[t] = "point" \/ (pc[t] = "enter" /\ B[t] \notin Var)
  /\ vars_buf' = [vars_buf EXCEPT ![A[t]] = B[t]]
  /\ Goto(t, "idle")
  /\ UNCHANGED <<todo, A, B, loc, redexes, fresh>>

\* Point A at B, whatever A's previous substitution was.
PointExchange(t) ==
  LET got == vars_buf[A[t]]
  IN  /\ pc[t] = "point" \/ (pc[t] = "enter" /\ B[t] \notin Var)
      /\ vars_buf' = [vars_buf EXCEPT ![A[t]] = B[t]]
      /\ IF got = NONE
         THEN Goto(t, "idle") /\ UNCHANGED <<A, loc>>
         ELSE /\ loc' = [loc EXCEPT ![t] = A[t]]
              /\ A' = [A EXCEPT ![t] = got]
              /\ Goto(t, "take_a")
      /\ UNCHANGED <<todo, B, redexes, fresh>>

\* A had a substitution: delete A's cell, go on linking that port to B.
PointTake(t) ==
  /\ pc[t] = "take_a"
  /\ vars_buf' = [vars_buf EXCEPT ![loc[t]] = FREE]
  /\ Goto(t, "link")
  /\ UNCHANGED <<todo, A, B, loc, redexes, fresh>>

\* The allocator finds a free cell of the thread's partition; an interaction
\* allocates before it makes its link calls.
AllocFind(t) ==
  /\ pc[t] = "idle" /\ todo[t] # <<>> /\ fresh[t] < MaxFresh
  /\ \E x \in Partition[t] :
       /\ vars_buf[x] = FREE
       /\ loc' = [loc EXCEPT ![t] = x]
  /\ fresh' = [fresh EXCEPT ![t] = @ + 1]
  /\ Goto(t, "create")
  /\ UNCHANGED <<vars_buf, todo, A, B, redexes>>

\* vars_create: the new variable is put in the middle of a wire the thread
\* holds, as an interaction does when it builds its result.
Create(t) ==
  LET p == Head(todo[t])
  IN  /\ pc[t] = "create"
      /\ vars_buf' = [vars_buf EXCEPT ![loc[t]] = NONE]
      /\ todo' = [todo EXCEPT ![t] =
                    << <<p[1], loc[t]>>, <<loc[t], p[2]>> >> \o Tail(@)]
      /\ Goto(t, "idle")
      /\ UNCHANGED <<A, B, loc, redexes, fresh>>

Step(t) ==
  \/ Call(t) \/ Orient(t) \/ PushRedex(t)
  \/ EnterExchange(t) \/ EnterTake(t)
  \/ PointExchange(t) \/ PointTake(t)
  \/ AllocFind(t) \/ Create(t)

Next == \E t \in Thread : Step(t)

Fairness == \A t \in Thread : WF_vars(Step(t))

Spec == Init /\ [][Next]_vars
FairSpec == Spec /\ Fairness

-----------------------------------------------------------------------------
(* Properties.                                                             *)

\* Ownership.  A variable that is allocated has two occurrences (a root one),
\* the one already consumed counting as the substitution in its cell; a cell
\* that is free or being deleted is named by nobody.  If a race of two calls
\* of link lost or duplicated a port, some count would be off (hvm.c:795-841).
Linear ==
  LET occs == Occurrences
      Count(x) == Cardinality({o \in occs : o[4] = x})
  IN  \A x \in Var :
        IF vars_buf[x] = FREE \/ x \in Deleting
        THEN Count(x) = 0
        ELSE Count(x) + (IF x \in Substituted THEN 1 ELSE 0)
               = IF x \in Root THEN 1 ELSE 2

\* No thread ever exchanges a cell that has been deleted: the case the code
\* leaves as a FIXME (hvm.c:836) and enter's test for 0 (hvm.c:801) do not
\* arise, however the calls interleave.
NoUseAfterFree ==
  \A t \in Thread :
    /\ pc[t] = "enter" /\ B[t] \in Var => vars_buf[B[t]] # FREE
    /\ pc[t] \in {"enter", "point"} => vars_buf[A[t]] # FREE
    /\ pc[t] \in {"take_a", "take_b"} => vars_buf[loc[t]] # FREE

\* Deleting a cell never destroys a substitution somebody still needs: the
\* cell holds NONE (enter) or the port its deleter kept in B (link).
DeletesOwned ==
  \A t \in Thread :
    /\ pc[t] = "take_b" => vars_buf[loc[t]] = NONE
    /\ pc[t] = "take_a" => vars_buf[loc[t]] = B[t]

-----------------------------------------------------------------------------
(* The wires of a state, for the refinement.                               *)

JointsOf(t) == {Range(HeldBy(t)[i]) : i \in DOMAIN HeldBy(t)}
Joints ==
  (UNION {JointsOf(t) : t \in Thread})
    \cup {{x, vars_buf[x]} : x \in Substituted}

Ends == Node \cup Root

\* A set of ports that parts no two which a joint brings together; and the ports
\* that no such set parts from p: those on p's wire.
Closed(joints, C) == \A j \in joints : j \subseteq C \/ j \cap C = {}
Component(joints, p) ==
  {q \in Port : \A C \in SUBSET Port : p \in C /\ q \notin C => ~Closed(joints, C)}

WiresIn(joints) ==
  {w \in {Component(joints, e) \cap Ends : e \in Ends} : Cardinality(w) = 2}

\* (The bound variable has TLC compute the joints once.)
WiresOf == UNION {WiresIn(joints) : joints \in {Joints}}

W == INSTANCE Wires WITH wires <- WiresOf

\* The linker resolves every wire exactly as the net has it: no wire between
\* two ports is lost, invented, crossed with another or resolved twice,
\* whatever the interleaving (paper/HVM2.typst:537, "It is easy enough to see
\* that this holds for all possible evaluation orders").
ImplementsWires == W!Spec

Quiescent == \A t \in Thread : pc[t] = "idle" /\ todo[t] = <<>>

\* A mutation: peek looks one substitution far.
PeekOnce(v) == IF v \in Var /\ vars_buf[v] \notin {FREE, NONE} THEN vars_buf[v] ELSE v

\* peek: follows the substitutions from a variable.
Peek(v) ==
  LET chase[n \in 0 .. Cardinality(Var)] ==
        IF n = 0 THEN v
        ELSE LET p == chase[n - 1]
             IN  IF p \in Var /\ vars_buf[p] \notin {FREE, NONE}
                 THEN vars_buf[p] ELSE p
  IN  chase[Cardinality(Var)]

\* When no call is in progress no wire between two ports is left unresolved,
\* and reading a root back yields the port at the other end of its wire.
Resolved ==
  Quiescent =>
    /\ \A w \in WiresOf : w \cap Root # {}
    /\ \A r \in Root, n \in Node : {r, n} \in WiresOf => Peek(r) = n

\* Every call of link returns, whatever the other threads do.
LinksReturn == <>[]Quiescent
=============================================================================
