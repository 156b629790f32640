------------------------------- MODULE CudaNet -------------------------------
(***************************************************************************)
(* The net of the CUDA runtime (src/src/hvm.cu:412-475, 736-1442): one     *)
(* global memory, and for each block a local one that lasts a launch.  In  *)
(* WORK mode the rules allocate locally; a link of a global variable with  *)
(* a local node leaks the node, and what is left of a launch is saved as   *)
(* pairs of global variables.                                              *)
(*                                                                         *)
(* The rules and enter are those of Interactions.  A thread of the grid is *)
(* two threads there, which have a bag in common: one allocates from its   *)
(* share of the local memory, the other one from its share of the global.  *)
(* How redexes are spread and when a thread stops is CudaEvaluator's.      *)
(***************************************************************************)
EXTENDS Interactions

CONSTANT MaxLaunch   \* launches of the kernel; the last one runs to the end

\* The threads of the grid, one of each block; no two share local cells.
Gid == 0 .. TPC \div 2 - 1
Local(t) == 2 * t
Global(t) == 2 * t + 1

ASSUME CudaNetAssumption ==
  /\ TPC % 2 = 0 /\ MaxLaunch \in Nat \ {0}
  /\ BagOf = [i \in Thread |-> i \div 2] /\ Bounded = {Local(t) : t \in Gid}

VARIABLES
  mode,      \* gnet->mode; SEED allocates as GROW does
  launches,
  phase,     \* of a thread: "load", "run", "save", "flush", "exit"
  slice,     \* its part of the bag loaded, where it has not loaded it
  saved,     \* the bag that is saved to
  hand       \* the redex it is loading, or the node it is leaking: the two ports
             \* it calls enter on, and those that are done

cudaVars == <<mode, launches, phase, slice, saved, hand>>
allVars == <<vars, cudaVars>>

\* The thread of Interactions a thread is in this launch.
As(t) == IF mode = "WORK" THEN Local(t) ELSE Global(t)

\* Cells of a local memory, and who has it.
LocalCell(c) == (c \div PLEN) % 2 = 0
Owner(c) == c \div (2 * PLEN)
is_local(p) == (is_nod(p) \/ is_var(p)) /\ LocalCell(val(p))
is_global(p) == (is_nod(p) \/ is_var(p)) /\ ~LocalCell(val(p))

is_high_priority(r) == Rule(r[1], r[2]) \in {"LINK", "VOID", "ERAS", "ANNI"}
Highs(t) == {r \in DOMAIN pool[t] : is_high_priority(r)}
Lows(t) == DOMAIN pool[t] \ Highs(t)
Pushed(t, r) == [pool EXCEPT ![t] = With(@, r)]
Popped(t, r) == [pool EXCEPT ![t] = Without(@, r)]

\* A thread between two interactions.
Ready(t, ph) == phase[t] = ph /\ pc[As(t)] = "idle" /\ hand[t] = <<>>
Go(t, ph) == phase' = [phase EXCEPT ![t] = ph]

CudaInit ==
  /\ InitNet
  /\ pool = [t \in Gid |-> EmptyBag]
  /\ mode = "GROW" /\ launches = 0
  /\ phase = [t \in Gid |-> "exit"]
  /\ slice = [t \in Gid |-> {}]
  /\ saved = {BootRedex}
  /\ hand = [t \in Gid |-> <<>>]

-----------------------------------------------------------------------------
(* A launch: local memories and bags are cleared, and the redexes spread.  *)

Launch ==
  /\ \A t \in Gid : phase[t] = "exit"
  /\ saved # {} /\ launches < MaxLaunch
  /\ launches' = launches + 1
  /\ mode' \in IF launches' < MaxLaunch THEN {"GROW", "WORK"} ELSE {"GROW"}
  /\ \E to \in [saved -> Gid] : slice' = [t \in Gid |-> {r \in saved : to[r] = t}]
  /\ saved' = {}
  /\ phase' = [t \in Gid |-> "load"]
  /\ pool' = [t \in Gid |-> EmptyBag]
  /\ node_buf' = [c \in Loc |-> IF LocalCell(c) THEN FREE_NODE ELSE node_buf[c]]
  /\ vars_buf' = [c \in Loc |-> IF LocalCell(c) THEN FREE ELSE vars_buf[c]]
  /\ nput' = [i \in Thread |-> IF i \in Bounded THEN 1 ELSE nput[i]]
  /\ vput' = [i \in Thread |-> IF i \in Bounded THEN 1 ELSE vput[i]]
  /\ UNCHANGED <<program, pc, todo, oper, itrs, hand>>

\* load_redexes: enter both ports of each redex, then push it.
Load(t) ==
  /\ Ready(t, "load") /\ slice[t] # {}
  /\ LET r == CHOOSE x \in slice[t] : TRUE
     IN  /\ slice' = [slice EXCEPT ![t] = @ \ {r}]
         /\ hand' = [hand EXCEPT ![t] = [for |-> "load", ports |-> r, ended |-> {}]]
  /\ UNCHANGED <<vars, mode, launches, phase, saved>>

Loaded(t) ==
  /\ Ready(t, "load") /\ slice[t] = {}
  /\ Go(t, "run")
  /\ UNCHANGED <<vars, mode, launches, slice, saved, hand>>

\* An iteration of enter on the first port that needs one.
Entering(t) ==
  IF hand[t] = <<>> THEN {}
  ELSE {k \in 1 .. 2 : is_var(hand[t].ports[k]) /\ k \notin hand[t].ended}

EnterPort(t) ==
  /\ Entering(t) # {}
  /\ LET k   == Min(Entering(t))
         x   == val(hand[t].ports[k])
         got == vars_buf[x]
     IN  IF got \in {NONE, FREE}
         THEN /\ vars_buf' = [vars_buf EXCEPT ![x] = NONE]
              /\ hand' = [hand EXCEPT ![t].ended = @ \cup {k}]
         ELSE /\ vars_buf' = [vars_buf EXCEPT ![x] = FREE]
              /\ hand' = [hand EXCEPT ![t].ports[k] = got]
  /\ UNCHANGED <<program, node_buf, pool, nput, vput, pc, todo, oper, itrs,
                 mode, launches, phase, slice, saved>>

LoadPush(t) ==
  /\ hand[t] # <<>> /\ Entering(t) = {} /\ hand[t].for = "load"
  /\ pool' = Pushed(t, hand[t].ports)
  /\ hand' = [hand EXCEPT ![t] = <<>>]
  /\ UNCHANGED <<program, node_buf, vars_buf, nput, vput, pc, todo, oper, itrs,
                 mode, launches, phase, slice, saved>>

-----------------------------------------------------------------------------
(* link, from the end of enter on.                                         *)

\* A mutation: a global variable gets a local node.
LeaksNone(A, B) == FALSE

\* B would leak.
Leaks(A, B) == is_global(A) /\ is_local(B)

CudaPoint(t) ==
  LET A   == Linking(t)[1]
      B   == Linking(t)[2]
      got == vars_buf[val(A)]
  IN  /\ pc[t] = "point" \/ (pc[t] = "link" /\ is_var(A) /\ ~is_var(B))
      /\ IF Leaks(A, B) /\ is_var(B)
         THEN GoOn(t, <<B, A>>, "link") /\ UNCHANGED <<vars_buf, pool>>
         ELSE IF Leaks(A, B) \/ (is_global(A) /\ got = FREE)
         THEN /\ pool' = Pushed(BagOf[t], <<A, B>>)
              /\ Links(t, Tail(todo[t]))
              /\ UNCHANGED vars_buf
         ELSE /\ IF got = NONE
                 THEN /\ vars_buf' = [vars_buf EXCEPT ![val(A)] = B]
                      /\ Links(t, Tail(todo[t]))
                 ELSE /\ vars_buf' = [vars_buf EXCEPT ![val(A)] = FREE]
                      /\ GoOn(t, <<got, B>>, "link")
              /\ UNCHANGED pool
      /\ UNCHANGED <<node_buf, nput, vput, oper, itrs>>

Linkage(t) ==
  /\ PushRedex(As(t)) \/ Enter(As(t)) \/ CudaPoint(As(t))
  /\ UNCHANGED <<program, cudaVars>>

-----------------------------------------------------------------------------
(* interact_link: the LEAK of a node, or a link that was delayed.          *)

\* A mutation: the node is loaded and not taken.
InteractLinkLoad(t) ==
  \E r \in Redexes(As(t), "LINK") :
    LET a == PairOf(r)[1]
        b == PairOf(r)[2]
    IN  /\ pool' = Popped(t, r)
        /\ hand' = [hand EXCEPT ![t] =
             [for |-> "leak", var |-> a, tag |-> tag(b),
              ports |-> node_buf[val(b)], ended |-> {}]]
        /\ UNCHANGED <<program, node_buf, vars_buf, nput, vput, pc, todo, oper, itrs,
                       mode, launches, phase, slice, saved>>

\* The node is taken, and its ports are entered.  NetLinear says that no link is
\* ever delayed: a variable that a link holds is filled.
InteractLink(t) ==
  \E r \in Redexes(As(t), "LINK") :
    LET a == PairOf(r)[1]
        b == PairOf(r)[2]
    IN  /\ pool' = Popped(t, r)
        /\ IF is_global(a) /\ is_nod(b) /\ is_local(b)
           THEN /\ node_buf' = [node_buf EXCEPT ![val(b)] = FREE_NODE]
                /\ hand' = [hand EXCEPT ![t] =
                     [for |-> "leak", var |-> a, tag |-> tag(b),
                      ports |-> node_buf[val(b)], ended |-> {}]]
                /\ UNCHANGED <<pc, todo>>
           ELSE Links(As(t), << <<a, b>> >>) /\ UNCHANGED <<node_buf, hand>>
        /\ UNCHANGED <<program, vars_buf, nput, vput, oper, itrs,
                       mode, launches, phase, slice, saved>>

\* The ports of the node that leak, too.
LeakedPorts(h) ==
  LET Leaked(k) == IF is_local(h.ports[k]) THEN <<k>> ELSE <<>>
  IN  Leaked(1) \o Leaked(2)

\* A mutation: the ports of the global node are swapped.
GlobalPortsSwapped(h, ks, v) ==
  Reverse([k \in 1 .. 2 |-> IF Contains(ks, k) THEN VarP(v[SelectInSeq(ks, LAMBDA x : x = k)])
                            ELSE h.ports[k]])

\* A global variable for each of those; the others stay.
GlobalPorts(h, ks, v) ==
  [k \in 1 .. 2 |-> IF Contains(ks, k) THEN VarP(v[SelectInSeq(ks, LAMBDA x : x = k)])
                    ELSE h.ports[k]]

\* The variables are linked with the ports, the one that was waiting with the
\* global node.
LeakStore(t) ==
  LET h  == hand[t]
      ks == LeakedPorts(h)
      v  == vars_alloc(Global(t), Len(ks))
      n  == node_alloc(Global(t), 1)
  IN  /\ h # <<>> /\ Entering(t) = {} /\ h.for = "leak"
      /\ get_resources(Global(t), 1, Len(ks))
      /\ Rewrite(Global(t), {}, n, <<GlobalPorts(h, ks, v)>>, v)
      /\ Links(As(t), [i \in DOMAIN ks |-> <<VarP(v[i]), h.ports[ks[i]]>>]
                        \o << <<h.var, <<h.tag, n[1]>> >> >>)
      /\ hand' = [hand EXCEPT ![t] = <<>>]
      /\ UNCHANGED <<program, pool, oper, itrs, mode, launches, phase, slice, saved>>

-----------------------------------------------------------------------------
(* The launch, and save_redexes at its end.                                *)

\* Redexes are reduced in the launch's mode until the thread stops, and at its
\* end while there are high-priority ones.
Reducing(t) == Ready(t, "run") \/ (Ready(t, "flush") /\ Highs(t) # {})

Reduce(t) ==
  /\ \/ /\ Reducing(t)
        /\ Call(As(t)) \/ Void(As(t)) \/ Eras(As(t)) \/ Anni(As(t)) \/ Comm(As(t))
             \/ Swit(As(t)) \/ OperTake(As(t))
     \/ OperEnter(As(t)) \/ Operate(As(t))
  /\ UNCHANGED <<program, cudaVars>>

ReduceLink(t) == Reducing(t) /\ InteractLink(t)

\* In the last launch, not before the bag is empty.
Stop(t) ==
  /\ Ready(t, "run") /\ Highs(t) = {}
  /\ launches < MaxLaunch \/ Lows(t) = {}
  /\ Go(t, "save")
  /\ UNCHANGED <<vars, mode, launches, slice, saved, hand>>

\* A low-priority redex is linked with two global variables, which are saved.
Save(t) ==
  /\ Ready(t, "save") /\ Lows(t) # {}
  /\ LET r == CHOOSE x \in Lows(t) : TRUE
         v == vars_alloc(Global(t), 2)
         X == VarP(v[1])
         Y == VarP(v[2])
     IN  /\ pool' = Popped(t, r)
         /\ get_resources(Global(t), 0, 2)
         /\ Rewrite(Global(t), {}, <<>>, <<>>, v)
         /\ Links(As(t), << <<X, r[1]>>, <<Y, r[2]>> >>)
         /\ saved' = saved \cup {<<X, Y>>}
  /\ UNCHANGED <<program, oper, itrs, mode, launches, phase, slice, hand>>

Saved(t) ==
  /\ Ready(t, "save") /\ Lows(t) = {}
  /\ Go(t, "flush")
  /\ UNCHANGED <<vars, mode, launches, slice, saved, hand>>

\* A mutation: the launch ends with the redexes saved.
ExitHasty(t) ==
  /\ Ready(t, "flush")
  /\ Go(t, "exit")
  /\ UNCHANGED <<vars, mode, launches, slice, saved, hand>>

\* The high-priority redexes have been reduced.
Exit(t) ==
  /\ Ready(t, "flush") /\ Highs(t) = {}
  /\ Go(t, "exit")
  /\ UNCHANGED <<vars, mode, launches, slice, saved, hand>>

CudaStep(t) ==
  \/ Load(t) \/ Loaded(t) \/ EnterPort(t) \/ LoadPush(t)
  \/ Linkage(t) \/ Reduce(t) \/ ReduceLink(t) \/ LeakStore(t)
  \/ Stop(t) \/ Save(t) \/ Saved(t) \/ Exit(t)

CudaNext == Launch \/ \E t \in Gid : CudaStep(t)

CudaSpec == CudaInit /\ [][CudaNext]_allVars
-----------------------------------------------------------------------------
(* Properties.                                                             *)

\* The redexes between two launches, or not loaded yet in this one.
Kept == saved \cup UNION {slice[t] : t \in Gid}

\* What they hold, and the hands.
HeldInKept == {<< <<"saved", r, k>>, r[k]>> : r \in Kept, k \in {1, 2}}
HeldInHands ==
  LET Holding == {t \in Gid : hand[t] # <<>>}
  IN  {<< <<"hand", t, k>>, hand[t].ports[k]>> : t \in Holding, k \in {1, 2}}
        \cup {<< <<"leak", t>>, hand[t].var>> : t \in {x \in Holding : hand[x].for = "leak"}}

\* The net is linear over both memories at every moment, whatever leaks.
NetLinear == LinearIn(Held \cup HeldInKept \cup HeldInHands)

\* The searches in the global memory find what a thread asks of them.
GridRoomy ==
  \A t \in Gid :
    /\ As(t) \notin Bounded => HasRoom(As(t))
    /\ Ready(t, "save") /\ Lows(t) # {} => Finds(Global(t), 0, 2)
    /\ hand[t] # <<>> /\ Entering(t) = {} /\ hand[t].for = "leak" =>
         Finds(Global(t), 1, Len(LeakedPorts(hand[t])))

\* Every redex has been reduced, in the last launch or before.
Reduced == launches > 0 /\ saved = {} /\ \A t \in Gid : phase[t] = "exit"

\* A local port is held by its thread only, in its local memory, its bag or its
\* hands: in no global cell and no saved redex, which other blocks read, to whom
\* it would name a cell of their own.
Private ==
  LET Foreign(p, t) == is_local(p) /\ Owner(val(p)) # t
      Pair(q, t)    == Foreign(q[1], t) \/ Foreign(q[2], t)
  IN  /\ \A c \in Loc :
           LET ports == {node_buf[c][1], node_buf[c][2], vars_buf[c]} \ {FREE}
           IN  \A p \in ports : is_local(p) => LocalCell(c) /\ Owner(c) = Owner(val(p))
      /\ \A q \in Kept : ~is_local(q[1]) /\ ~is_local(q[2])
      /\ \A t \in Gid : \A q \in DOMAIN pool[t] : ~Pair(q, t)

\* A thread leaves nothing in the memory that goes away with the launch: no
\* node or variable, and no redex in its bag (hvm.cu:1456, "ERR SAVE_REDEXES").
NothingLost ==
  \A t \in Gid : phase[t] = "exit" =>
    /\ pool[t] = EmptyBag
    /\ \A c \in Loc : LocalCell(c) /\ Owner(c) = t =>
         node_buf[c] = FREE_NODE /\ vars_buf[c] = FREE
=============================================================================
