--------------------------- MODULE CudaEvaluator ----------------------------
(***************************************************************************)
(* The evaluator of the CUDA runtime (src/src/hvm.cu): a kernel that every *)
(* thread of a grid runs, the small kernel between two of its launches,    *)
(* and the host that launches both until no redex is left.                 *)
(*                                                                         *)
(* Threads share nothing but the spawn cells of their block, which a       *)
(* barrier separates from their readers, and counters they only add to.    *)
(* So an action is what one thread does between two accesses another one   *)
(* could tell apart: an interaction with its pushes, a loop over its own   *)
(* slots of the global bag.  What an interaction does to the net is        *)
(* abstract, as in Evaluator: the redex pushes the redexes of Spawn.       *)
(***************************************************************************)
EXTENDS Integers, Sequences, FiniteSets, SequencesExt

CONSTANTS
  TPB_L2,   \* threads per block, a power of two (7)
  BPG_L2,   \* blocks per grid, a power of two (7)
  RLEN,     \* capacity of each stack of a thread's bag (256)
  TICKS,    \* steps of a thread in a launch in WORK mode (512)
  GIVES,    \* interactions a thread does looking for a redex to give (64)
  WRAP,     \* 2^32
  Redex,    \* redexes, each born once
  High,     \* those of rules LINK, VOID, ERAS, ANNI, and the booted ones
  Link,     \* those of rule LINK, not counted as interactions
  Par,      \* those the program marks as parallel
  Wide,     \* those that ask for more cells than a thread has in its share of
            \* the local memory
  Spawn,    \* the redexes an interaction pushes, in order
  Need,     \* the room in the bag an interaction asks get_resources for
  Node,     \* nodes, each with all that is under it
  Under,    \* the nodes at the ports of a node
  Nodes,    \* the nodes at the ports of a redex
  Boots,    \* the root redexes the host boots, one normalize each
  EMPTY, FULL,  \* a spawn cell: no redex; a thread that has redexes
  NONE

TPB == 2 ^ TPB_L2
BPG == 2 ^ BPG_L2
Thread == 0 .. TPB * BPG - 1   \* GID
Block == 0 .. BPG - 1          \* BID
TID(t) == t % TPB
BID(t) == t \div TPB
Threads(b) == {t \in Thread : BID(t) = b}

ASSUME CudaAssumption ==
  /\ BPG_L2 \in Nat \ {0} /\ TPB_L2 \in Nat \ {0} /\ BPG_L2 <= TPB_L2
  /\ RLEN \in Nat \ {0} /\ TICKS \in Nat \ {0} /\ GIVES \in Nat \ {0}
  /\ WRAP \in Nat /\ WRAP > RLEN + 2
  /\ High \subseteq Redex /\ Link \subseteq High /\ Par \subseteq Redex
  /\ Wide \subseteq Redex \ High
  /\ Node \cap Redex = {} /\ EMPTY # FULL
  /\ Spawn \in [Redex -> Seq(Redex)]
  /\ Need \in [Redex -> Nat]
  /\ \A r \in Redex : Len(Spawn[r]) <= Need[r]
  /\ Nodes \in [Redex -> Seq(Node)] /\ \A r \in Redex : Len(Nodes[r]) <= 2
  /\ Under \in [Node -> Seq(Node)] /\ \A n \in Node : Len(Under[n]) <= 2
  /\ Boots \in Seq(High \ Link) /\ Boots # <<>>
  /\ \A e \in {EMPTY, FULL, NONE} :
       e \notin [redex : Redex \cup Node, par : BOOLEAN, local : BOOLEAN]

\* Each redex is born once: booted once, or pushed once by one interaction.
ASSUME BirthAssumption ==
  /\ \A k, l \in DOMAIN Boots : Boots[k] = Boots[l] => k = l
  /\ \A r, s \in Redex : \A k \in DOMAIN Spawn[r], l \in DOMAIN Spawn[s] :
       Spawn[r][k] = Spawn[s][l] => r = s /\ k = l
  /\ \A r \in Redex : \A k \in DOMAIN Spawn[r] : Spawn[r][k] \notin Range(Boots)

VARIABLES
  mode, down, rdec,  \* gnet->mode: SEED, GROW, WORK; gnet->down, gnet->rdec
  turn,              \* gnet->turn, modulo 2
  use,               \* gnet->rbag_use_A, rbag_use_B
  bags,              \* gnet->rbag_buf_A, rbag_buf_B: a sequence per slice of RLEN cells
  pos,               \* gnet->rbag_pos
  iadd, itrs,        \* gnet->iadd, gnet->itrs
  host,              \* what the host does: "boot", "kernel", "check", "done"
  hturn,             \* its local turn, modulo 2
  boots,             \* calls of gnet_normalize so far
  stage, tick,       \* of a block: between which two barriers its threads are
  pc,                \* of a thread: "wait" at the barrier
  rbag,              \* its bag in shared memory: stacks hi and lo
  spawn,             \* its cell of the spawn buffer
  rpos, redex, i,    \* its locals
  done               \* history: redexes reduced

netVars == <<mode, down, rdec, turn, use, bags, pos, iadd, itrs>>
hostVars == <<host, hturn, boots>>
threadVars == <<stage, tick, pc, rbag, spawn, rpos, redex, i>>
vars == <<netVars, hostVars, threadVars, done>>

-----------------------------------------------------------------------------
(* The bag.  An entry is a redex, its parallel flag, and whether its nodes *)
(* are in the local memory of its block.  An entry that has a node for its *)
(* redex is a LINK of a global variable with that node, local: a leak.     *)

NoRedexes == [hi |-> <<>>, lo |-> <<>>]
rbag_len(b) == Len(b.hi) + Len(b.lo)
has_highs(b) == b.hi # <<>>
\* A new redex: in WORK mode its nodes are local.
Entry(r) == [redex |-> r, par |-> r \in Par, local |-> mode = "WORK"]
clr_par_flag(e) == [e EXCEPT !.par = FALSE]
Leak(e) == e.redex \in Node
is_high_priority(e) == e.redex \in High \/ Leak(e)

push_redex(b, e) ==
  IF is_high_priority(e) THEN [b EXCEPT !.hi = Append(@, e)]
                         ELSE [b EXCEPT !.lo = Append(@, e)]
\* A sequence of redexes, pushed in order.
push_all(b, s) ==
  LET bag[n \in 0 .. Len(s)] == IF n = 0 THEN b ELSE push_redex(bag[n - 1], s[n])
  IN  bag[Len(s)]

\* The entry pop_redex returns, of a bag that has one, and the bag it leaves.
Top(b) == Last(IF has_highs(b) THEN b.hi ELSE b.lo)
Popped(b) == IF has_highs(b) THEN [b EXCEPT !.hi = Front(@)] ELSE [b EXCEPT !.lo = Front(@)]

\* The slice of the global bag a thread loads from and saves to.
transpose(idx) ==
  LET row == idx \div TPB
      col == idx % TPB
  IN  (col % BPG) * TPB + (col \div BPG) + row * (TPB \div BPG)
BagOf(t) == IF mode = "SEED" THEN transpose(t) ELSE t

-----------------------------------------------------------------------------
(* interact, on the redex on top of thread t's bag.                        *)

\* The room the rule of a redex asks for.
Asked(e) == IF Leak(e) THEN 3 ELSE Need[e.redex]

\* A mutation: only the high stack is looked at.
SucceedsLowFull(b, e) ==
  /\ RLEN - Len(b.hi) >= Asked(e)
  /\ ~(mode = "WORK" /\ e.redex \in Wide)

\* get_resources and the rules: room in both stacks; cells, which the global
\* memory always has.
Succeeds(b, e) ==
  /\ RLEN - Len(b.hi) >= Asked(e)
  /\ RLEN - Len(b.lo) >= Asked(e)
  /\ ~(mode = "WORK" /\ e.redex \in Wide)

\* A leak links new global variables with the nodes at the ports of its node; nobody
\* has met them yet, so no redex comes of it.
Pushes(e) ==
  LET s == IF Leak(e) THEN Under[e.redex] ELSE Spawn[e.redex]
  IN  [k \in DOMAIN s |-> Entry(s[k])]

Interact(t, succeeded) ==
  LET e == Top(rbag[t])
      b == Popped(rbag[t])
  IN  /\ succeeded = Succeeds(b, e)
      /\ rbag' = [rbag EXCEPT ![t] = IF succeeded THEN push_all(b, Pushes(e))
                                     ELSE push_redex(b, e)]
      /\ iadd' = iadd + (IF succeeded /\ e.redex \notin Link \cup Node THEN 1 ELSE 0)
      /\ done' = IF succeeded THEN done \cup ({e.redex} \ Node) ELSE done

Goto(t, label) == pc' = [pc EXCEPT ![t] = label]

-----------------------------------------------------------------------------
(* The stages of the kernel.                                               *)

span(tk) == 2 ^ tk
Tlim == IF mode = "SEED" THEN BPG_L2 ELSE TPB_L2

\* A mutation: a thread gives to one that has redexes.
FreeAny(cell) == cell \in {EMPTY, FULL}

\* A cell another thread may put a redex in.
Free(cell) == cell = EMPTY

\* What a thread has to do in a stage before it waits for its block again.
Task(t, stg, tk, sp, rp) ==
  CASE stg = "give" /\ TID(t) < span(tk) /\ Free(sp[t + span(tk)]) -> "give"
    [] stg = "take" /\ TID(t) \in span(tk) .. 2 * span(tk) - 1
                    /\ sp[t] \notin {EMPTY, FULL} -> "take"
    [] stg = "work" /\ (Len(rbag[t].lo) > rp[t] \/ has_highs(rbag[t])) -> "work"
    [] stg = "save" /\ rbag[t].lo # <<>> -> "save"
    [] stg = "flush" /\ has_highs(rbag[t]) -> "flush"
    [] OTHER -> "wait"

\* __syncthreads: the threads of a block go on together.
Sync(b, from) ==
  /\ stage[b] = from
  /\ \A t \in Threads(b) : pc[t] = "wait"
  /\ UNCHANGED hostVars

Proceed(b, stg, tk, sp, rp) ==
  /\ stage' = [stage EXCEPT ![b] = stg]
  /\ tick' = [tick EXCEPT ![b] = tk]
  /\ pc' = [t \in Thread |-> IF BID(t) = b THEN Task(t, stg, tk, sp, rp) ELSE pc[t]]

\* A mutation: the cells are loaded and not exchanged with 0.
TakenKeep(slice) == bags

\* A slice of the bag of this turn is exchanged with empty cells.
Taken(slice) == [bags EXCEPT ![turn][slice] = <<>>]

\* load_redexes: the redexes of the slice, up to the first empty cell.
Load(t) ==
  /\ pc[t] = "load"
  /\ rbag' = [rbag EXCEPT ![t] = push_all(@, bags[turn][BagOf(t)])]
  /\ bags' = Taken(BagOf(t))
  /\ Goto(t, "wait")
  /\ UNCHANGED <<mode, down, rdec, turn, use, pos, iadd, itrs, hostVars, stage, tick,
                 spawn, rpos, redex, i, done>>

\* A block with no redex returns; otherwise the locals, and the mode's stage.
SyncLoad(b) ==
  LET sp == [t \in Thread |-> IF BID(t) # b THEN spawn[t]
                              ELSE IF rbag_len(rbag[t]) > 0 THEN FULL ELSE EMPTY]
      at == [t \in Thread |-> pos[BagOf(t)]]
      rp == [t \in Thread |-> IF BID(t) # b THEN rpos[t]
                              ELSE IF mode # "WORK" /\ at[t] > 0 THEN at[t] - rdec ELSE at[t]]
  IN  /\ Sync(b, "load")
      /\ IF \A t \in Threads(b) : rbag_len(rbag[t]) = 0
         THEN Proceed(b, "exit", 0, sp, rp)
         ELSE Proceed(b, IF mode = "WORK" THEN "work" ELSE "give", 0, sp, rp)
      /\ spawn' = sp
      /\ rpos' = rp
      /\ UNCHANGED <<netVars, rbag, redex, i, done>>

-----------------------------------------------------------------------------
(* SEED and GROW: at each tick, half the threads look for a redex to give  *)
(* to a thread of the other half.                                          *)

\* Gives the redex, if it is marked, to the thread targ.
Offer(t, r, b) ==
  /\ redex' = [redex EXCEPT ![t] = r]
  /\ rbag' = [rbag EXCEPT ![t] = b]
  /\ IF r # NONE /\ r.par
     THEN /\ spawn' = [spawn EXCEPT ![t + span(tick[BID(t)])] = clr_par_flag(r)]
          /\ rpos' = [rpos EXCEPT ![t] = IF down THEN @ ELSE (Len(b.lo) - 1) % WRAP]
     ELSE UNCHANGED <<spawn, rpos>>
  /\ i' = [i EXCEPT ![t] = 0]
  /\ Goto(t, "wait")
  /\ UNCHANGED <<netVars, hostVars, stage, tick, done>>

\* The loop goes on: the bag is not down to rpos.
Looking(t) == pc[t] = "give" /\ i[t] < GIVES /\ Len(rbag[t].lo) >= rpos[t]

\* A redex that is not marked is reduced, and the high ones after it.
GiveInteract(t) ==
  /\ Looking(t) /\ rbag_len(rbag[t]) > 0 /\ ~Top(rbag[t]).par
  /\ \E ok \in BOOLEAN : Interact(t, ok)
  /\ redex' = [redex EXCEPT ![t] = NONE]
  /\ i' = [i EXCEPT ![t] = @ + 1]
  /\ Goto(t, IF has_highs(rbag'[t]) THEN "high" ELSE "give")
  /\ UNCHANGED <<mode, down, rdec, turn, use, bags, pos, itrs, hostVars, stage, tick,
                 spawn, rpos>>

\* A mutation: the redex below is popped, and not pushed back.
UnmarkedDrop(b) == IF rbag_len(b) = 0 THEN b ELSE Popped(b)

\* The redex on top loses its mark, so it is kept.
Unmarked(b) ==
  IF rbag_len(b) = 0 THEN b ELSE push_redex(Popped(b), clr_par_flag(Top(b)))

\* A marked redex is given; the one below it loses its mark and stays.
GiveFound(t) ==
  /\ Looking(t) /\ rbag_len(rbag[t]) > 0 /\ Top(rbag[t]).par
  /\ Offer(t, Top(rbag[t]), Unmarked(Popped(rbag[t])))

GiveEmpty(t) ==
  /\ Looking(t) /\ rbag_len(rbag[t]) = 0
  /\ Offer(t, NONE, rbag[t])

\* The loop ends with the redex it has, which may be that of an earlier tick.
GiveStop(t) ==
  /\ pc[t] = "give" /\ ~Looking(t)
  /\ Offer(t, redex[t], rbag[t])

SyncGive(b) ==
  /\ Sync(b, "give")
  /\ Proceed(b, "take", tick[b], spawn, rpos)
  /\ UNCHANGED <<netVars, rbag, spawn, rpos, redex, i, done>>

\* A thread that has been given a redex.
Take(t) ==
  /\ pc[t] = "take"
  /\ rbag' = [rbag EXCEPT ![t] = push_redex(@, spawn[t])]
  /\ spawn' = [spawn EXCEPT ![t] = FULL]
  /\ rpos' = [rpos EXCEPT ![t] = 0]
  /\ Goto(t, "wait")
  /\ UNCHANGED <<netVars, hostVars, stage, tick, redex, i, done>>

SyncTake(b) ==
  /\ Sync(b, "take")
  /\ IF tick[b] + 1 < Tlim
     THEN /\ Proceed(b, "give", tick[b] + 1, spawn, rpos)
          /\ UNCHANGED pos
     ELSE /\ Proceed(b, "save", 0, spawn, rpos)
          /\ pos' = [s \in Thread |-> IF \E t \in Threads(b) : BagOf(t) = s
                                      THEN rpos[CHOOSE t \in Threads(b) : BagOf(t) = s]
                                      ELSE pos[s]]
  /\ UNCHANGED <<mode, down, rdec, turn, use, bags, iadd, itrs, rbag, spawn, rpos,
                 redex, i, done>>

-----------------------------------------------------------------------------
(* WORK, and the loop over high-priority redexes.                          *)

WorkInteract(t) ==
  /\ pc[t] = "work"
  /\ \E ok \in BOOLEAN :
       /\ Interact(t, ok)
       /\ Goto(t, IF ok /\ has_highs(rbag'[t]) THEN "high" ELSE "wait")
  /\ UNCHANGED <<mode, down, rdec, turn, use, bags, pos, itrs, hostVars, stage, tick,
                 spawn, rpos, redex, i>>

HighInteract(t) ==
  /\ pc[t] = "high"
  /\ \E ok \in BOOLEAN :
       /\ Interact(t, ok)
       /\ Goto(t, IF ok /\ has_highs(rbag'[t]) THEN "high"
                  ELSE IF stage[BID(t)] = "work" THEN "wait" ELSE "give")
  /\ UNCHANGED <<mode, down, rdec, turn, use, bags, pos, itrs, hostVars, stage, tick,
                 spawn, rpos, redex, i>>

SyncWork(b) ==
  /\ Sync(b, "work")
  /\ IF tick[b] + 1 < TICKS THEN Proceed(b, "work", tick[b] + 1, spawn, rpos)
                            ELSE Proceed(b, "save", 0, spawn, rpos)
  /\ UNCHANGED <<netVars, rbag, spawn, rpos, redex, i, done>>

-----------------------------------------------------------------------------
(* save_redexes, and the end of the kernel.                                *)

\* The leaks that linking the ports of a redex with global variables pushes.
Leaks(e) == IF e.local THEN [n \in DOMAIN Nodes[e.redex] |-> Entry(Nodes[e.redex][n])]
                       ELSE <<>>

\* The low stack goes to the other global bag, as pairs of global variables;
\* linking one with a local node pushes a LINK that leaks the node.
Save(t) ==
  LET lo == rbag[t].lo
      leaks == FlattenSeq([k \in DOMAIN lo |-> Leaks(lo[k])])
  IN  /\ pc[t] = "save"
      /\ bags' = [bags EXCEPT ![1 - turn][BagOf(t)] =
                    [k \in DOMAIN lo |-> [lo[k] EXCEPT !.local = FALSE]]]
      /\ use' = [use EXCEPT ![1 - turn] = @ + Len(lo)]
      /\ rbag' = [rbag EXCEPT ![t] = [hi |-> @.hi \o leaks, lo |-> <<>>]]
      /\ Goto(t, "wait")
      /\ UNCHANGED <<mode, down, rdec, turn, pos, iadd, itrs, hostVars, stage, tick,
                     spawn, rpos, redex, i, done>>

SyncSave(b) ==
  /\ Sync(b, "save")
  /\ Proceed(b, "flush", 0, spawn, rpos)
  /\ UNCHANGED <<netVars, rbag, spawn, rpos, redex, i, done>>

\* The high-priority redexes are reduced, until none is left.
Flush(t) ==
  /\ pc[t] = "flush"
  /\ \E ok \in BOOLEAN : Interact(t, ok)
  /\ Goto(t, IF has_highs(rbag'[t]) THEN "flush" ELSE "wait")
  /\ UNCHANGED <<mode, down, rdec, turn, use, bags, pos, itrs, hostVars, stage, tick,
                 spawn, rpos, redex, i>>

SyncFlush(b) ==
  /\ Sync(b, "flush")
  /\ Proceed(b, "exit", 0, spawn, rpos)
  /\ UNCHANGED <<netVars, rbag, spawn, rpos, redex, i, done>>

-----------------------------------------------------------------------------
(* The host.                                                               *)

\* A launch of the evaluator.  Its locals are new, but for redex, which is not
\* initialized: a thread may find there what an earlier launch left.
Launch(buf, trn) ==
  /\ host' = "kernel"
  /\ stage' = [b \in Block |-> "load"]
  /\ tick' = [b \in Block |-> 0]
  /\ pc' = [t \in Thread |-> IF buf[trn][BagOf(t)] # <<>> THEN "load" ELSE "wait"]
  /\ rbag' = [t \in Thread |-> NoRedexes]
  /\ \E clean \in SUBSET {t \in Thread : redex[t] # NONE} :
       redex' = [t \in Thread |-> IF t \in clean THEN NONE ELSE redex[t]]
  /\ UNCHANGED <<spawn, rpos, i>>

\* gnet_boot_redex, then gnet_normalize up to the first launch.
Boot ==
  LET first == [redex |-> Boots[boots + 1], par |-> FALSE, local |-> FALSE]
      buf == [bags EXCEPT ![turn][0] = IF @ = <<>> THEN <<first>> ELSE [@ EXCEPT ![1] = first]]
  IN  /\ host = "boot"
      /\ bags' = buf
      /\ boots' = boots + 1
      /\ hturn' = 0
      /\ Launch(buf, turn)
      /\ UNCHANGED <<mode, down, rdec, turn, use, pos, iadd, itrs, done>>

\* A mutation: the counter of the bag that was saved is cleared.
ClearedOther == [use EXCEPT ![1 - turn] = 0]

\* The counter of the bag that was loaded is cleared.
Cleared == [use EXCEPT ![turn] = 0]

\* The next mode up, unless the kernels are on their way down.
Climbed ==
  IF down \/ mode = "WORK" THEN mode ELSE IF mode = "SEED" THEN "GROW" ELSE "WORK"

\* A mutation: a launch that reduced nothing does not change the mode.
NextModeStay == Climbed

\* A launch that reduced nothing turns the kernels round, up or down.
NextMode == IF iadd > 0 THEN Climbed ELSE IF Climbed = "SEED" THEN "GROW" ELSE "SEED"

\* The kernel inbetween.
Inbetween ==
  /\ host = "kernel" /\ \A b \in Block : stage[b] = "exit"
  /\ host' = "check"
  /\ use' = Cleared
  /\ turn' = 1 - turn
  /\ itrs' = itrs + iadd
  /\ iadd' = 0
  /\ mode' = NextMode
  /\ down' = IF iadd > 0 THEN down ELSE Climbed # "SEED"
  /\ rdec' = IF iadd = 0 /\ Climbed # "SEED" THEN 1 ELSE 0
  /\ UNCHANGED <<bags, pos, hturn, boots, threadVars, done>>

\* gnet_get_rlen: the redexes the last launch saved, by the host's turn.
rlen == use[1 - hturn]

Again ==
  /\ host = "check" /\ rlen # 0
  /\ hturn' = 1 - hturn
  /\ Launch(bags, turn)
  /\ UNCHANGED <<netVars, boots, done>>

Return ==
  /\ host = "check" /\ rlen = 0
  /\ host' = IF boots = Len(Boots) THEN "done" ELSE "boot"
  /\ UNCHANGED <<netVars, hturn, boots, threadVars, done>>

-----------------------------------------------------------------------------
\* The memory is taken to be zero at first: gnet_create clears no more than
\* node_put, vars_put, rbag_pos and the bags.
Init ==
  /\ mode = "SEED" /\ down = FALSE /\ rdec = 0 /\ turn = 0
  /\ use = [k \in {0, 1} |-> 0]
  /\ bags = [k \in {0, 1} |-> [t \in Thread |-> <<>>]]
  /\ pos = [t \in Thread |-> 0]
  /\ iadd = 0 /\ itrs = 0
  /\ host = "boot" /\ hturn = 0 /\ boots = 0
  /\ stage = [b \in Block |-> "exit"]
  /\ tick = [b \in Block |-> 0]
  /\ pc = [t \in Thread |-> "wait"]
  /\ rbag = [t \in Thread |-> NoRedexes]
  /\ spawn = [t \in Thread |-> EMPTY]
  /\ rpos = [t \in Thread |-> 0]
  /\ redex = [t \in Thread |-> NONE]
  /\ i = [t \in Thread |-> 0]
  /\ done = {}

Step(t) ==
  \/ Load(t) \/ GiveInteract(t) \/ GiveFound(t) \/ GiveEmpty(t) \/ GiveStop(t) \/ Take(t)
  \/ WorkInteract(t) \/ HighInteract(t) \/ Save(t) \/ Flush(t)
Barrier(b) ==
  \/ SyncLoad(b) \/ SyncGive(b) \/ SyncTake(b) \/ SyncWork(b) \/ SyncSave(b) \/ SyncFlush(b)
Host == Boot \/ Inbetween \/ Again \/ Return

Next == (\E t \in Thread : Step(t)) \/ (\E b \in Block : Barrier(b)) \/ Host

Spec == Init /\ [][Next]_vars

FairSpec ==
  /\ Spec
  /\ \A t \in Thread : WF_vars(Step(t))
  /\ \A b \in Block : WF_vars(Barrier(b))
  /\ WF_vars(Host)
-----------------------------------------------------------------------------
(* Properties.                                                             *)

Entries == [redex : Redex \cup Node, par : BOOLEAN, local : BOOLEAN]

\* The shape of the state.  The low stack of a thread never goes over its end and
\* what it saves never over that of its slice, where the next thread's begins, though
\* push_redex checks nothing (hvm.cu:718-721), load_redexes says "FIXME: check if we
\* have enuogh space" (hvm.cu:1464), a failed redex is pushed back and one is given.
\* Of the high stack this cannot be said: save_redexes pushes leaks on it and looks
\* at no bound.
TypeOK ==
  /\ mode \in {"SEED", "GROW", "WORK"} /\ down \in BOOLEAN /\ rdec \in {0, 1}
  /\ turn \in {0, 1} /\ hturn \in {0, 1}
  /\ \A t \in Thread :
       /\ \A k \in {0, 1} : bags[k][t] \in Seq(Entries) /\ Len(bags[k][t]) <= RLEN
       /\ rbag[t].hi \in Seq(Entries)
       /\ rbag[t].lo \in Seq(Entries) /\ Len(rbag[t].lo) <= RLEN
       /\ spawn[t] \in Entries \cup {EMPTY, FULL}
       /\ pos[t] \in 0 .. WRAP - 1 /\ rpos[t] \in 0 .. WRAP - 1

Holds(s, r) == {n \in DOMAIN s : s[n].redex = r}

\* The places that hold redex r.
Copies(r) ==
  MapThenSumSet(LAMBDA t :
      Cardinality(Holds(bags[0][t], r)) + Cardinality(Holds(bags[1][t], r))
    + Cardinality(Holds(rbag[t].hi, r)) + Cardinality(Holds(rbag[t].lo, r))
    + (IF spawn[t] \notin {EMPTY, FULL} /\ spawn[t].redex = r THEN 1 ELSE 0), Thread)

Born == {Boots[n] : n \in 1 .. boots} \cup UNION {Range(Spawn[r]) : r \in done}

\* No redex is lost or duplicated on its way through the two global bags, the
\* bags of the threads and the spawn cells: one that is born and not reduced
\* is in exactly one place, one that is reduced in none.
Conserved == \A r \in Redex : Copies(r) = IF r \in Born \ done THEN 1 ELSE 0

\* gnet_normalize returns when no redex is left.
NothingLeft == host \in {"boot", "done"} => Born \subseteq done

Pool == INSTANCE WorkPool WITH
          Produces <- [r \in Redex |-> Range(Spawn[r])],
          pool <- Born \ done, reduced <- done, running <- host \in {"kernel", "check"}

\* However the kernel spreads redexes over threads and launches, gnet_normalize
\* reduces each exactly once and returns only when none is left.
ImplementsPool == Pool!Spec

\* A thread that is given a redex has none ("ERROR: SPAWNED BUT HAVE REDEX",
\* hvm.cu:1678-1680).
SpawnedIdle == \A t \in Thread : pc[t] = "take" => rbag_len(rbag[t]) = 0

\* The count the host reads is that of the redexes the last launch saved.
CountExact ==
  host = "check" => rlen = MapThenSumSet(LAMBDA t : Len(bags[turn][t]), Thread)

\* What the kernel does not see to.  The host counts turns from 0 in every call of
\* gnet_normalize, the device goes on where the last call left off (CudaTurn).
TurnsAgree == host = "kernel" => hturn = turn

\* A thread whose search ends before it starts offers what redex holds, which may
\* be a redex it has given (CudaGive).
NoneStale ==
  \A t \in Thread : pc[t] = "give" /\ ~Looking(t) => redex[t] = NONE \/ ~redex[t].par

\* The high-priority redexes that save_redexes reduces push no other one: it looks
\* for one, and says "ERR SAVE_REDEXES" (hvm.cu:1456).
AllSaved == \A t \in Thread : stage[BID(t)] = "exit" => rbag[t].lo = <<>>

Orderly == TurnsAgree /\ NoneStale /\ AllSaved

\* The redexes below rpos that a thread keeps for later, and those that do not
\* fit in its local memory, are reduced in the end: the modes come round to them.
Returns == host = "kernel" ~> host \in {"boot", "done"}
=============================================================================
