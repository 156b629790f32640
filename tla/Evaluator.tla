----------------------------- MODULE Evaluator ------------------------------
(***************************************************************************)
(* The multithreaded evaluator of the C runtime (src/src/hvm.c): the redex *)
(* bags of the threads, work stealing, the idle counter that detects the   *)
(* end, the two barriers around the loop, and the main thread that boots   *)
(* one root redex after another (normalize, expand).                       *)
(*                                                                         *)
(* One action is one access to shared memory (rbag_buf, idle, the barrier, *)
(* net->itrs) with the thread-local code around it.  What an interaction   *)
(* does to the net is abstract: a redex is a value that, when reduced,     *)
(* pushes the redexes of Spawn, in order, after get_resources found room   *)
(* for Need of them.  The barrier is module Barrier, which sync_threads    *)
(* implements (SyncThreads).                                               *)
(***************************************************************************)
EXTENDS Naturals, Sequences, FiniteSets, Functions

CONSTANTS
  TPC,      \* number of threads
  RLEN,     \* capacity of a low-priority bag
  HLEN,     \* capacity of a high-priority bag
  TICK,     \* an idle thread checks for the end every TICK iterations (256)
  Redex,    \* redexes, each born once
  High,     \* those of rules LINK, VOID, ERAS, ANNI: high priority
  Link,     \* those of rule LINK, not counted as interactions: none in practice,
            \* as link pushes no pair with a variable (hvm.c:821)
  Spawn,    \* the redexes an interaction pushes, in order
  Need,     \* the room an interaction asks get_resources for
  Delayed,  \* redexes whose nodes a thread may not see yet (relaxed stores)
  Boots,    \* the root redexes main boots, one normalize each
  FREE

ASSUME EvaluatorAssumption ==
  /\ TPC \in Nat \ {0} /\ RLEN \in Nat \ {0} /\ HLEN \in Nat \ {0}
  /\ TICK \in Nat \ {0}
  /\ High \subseteq Redex /\ Link \subseteq High /\ FREE \notin Redex
  /\ Spawn \in [Redex -> Seq(Redex)]
  /\ Need \in [Redex -> Nat]
  /\ \A r \in Redex : Len(Spawn[r]) <= Need[r]
  /\ Delayed \subseteq Redex
  /\ Boots \in Seq(High \ Link)

\* Each redex is born once: booted once, or pushed once by one interaction.
ASSUME BirthAssumption ==
  /\ \A k, l \in DOMAIN Boots : Boots[k] = Boots[l] => k = l
  /\ \A r, s \in Redex : \A i \in DOMAIN Spawn[r], j \in DOMAIN Spawn[s] :
       Spawn[r][i] = Spawn[s][j] => r = s /\ i = j
  /\ \A r \in Redex : \A i \in DOMAIN Spawn[r] : Spawn[r][i] \notin Range(Boots)

Thread == 0 .. TPC - 1

VARIABLES
  rbag_buf,   \* net->rbag_buf, one slice of RLEN cells per thread
  idle,       \* net->idle
  itrs,       \* net->itrs
  boots,      \* calls of normalize so far
  pc,
  rput,       \* tm->rput: next cell of the thread's slice to push to
  hbag,       \* tm->hbag_buf below tm->hput
  sidx,       \* tm->sidx: next cell to steal
  titrs,      \* tm->itrs
  tick, busy, \* locals of evaluator
  cur,        \* the redex in the thread's hands
  todo,       \* the pushes its interaction still has to make
  done,       \* history: redexes reduced
  entered, left   \* the barrier

bagVars == <<rbag_buf, rput, hbag>>
loopVars == <<tick, busy, idle>>
countVars == <<itrs, titrs>>
barVars == <<entered, left>>
vars == <<bagVars, loopVars, countVars, barVars, boots, pc, sidx, cur, todo, done>>

B == INSTANCE Barrier

-----------------------------------------------------------------------------
Goto(t, label) == pc' = [pc EXCEPT ![t] = label]

\* rbag_len
BagLen(t) == rput[t] + Len(hbag[t])

\* (tid - 1) % TPC on u32, TPC being a power of two.
Victim(t) == IF t = 0 THEN TPC - 1 ELSE t - 1

\* The cell a thief tries: sidx counts from the start of the victim's slice;
\* one past its end is the first cell of the next slice, the thief's own.
Target(t) == IF sidx[t] < RLEN THEN <<Victim(t), sidx[t]>> ELSE <<t, 0>>

\* A mutation: only the high-priority bag is looked at.
RoomHigh(t, n) == HLEN - Len(hbag[t]) >= n

\* get_resources, rbag part: there must be room in both bags.
Room(t, n) == RLEN - rput[t] >= n /\ HLEN - Len(hbag[t]) >= n

\* push_redex
PushTo(t, r) ==
  IF r \in High
  THEN /\ hbag' = [hbag EXCEPT ![t] = Append(@, r)]
       /\ UNCHANGED <<rbag_buf, rput>>
  ELSE /\ rbag_buf' = [rbag_buf EXCEPT ![t][rput[t]] = r]
       /\ rput' = [rput EXCEPT ![t] = @ + 1]
       /\ UNCHANGED hbag

-----------------------------------------------------------------------------
Init ==
  /\ rbag_buf = [t \in Thread |-> [i \in 0 .. RLEN - 1 |-> FREE]]
  /\ idle = 0
  /\ itrs = 0
  /\ boots = 0
  /\ pc = [t \in Thread |-> "out"]
  /\ rput = [t \in Thread |-> 0]
  /\ hbag = [t \in Thread |-> <<>>]
  /\ sidx = [t \in Thread |-> 0]
  /\ titrs = [t \in Thread |-> 0]
  /\ tick = [t \in Thread |-> 0]
  /\ busy = [t \in Thread |-> FALSE]
  /\ cur = [t \in Thread |-> FREE]
  /\ todo = [t \in Thread |-> <<>>]
  /\ done = {}
  /\ B!Init

\* main: boot_redex puts the redex in the first cell of thread 0's slice,
\* and does not touch its rput; normalize spawns the threads.
Boot ==
  /\ \A t \in Thread : pc[t] = "out"
  /\ boots < Len(Boots)
  /\ boots' = boots + 1
  /\ rbag_buf' = [rbag_buf EXCEPT ![0][0] = Boots[boots + 1]]
  /\ pc' = [t \in Thread |-> "start"]
  /\ UNCHANGED <<loopVars, countVars, barVars, rput, hbag, sidx, cur, todo, done>>

\* A mutation: the idle counter starts as if thread 0 were idle too.
SetIdleAll(t) ==
  /\ pc[t] = "start"
  /\ idle' = TPC
  /\ tick' = [tick EXCEPT ![t] = 0]
  /\ busy' = [busy EXCEPT ![t] = (t = 0)]
  /\ Goto(t, "sync1")
  /\ UNCHANGED <<bagVars, countVars, barVars, boots, sidx, cur, todo, done>>

\* evaluator: every thread stores the idle counter; its locals are set.
SetIdle(t) ==
  /\ pc[t] = "start"
  /\ idle' = TPC - 1
  /\ tick' = [tick EXCEPT ![t] = 0]
  /\ busy' = [busy EXCEPT ![t] = (t = 0)]
  /\ Goto(t, "sync1")
  /\ UNCHANGED <<bagVars, countVars, barVars, boots, sidx, cur, todo, done>>

\* The two calls of sync_threads.
EnterSync(t) ==
  /\ \/ pc[t] = "sync1" /\ Goto(t, "wait1")
     \/ pc[t] = "sync2" /\ Goto(t, "wait2")
  /\ B!Enter(t)
  /\ UNCHANGED <<bagVars, loopVars, countVars, boots, sidx, cur, todo, done>>

LeaveSync1(t) ==
  /\ pc[t] = "wait1"
  /\ B!Leave(t)
  /\ Goto(t, "loop")
  /\ UNCHANGED <<bagVars, loopVars, countVars, boots, sidx, cur, todo, done>>

LeaveSync2(t) ==
  /\ pc[t] = "wait2"
  /\ B!Leave(t)
  /\ Goto(t, "add")
  /\ UNCHANGED <<bagVars, loopVars, countVars, boots, sidx, cur, todo, done>>

\* A mutation: the thread's own count is not reset.
AddItrsKept(t) ==
  /\ pc[t] = "add"
  /\ itrs' = itrs + titrs[t]
  /\ Goto(t, "out")
  /\ UNCHANGED <<bagVars, loopVars, titrs, barVars, boots, sidx, cur, todo, done>>

\* The thread adds its interactions to the total and ends.
AddItrs(t) ==
  /\ pc[t] = "add"
  /\ itrs' = itrs + titrs[t]
  /\ titrs' = [titrs EXCEPT ![t] = 0]
  /\ Goto(t, "out")
  /\ UNCHANGED <<bagVars, loopVars, barVars, boots, sidx, cur, todo, done>>

-----------------------------------------------------------------------------
(* An iteration of the loop with redexes.                                  *)

\* The thread has redexes: it is no longer idle.
Wake(t) ==
  /\ pc[t] = "loop" /\ BagLen(t) > 0
  /\ tick' = [tick EXCEPT ![t] = (@ + 1) % TICK]
  /\ idle' = IF busy[t] THEN idle ELSE idle - 1
  /\ busy' = [busy EXCEPT ![t] = TRUE]
  /\ Goto(t, "pop")
  /\ UNCHANGED <<bagVars, countVars, barVars, boots, sidx, cur, todo, done>>

\* pop_redex, from the high-priority bag.
PopHigh(t) ==
  /\ pc[t] = "pop" /\ hbag[t] # <<>>
  /\ cur' = [cur EXCEPT ![t] = hbag[t][Len(hbag[t])]]
  /\ hbag' = [hbag EXCEPT ![t] = SubSeq(@, 1, Len(@) - 1)]
  /\ Goto(t, "interact")
  /\ UNCHANGED <<rbag_buf, rput, loopVars, countVars, barVars, boots, sidx,
                 todo, done>>

\* A mutation: the cell is loaded and not exchanged.
PopLowLoad(t) ==
  LET got == rbag_buf[t][rput[t] - 1]
  IN  /\ pc[t] = "pop" /\ hbag[t] = <<>> /\ rput[t] > 0
      /\ rput' = [rput EXCEPT ![t] = @ - 1]
      /\ cur' = [cur EXCEPT ![t] = got]
      /\ Goto(t, IF got = FREE THEN "loop" ELSE "interact")
      /\ UNCHANGED <<rbag_buf, hbag, loopVars, countVars, barVars, boots, sidx,
                     todo, done>>

\* pop_redex, from the thread's slice: the cell is empty when a thief has
\* been there first.
PopLow(t) ==
  LET got == rbag_buf[t][rput[t] - 1]
  IN  /\ pc[t] = "pop" /\ hbag[t] = <<>> /\ rput[t] > 0
      /\ rbag_buf' = [rbag_buf EXCEPT ![t][rput[t] - 1] = FREE]
      /\ rput' = [rput EXCEPT ![t] = @ - 1]
      /\ cur' = [cur EXCEPT ![t] = got]
      /\ Goto(t, IF got = FREE THEN "loop" ELSE "interact")
      /\ UNCHANGED <<hbag, loopVars, countVars, barVars, boots, sidx, todo, done>>

\* interact succeeds: its pushes follow, one at a time.
Interact(t) ==
  LET r == cur[t]
  IN  /\ pc[t] = "interact" /\ Room(t, Need[r])
      /\ todo' = [todo EXCEPT ![t] = Spawn[r]]
      /\ done' = done \cup {r}
      /\ titrs' = [titrs EXCEPT ![t] = IF r \in Link THEN @ ELSE @ + 1]
      /\ cur' = [cur EXCEPT ![t] = FREE]
      /\ Goto(t, IF Spawn[r] = <<>> THEN "loop" ELSE "push")
      /\ UNCHANGED <<bagVars, loopVars, itrs, barVars, boots, sidx>>

\* A mutation: a redex whose interaction fails is dropped.
PushBackDropped(t) ==
  /\ pc[t] = "interact"
  /\ ~Room(t, Need[cur[t]]) \/ cur[t] \in Delayed
  /\ cur' = [cur EXCEPT ![t] = FREE]
  /\ Goto(t, "loop")
  /\ UNCHANGED <<bagVars, loopVars, countVars, barVars, boots, sidx, todo, done>>

\* interact fails for want of room, or because a node of the redex reads 0:
\* the redex is pushed back.
PushBack(t) ==
  /\ pc[t] = "interact"
  /\ ~Room(t, Need[cur[t]]) \/ cur[t] \in Delayed
  /\ PushTo(t, cur[t])
  /\ cur' = [cur EXCEPT ![t] = FREE]
  /\ Goto(t, "loop")
  /\ UNCHANGED <<loopVars, countVars, barVars, boots, sidx, todo, done>>

Push(t) ==
  /\ pc[t] = "push"
  /\ PushTo(t, Head(todo[t]))
  /\ todo' = [todo EXCEPT ![t] = Tail(@)]
  /\ Goto(t, IF Tail(todo[t]) = <<>> THEN "loop" ELSE "push")
  /\ UNCHANGED <<loopVars, countVars, barVars, boots, sidx, cur, done>>

-----------------------------------------------------------------------------
(* An iteration of the loop without redexes.                               *)

\* The thread has no redexes: it is idle.
GoIdle(t) ==
  /\ pc[t] = "loop" /\ BagLen(t) = 0
  /\ tick' = [tick EXCEPT ![t] = (@ + 1) % TICK]
  /\ idle' = IF busy[t] THEN idle + 1 ELSE idle
  /\ busy' = [busy EXCEPT ![t] = FALSE]
  /\ Goto(t, "steal")
  /\ UNCHANGED <<bagVars, countVars, barVars, boots, sidx, cur, todo, done>>

\* A mutation: the thief loads the cell and does not empty it.
StealLoad(t) ==
  LET at  == Target(t)
      got == rbag_buf[at[1]][at[2]]
  IN  /\ pc[t] = "steal"
      /\ sidx[t] < RLEN \/ t > 0
      /\ cur' = [cur EXCEPT ![t] = got]
      /\ sidx' = [sidx EXCEPT ![t] = IF got = FREE THEN 0 ELSE @ + 1]
      /\ Goto(t, CASE got # FREE -> "stolen"
                   [] got = FREE /\ tick[t] = 0 -> "check"
                   [] OTHER -> "loop")
      /\ UNCHANGED <<bagVars, loopVars, countVars, barVars, boots, todo, done>>

\* A mutation: the steal index is not reset when a cell is empty.
StealOnward(t) ==
  LET at  == Target(t)
      got == rbag_buf[at[1]][at[2]]
  IN  /\ pc[t] = "steal"
      /\ sidx[t] < RLEN \/ t > 0
      /\ rbag_buf' = [rbag_buf EXCEPT ![at[1]][at[2]] = FREE]
      /\ cur' = [cur EXCEPT ![t] = got]
      /\ sidx' = [sidx EXCEPT ![t] = @ + 1]
      /\ Goto(t, CASE got # FREE -> "stolen"
                   [] got = FREE /\ tick[t] = 0 -> "check"
                   [] OTHER -> "loop")
      /\ UNCHANGED <<rput, hbag, loopVars, countVars, barVars, boots, todo, done>>

\* The thief exchanges a cell for 0.  Beyond the slice of the last thread is
\* no cell of rbag_buf: what thread 0 does there is undefined, no step.
Steal(t) ==
  LET at  == Target(t)
      got == rbag_buf[at[1]][at[2]]
  IN  /\ pc[t] = "steal"
      /\ sidx[t] < RLEN \/ t > 0
      /\ rbag_buf' = [rbag_buf EXCEPT ![at[1]][at[2]] = FREE]
      /\ cur' = [cur EXCEPT ![t] = got]
      /\ sidx' = [sidx EXCEPT ![t] = IF got = FREE THEN 0 ELSE @ + 1]
      /\ Goto(t, CASE got # FREE -> "stolen"
                   [] got = FREE /\ tick[t] = 0 -> "check"
                   [] OTHER -> "loop")
      /\ UNCHANGED <<rput, hbag, loopVars, countVars, barVars, boots, todo, done>>

PushStolen(t) ==
  /\ pc[t] = "stolen"
  /\ PushTo(t, cur[t])
  /\ cur' = [cur EXCEPT ![t] = FREE]
  /\ Goto(t, "loop")
  /\ UNCHANGED <<loopVars, countVars, barVars, boots, sidx, todo, done>>

\* Halt if the idle counter says every thread is idle.
Check(t) ==
  /\ pc[t] = "check"
  /\ Goto(t, IF idle = TPC THEN "sync2" ELSE "loop")
  /\ UNCHANGED <<bagVars, loopVars, countVars, barVars, boots, sidx, cur, todo,
                 done>>

Step(t) ==
  \/ SetIdle(t) \/ EnterSync(t) \/ LeaveSync1(t) \/ LeaveSync2(t) \/ AddItrs(t)
  \/ Wake(t) \/ PopHigh(t) \/ PopLow(t) \/ Interact(t) \/ PushBack(t) \/ Push(t)
  \/ GoIdle(t) \/ Steal(t) \/ PushStolen(t) \/ Check(t)

Next == Boot \/ \E t \in Thread : Step(t)

Spec == Init /\ [][Next]_vars
FairSpec == Spec /\ WF_vars(Boot) /\ \A t \in Thread : WF_vars(Step(t))

-----------------------------------------------------------------------------
(* Properties.                                                             *)

\* The shape of the state; the ranges of rput and of the length of hbag say
\* that no push goes past the end of a bag, though push_redex itself checks
\* nothing (hvm.c:587, "FIXME: what about some bound checks?").
TypeOK ==
  /\ rbag_buf \in [Thread -> [0 .. RLEN - 1 -> Redex \cup {FREE}]]
  /\ idle \in 0 .. TPC
  /\ itrs \in Nat
  /\ boots \in 0 .. Len(Boots)
  /\ pc \in [Thread -> {"out", "start", "sync1", "wait1", "loop", "pop",
                        "interact", "push", "steal", "stolen", "check",
                        "sync2", "wait2", "add"}]
  /\ rput \in [Thread -> 0 .. RLEN]
  /\ hbag \in [Thread -> Seq(High)]
  /\ \A t \in Thread : Len(hbag[t]) <= HLEN
  /\ sidx \in [Thread -> Nat]
  /\ titrs \in [Thread -> Nat]
  /\ tick \in [Thread -> 0 .. TICK - 1]
  /\ busy \in [Thread -> BOOLEAN]
  /\ cur \in [Thread -> Redex \cup {FREE}]
  /\ todo \in [Thread -> Seq(Redex)]
  /\ done \subseteq Redex

Returned == \A t \in Thread : pc[t] = "out"

\* Once the threads of a normalize have all returned, no redex is left in
\* any bag or hand: not the booted one, which sits below rput where only a
\* thief finds it, nor one in flight between a thief and its victim.
NothingLeft ==
  Returned => \A t \in Thread :
    /\ rput[t] = 0 /\ hbag[t] = <<>> /\ cur[t] = FREE /\ todo[t] = <<>>
    /\ \A i \in 0 .. RLEN - 1 : rbag_buf[t][i] = FREE

\* Threads whose evaluator has started and not yet returned.
Started == \A t \in Thread : pc[t] \notin {"out", "start"}

\* The idle counter, kept by unsynchronised increments and decrements from a
\* value every thread stores on its own, is the number of threads that are
\* not busy; otherwise some thread would spin for ever (hvm.c:1129-1178).
IdleExact ==
  Started => idle = Cardinality({t \in Thread : ~busy[t]})

\* The redexes that exist: booted, or pushed by one that has been reduced.
Booted == {Boots[k] : k \in 1 .. boots}
Born == Booted \cup UNION {Range(Spawn[r]) : r \in done}

\* In how many places a redex is held.
Copies(r) ==
  Cardinality({p \in Thread \X (0 .. RLEN - 1) : rbag_buf[p[1]][p[2]] = r})
    + Cardinality({p \in Thread \X (1 .. HLEN) :
                     p[2] <= Len(hbag[p[1]]) /\ hbag[p[1]][p[2]] = r})
    + Cardinality({t \in Thread : cur[t] = r})
    + Cardinality(UNION {{<<t, i>> : i \in {j \in DOMAIN todo[t] : todo[t][j] = r}}
                           : t \in Thread})

\* No redex is lost or duplicated by pops racing with thefts, by pushes over a
\* cell in use, or by a failed interaction: until it is reduced a redex is in
\* exactly one place, afterwards in none.
Conserved == \A r \in Redex : Copies(r) = IF r \in Born \ done THEN 1 ELSE 0

Pool == INSTANCE WorkPool WITH
          Produces <- [r \in Redex |-> Range(Spawn[r])],
          pool <- Born \ done, reduced <- done, running <- ~Returned

\* The evaluator reduces each redex exactly once and returns only with an
\* empty pool: however the threads interleave, normalize is WorkPool.
ImplementsPool == Pool!Spec

\* The total counts every interaction but the links, each once, over all the
\* calls of normalize (hvm.c:1183-1184).
ItrsExact == Returned => itrs = Cardinality(done \ Link)

\* What keeps a normalize from returning: redexes are stolen back and forth
\* for ever (a thief's own redex may be stolen from it before it pops it); a
\* redex that fails is tried for ever (only a theft makes room in a full bag);
\* or thread 0, whose steal index only an empty cell resets, robs RLEN times in
\* a row and tries a cell past the end of rbag_buf.
StealGot == \E t \in Thread : Steal(t) /\ cur'[t] # FREE
FailedAgain == \E t \in Thread : PushBack(t)
PastTheEnd == pc[0] = "steal" /\ sidx[0] = RLEN

\* Nothing else does: every thread finds the others' redexes, sees that it is
\* the last, and meets them at the barrier.
Finishes ==
  \/ <>(Returned /\ boots = Len(Boots))
  \/ []<><<StealGot>>_vars \/ []<><<FailedAgain>>_vars \/ <>PastTheEnd

-----------------------------------------------------------------------------
(* The inductive invariant behind TypeOK, NothingLeft and IdleExact.       *)

\* Labels at which a thread has run out of redexes and of cells to steal.
Parked == {"out", "start", "sync1", "wait1", "check", "sync2", "wait2", "add"}
Early == {"start", "sync1"}
Late == {"wait2", "add", "out"}

\* What a thread's label says of its own memory.
LocalInv(t) ==
  /\ pc[t] \in Parked \cup {"steal", "stolen"} => rput[t] = 0 /\ hbag[t] = <<>>
  /\ pc[t] \in Parked => sidx[t] = 0
  /\ pc[t] = "pop" => hbag[t] # <<>> \/ rput[t] > 0
  /\ pc[t] \in {"interact", "stolen"} <=> cur[t] # FREE
  /\ pc[t] = "interact" =>
       IF cur[t] \in High THEN Len(hbag[t]) < HLEN ELSE rput[t] < RLEN
  /\ pc[t] = "push" <=> todo[t] # <<>>
  /\ rput[t] + Len(todo[t]) <= RLEN /\ Len(hbag[t]) + Len(todo[t]) <= HLEN
  /\ pc[t] \in {"sync1", "wait1"} => busy[t] = (t = 0)

\* The thread that finds the booted redex, at its first theft.
First == IF TPC = 1 THEN 0 ELSE 1

\* Nobody has a redex but the first cell of the buffer.
Unclaimed ==
  /\ pc[First] \in {"start", "sync1", "wait1", "loop", "steal"}
  /\ sidx[First] = 0
  /\ \A t \in Thread : /\ rput[t] = 0 /\ hbag[t] = <<>>
                        /\ pc[t] \notin {"pop", "interact", "push", "stolen"}

\* A used cell is a low-priority redex below rput, or the booted one.
CellInv(t, i) ==
  rbag_buf[t][i] = FREE \/ (i < rput[t] /\ rbag_buf[t][i] \notin High)
    \/ (t = 0 /\ i = 0 /\ Unclaimed)

\* How many barriers a thread at each label has met.
BarrierAt(t) ==
  LET e == CASE pc[t] \in Early -> <<2, 2>>
             [] pc[t] = "wait1" -> <<1, 2>>
             [] pc[t] = "wait2" -> <<0, 1>>
             [] pc[t] \in {"add", "out"} -> <<0, 0>>
             [] OTHER -> <<1, 1>>
  IN  entered[t] + e[1] = 2 * boots /\ left[t] + e[2] = 2 * boots

\* The two barriers separate the phases of an evaluation.
PhaseInv ==
  /\ entered \in [Thread -> Nat] /\ left \in [Thread -> Nat]
  /\ \A t \in Thread : BarrierAt(t)
  /\ (\E u \in Thread : pc[u] \notin Early \cup {"wait1"})
       => \A t \in Thread : pc[t] \notin Early
  /\ (\E u \in Thread : pc[u] \in {"add", "out"})
       => \A t \in Thread : pc[t] \in Late

EvalInv ==
  /\ \A t \in Thread : LocalInv(t)
  /\ \A t \in Thread, i \in 0 .. RLEN - 1 : CellInv(t, i)
  /\ PhaseInv
  /\ IdleExact
=============================================================================
