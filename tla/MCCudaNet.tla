----------------------------- MODULE MCCudaNet ------------------------------
(***************************************************************************)
(* CudaNet on small programs: two blocks of one thread.                    *)
(***************************************************************************)
EXTENDS MCInteractions, CudaNet

BlockBags == [t \in Thread |-> t \div 2]
LocalThreads == {t \in Thread : t % 2 = 0}

\* @main = r & @wide ~ (* r).  @wide = (* (* .. (* *))), with 11 nodes: the
\* local memory of a block has no room for it and the node of main.
Wide ==
  (0 :> Def(VarP(0), << <<Ref(1), Con(0)>> >>, << <<Era, VarP(0)>> >>, 1))
    @@ (1 :> Def(Con(0), <<>>,
               [i \in 1 .. 11 |-> <<Era, IF i = 11 THEN Era ELSE Con(i)>>], 0))

\* (* (* .. (* *))), with 10 nodes.
Comb ==
  LET Right(n) == [i \in 1 .. n |-> 2]
  IN  {<<Right(n), <<"CON">> >> : n \in 0 .. 9} \cup {<<Right(10), Era>>}
        \cup {<<Right(n) \o <<1>>, Era>> : n \in 0 .. 9}

Grid == [OnePlusOne |-> OnePlusOne, CountDown |-> CountDown,
         CopyReference |-> CopyReference, Wide |-> Wide]
GridAnswer == Answer @@ ("Wide" :> Comb)
GridCount == Count @@ ("Wide" :> 4)

\* Whatever the modes of the launches, the spread of the redexes and the moments
\* at which threads stop and save: the result is that of the C runtime.  The
\* count is not: LEAK enters the ports of its node, and an OPR node that gets its
\* operand so takes an interaction less.
CudaConfluent ==
  Reduced => Result = GridAnswer[program] /\ itrs <= GridCount[program]
=============================================================================
