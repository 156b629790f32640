-------------------------------- MODULE MCIO --------------------------------
(***************************************************************************)
(* IO on small programs: what they ask of the loop, and what it does.      *)
(***************************************************************************)
EXTENDS IO

U24(x) == NumU24(x)
Con(x) == <<"CON", x>>
Ref(x) == <<"REF", x>>
Def(root, rbag, nodes, vs) ==
  [safe |-> FALSE, root |-> root, rbag |-> rbag, node |-> nodes, vars |-> vs]

\* Names are of one byte.
READ == <<1>>
WRITE == <<2>>
OPEN == <<3>>
CLOSE == <<4>>
NONAME == <<9>>
Functions ==
  (READ :> [size |-> 2, checked |-> TRUE, strs |-> <<>>])
    @@ (WRITE :> [size |-> 2, checked |-> TRUE, strs |-> <<2>>])
    @@ (OPEN :> [size |-> 2, checked |-> TRUE, strs |-> <<1, 2>>])
    @@ (CLOSE :> [size |-> 1, checked |-> FALSE, strs |-> <<>>])

Ok(v) == [res |-> "ok", val |-> v]
Inner(v) == [res |-> "inner", val |-> v]
Few ==
  (READ :> {Ok(<<"bytes", <<>> >>), Ok(<<"bytes", <<7>> >>), Ok(<<"bytes", <<7, 9>> >>),
            Inner(<<"num", 5>>)})
    @@ (WRITE :> {Ok(<<"era">>), Ok(<<"pair", 1, 2>>), Inner(<<"num", 5>>)})
    @@ (OPEN :> {Ok(<<"num", 3>>), Inner(<<"bytes", <<6>> >>)})
    @@ (CLOSE :> {Ok(<<"era">>)})

OneBag == [t \in Thread |-> "pool"]
MagicPair == <<13, 8>>
NoFloatOp(op, v, w) == 0
NoToFloat(n) == 0
NoFromFloat(ty, w) == 0

-----------------------------------------------------------------------------
(* The programs.                                                           *)

\* A definition that is the constructor t of args, over nodes and vs variables.
IO_DONE == 0
MagicNode == <<U24(Magic[1]), U24(Magic[2])>>
CtrOf(nodes, vs, t, args) == inject([node |-> nodes, vars |-> vs, port |-> Era], t, args)
DefOf(h) == Def(h.port, <<>>, h.node, h.vars)
CallOf(nodes, vs, name, argm, cont) ==
  CtrOf(<<MagicNode>> \o nodes, vs, IO_CALL, <<Con(0), name, argm, cont>>)
DoneOf(h) == inject([h EXCEPT !.node = Append(@, MagicNode)], IO_DONE,
                    <<Con(Len(h.node)), h.port>>)

\* A continuation: the value in its result, Ok or Err, is variable 0 of h.  With
\* f = (* (v v)), which takes the tag and the value, it is ((f value) h).
Cont(h) ==
  LET n == Len(h.node)
      v == VarP(h.vars)
  IN  Def(Con(n + 3), <<>>,
          h.node \o << <<v, v>>, <<Era, Con(n)>>, <<Con(n + 1), VarP(0)>>,
                       <<Con(n + 2), h.port>> >>,
          h.vars + 1)

\* One that drops its result.
Drop(h) ==
  Def(Con(Len(h.node)), <<>>, Append(h.node, <<Era, h.port>>), h.vars)

Var0 == [node |-> <<>>, vars |-> 1, port |-> VarP(0)]
RefTo(x) == Built(Ref(x))
Identity == [node |-> << <<VarP(0), VarP(0)>> >>, vars |-> 1, port |-> Con(0)]

\* A string: references to its tails, from definition d on.
Bytes(s, d) == [i \in d .. d + Len(s) |->
                  IF i = d + Len(s) THEN DefOf(inject_nil)
                  ELSE DefOf(CtrOf(<<>>, 0, LIST_CONS, <<U24(s[i - d + 1]), Ref(i + 1)>>))]

\* What is read is written, and what that answers is the result.
Echo ==
  (0 :> DefOf(CallOf(<< <<U24(3), U24(2)>> >>, 0, Ref(10), Con(1), Ref(1))))
    @@ (1 :> Cont(CallOf(<< <<U24(4), VarP(0)>> >>, 1, Ref(12), Con(1), Ref(2))))
    @@ (2 :> Cont(DoneOf(Var0)))
    @@ Bytes(READ, 10) @@ Bytes(WRITE, 12)

\* A file is opened, by a name whose tail a function computes, and closed; the
\* result is a reference.
OpenClose ==
  (0 :> DefOf(CallOf(<< <<Ref(20), Ref(14)>> >>, 0, Ref(10), Con(1), Ref(1))))
    @@ (1 :> Cont(CallOf(<<>>, 1, Ref(12), VarP(0), Ref(2))))
    @@ (2 :> Drop(DoneOf(RefTo(14))))
    @@ Bytes(OPEN, 10) @@ Bytes(CLOSE, 12) @@ Bytes(<<6>>, 14)
    @@ (20 :> DefOf(CtrOf(<<>>, 0, LIST_CONS, <<U24(8), Ref(21)>>)))
    @@ (21 :> Def(VarP(0), << <<Ref(22), Con(0)>> >>, << <<Ref(14), VarP(0)>> >>, 1))
    @@ (22 :> DefOf(Identity))

\* A name that is none, then an argument that is no pair.
Wrong ==
  (0 :> DefOf(CallOf(<<>>, 0, Ref(10), Era, Ref(1))))
    @@ (1 :> Drop(CallOf(<<>>, 0, Ref(12), U24(3), Ref(2))))
    @@ (2 :> Cont(DoneOf(Var0)))
    @@ Bytes(NONAME, 10) @@ Bytes(READ, 12)

\* No IO: a function.
Pure == 0 :> DefOf(Identity)

Programs == [Echo |-> Echo, OpenClose |-> OpenClose, Wrong |-> Wrong, Pure |-> Pure]

-----------------------------------------------------------------------------
(* What the programs mean: the calls they make, given the answers they get, *)
(* and their result.                                                       *)

Asks(p, ans) ==
  LET value == ans[1].val
      ok    == ans[1].res = "ok"
  IN  CASE p = "Echo" ->
             << <<READ, <<U24(3), U24(2)>> >>,
                <<WRITE, <<U24(4), IF ok THEN value[2] ELSE <<>> >> >> >>
        [] p = "OpenClose" ->
             << <<OPEN, << <<8, 6>>, <<6>> >> >>,
                <<CLOSE, <<IF ok THEN U24(value[2]) ELSE <<"CON">> >> >> >>
        [] OTHER -> <<>>

\* The value in an answer: its own, or an error's.
Inside(a) ==
  IF a.res = "ok" THEN Value(a.val)
  ELSE LET h == Value(a.val)
       IN  inject(h, IO_ERR[a.res], IF a.res = "inner" THEN <<h.port>> ELSE <<>>)

Gives(p, ans) ==
  CASE p = "Echo" -> DoneOf(Inside(ans[2]))
    [] p = "OpenClose" -> DoneOf(RefTo(14))
    [] p = "Wrong" -> DoneOf(Inside([res |-> "type", val |-> <<"era">>]))
    [] p = "Pure" -> Identity

\* A value as Result shows the net.
RECURSIVE Shape(_, _, _)
Shape(h, p, path) ==
  {<<path, p>>} \cup
    IF is_nod(p)
    THEN Shape(h, h.node[val(p) + 1][1], Append(path, 1))
           \cup Shape(h, h.node[val(p) + 1][2], Append(path, 2))
    ELSE {}
Shown(h) == LET tree == Shape(h, h.port, <<>>)
            IN  {<<l[1], Label(tree, l[2])>> : l \in tree}

-----------------------------------------------------------------------------
(* Properties.                                                             *)

Replies == [k \in DOMAIN calls |-> calls[k].ans]

\* The calls performed are those the program makes, in its order, each once,
\* with the arguments it computes: strings that were references, or the results
\* of functions, or an answer of an earlier call, arrive byte by byte.  A call
\* that names no function, or lacks arguments, is not performed.
CallsMade ==
  \A k \in DOMAIN calls :
    <<calls[k].func, calls[k].args>> = Asks(program, Replies)[k]

\* When the loop ends every call has been made, and the root holds the value the
\* program gives, its own last answer in it: reading arguments, which evaluates
\* references at the root, has left nothing of theirs there.
Answered ==
  host = "end" =>
    /\ Len(calls) = Len(Asks(program, Replies))
    /\ Result = Shown(Gives(program, Replies))
=============================================================================
