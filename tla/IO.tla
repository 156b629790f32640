--------------------------------- MODULE IO ---------------------------------
(***************************************************************************)
(* The loop that runs an IO program in the C runtime (src/src/run.c:67-374 *)
(* and 736-810): it reads a call from the net, performs it, and writes the *)
(* answer back.  It runs over the net of Interactions, on whose evaluator  *)
(* it waits each time it normalizes; what the calls do is Files'.          *)
(***************************************************************************)
EXTENDS Readback

CONSTANTS
  Magic,      \* IO_MAGIC_0 and IO_MAGIC_1
  Ffns,       \* the IO functions, by name: the size of the tuple each reads,
              \* whether it checks it, and which of its elements are strings
  Answers     \* what each may answer

VARIABLES
  host,     \* what the loop is doing: it waits for the evaluator at each label
  port,     \* the port it is about to expand
  old,      \* what ROOT held before expand called a reference: <<>> or <<port>>
  reader,   \* for whom a constructor is read: the loop, or readback_bytes for a
            \* name or an argument
  loaded,   \* the node last loaded
  ctr,      \* the constructor being read: its tag and its arguments
  elems,    \* the elements of the tuple being read
  bytes,    \* the string being read
  call,     \* the call being performed: function, argument, continuation and
            \* its strings
  calls     \* the calls performed, and their answers (history)

ioVars == <<host, port, reader, old, loaded, ctr, elems, bytes, call, calls>>

NumU24(n) == NumP(new_u24(n))
IO_CALL == 1
LIST_NIL == 0
LIST_CONS == 1
RESULT_OK == 0
RESULT_ERR == 1
IO_ERR == [type |-> 0, name |-> 1, inner |-> 2]
NoCtr == [tag |-> -1, args |-> <<>>]
NoCall == [func |-> <<>>, argm |-> Era, cont |-> Era, strs |-> <<>>]

IOInit ==
  /\ Init
  /\ host = "loop" /\ port = ROOT /\ old = <<>> /\ loaded = FREE_NODE
  /\ reader = "io" /\ ctr = NoCtr /\ elems = <<>> /\ bytes = <<>>
  /\ call = NoCall /\ calls = <<>>

-----------------------------------------------------------------------------
(* The evaluator, which the loop starts and waits for.                     *)

\* A LINK redex: the evaluator itself pushes none, the loop boots some.
Link(t) ==
  \E r \in Redexes(t, "LINK") :
    /\ pc[t] = "idle"
    /\ pool' = [pool EXCEPT ![BagOf[t]] = Without(@, r)]
    /\ Links(t, <<PairOf(r)>>)
    /\ UNCHANGED <<node_buf, vars_buf, nput, vput, oper, itrs>>

Normalize(t) ==
  /\ Step(t) \/ Link(t)
  /\ UNCHANGED <<program, ioVars>>

\* The net is left alone, or ROOT gets p.
evalVars == <<program, nput, vput, pc, todo, oper, itrs>>
UnchangedNet == UNCHANGED <<node_buf, vars_buf, pool, evalVars>>
SetRoot(p) ==
  /\ vars_buf' = [vars_buf EXCEPT ![val(ROOT)] = p]
  /\ UNCHANGED <<node_buf, pool, evalVars>>

boot_redex(r) ==
  /\ vars_buf' = [vars_buf EXCEPT ![val(ROOT)] = NONE]
  /\ pool' = [pool EXCEPT ![BagOf[0]] = With(@, r)]
  /\ UNCHANGED <<node_buf, evalVars>>

-----------------------------------------------------------------------------
(* expand: a reference is called at ROOT, until it is none; then ROOT gets *)
(* back what it held.                                                      *)

Expanding == {"lam", "app", "tag", "next", "arg", "fst", "snd"}

\* A mutation: the port stays, and is a reference again.
ExpandAgain ==
  /\ Done /\ host \in Expanding /\ tag(peek(port)) = "REF"
  /\ boot_redex(<<peek(port), ROOT>>)
  /\ old' = IF old = <<>> THEN <<vars_buf[val(ROOT)]>> ELSE old
  /\ UNCHANGED <<host, port, reader, loaded, ctr, elems, bytes, call, calls>>

Expand ==
  /\ Done /\ host \in Expanding /\ tag(peek(port)) = "REF"
  /\ boot_redex(<<peek(port), ROOT>>)
  /\ old' = IF old = <<>> THEN <<vars_buf[val(ROOT)]>> ELSE old
  /\ port' = ROOT
  /\ UNCHANGED <<host, reader, loaded, ctr, elems, bytes, call, calls>>

\* What it returns to the label that called it.
Expanded(label) == Done /\ host = label /\ tag(peek(port)) # "REF"
Got == peek(port)

\* A mutation: ROOT keeps what the reference left there.
RestoreNot == old' = <<>> /\ UnchangedNet

Restore ==
  /\ old' = <<>>
  /\ IF old = <<>> THEN UnchangedNet ELSE SetRoot(old[1])

\* The next port to expand.
Goto(label, p) == host' = label /\ port' = p

-----------------------------------------------------------------------------
(* readback_ctr: a constructor, its tag and its arguments.                 *)

\* Lambda, application and tag; a port that is something else is no constructor.
ReadLam ==
  /\ Expanded("lam") /\ Restore
  /\ IF tag(Got) = "CON"
     THEN Goto("app", node_buf[val(Got)][1])
     ELSE Goto("ctr", port)
  /\ UNCHANGED <<reader, loaded, ctr, elems, bytes, call, calls>>

ReadApp ==
  /\ Expanded("app") /\ Restore
  /\ IF tag(Got) = "CON"
     THEN loaded' = node_buf[val(Got)] /\ Goto("tag", node_buf[val(Got)][1])
     ELSE Goto("ctr", port) /\ UNCHANGED loaded
  /\ UNCHANGED <<reader, ctr, elems, bytes, call, calls>>

ReadTag ==
  /\ Expanded("tag") /\ Restore
  /\ IF tag(Got) = "NUM"
     THEN ctr' = [ctr EXCEPT !.tag = val(Got).val] /\ Goto("next", loaded[2])
     ELSE Goto("ctr", port) /\ UNCHANGED ctr
  /\ UNCHANGED <<reader, loaded, elems, bytes, call, calls>>

\* The applications to the arguments.
ReadNext ==
  /\ Expanded("next") /\ Restore
  /\ IF tag(Got) = "CON"
     THEN loaded' = node_buf[val(Got)] /\ Goto("arg", node_buf[val(Got)][1])
     ELSE Goto("ctr", port) /\ UNCHANGED loaded
  /\ UNCHANGED <<reader, ctr, elems, bytes, call, calls>>

ReadArg ==
  /\ Expanded("arg") /\ Restore
  /\ ctr' = [ctr EXCEPT !.args = Append(@, Got)]
  /\ Goto("next", loaded[2])
  /\ UNCHANGED <<reader, loaded, elems, bytes, call, calls>>

-----------------------------------------------------------------------------
(* The loop: a call is a constructor IO_CALL of the magic pair, a name, an *)
(* argument and a continuation.                                            *)

\* A constructor is asked for once the net is normal.
Begin ==
  /\ Done /\ host \in {"loop", "bytes"}
  /\ Goto("lam", peek(port)) /\ ctr' = NoCtr
  /\ UnchangedNet /\ UNCHANGED <<reader, old, loaded, elems, bytes, call, calls>>

\* readback_bytes(p), for the name of the function or for one of its arguments.
ReadString(r, p) == reader' = r /\ bytes' = <<>> /\ Goto("bytes", p)

IsCall ==
  LET args == ctr.args
  IN  /\ Len(args) = 4 /\ ctr.tag = IO_CALL
      /\ tag(args[1]) = "CON"
      /\ node_buf[val(args[1])] = <<NumU24(Magic[1]), NumU24(Magic[2])>>

ReadCall ==
  /\ host = "ctr" /\ reader = "io" /\ IsCall
  /\ call' = [func |-> <<>>, argm |-> ctr.args[3], cont |-> ctr.args[4], strs |-> <<>>]
  /\ ReadString("name", ctr.args[2])
  /\ UnchangedNet /\ UNCHANGED <<old, loaded, ctr, elems, calls>>

\* IO_DONE, or no IO at all.
End ==
  /\ host = "ctr" /\ reader = "io" /\ ~IsCall
  /\ host' = "end"
  /\ UnchangedNet
  /\ UNCHANGED <<port, reader, old, loaded, ctr, elems, bytes, call, calls>>

-----------------------------------------------------------------------------
(* readback_bytes: a constructor CONS of a byte and a tail, which is       *)
(* evaluated at ROOT, and so on; anything else ends the string.            *)

IsCons == ctr.tag = LIST_CONS /\ Len(ctr.args) = 2 /\ tag(ctr.args[1]) = "NUM"

\* A mutation: a string of more than a byte starts again.
ReadByteFirst ==
  /\ host = "ctr" /\ reader # "io" /\ IsCons
  /\ bytes' = <<val(ctr.args[1]).val>>
  /\ boot_redex(<<ctr.args[2], ROOT>>)
  /\ Goto("bytes", ROOT)
  /\ UNCHANGED <<reader, old, loaded, ctr, elems, call, calls>>

ReadByte ==
  /\ host = "ctr" /\ reader # "io" /\ IsCons
  /\ bytes' = Append(bytes, val(ctr.args[1]).val)
  /\ boot_redex(<<ctr.args[2], ROOT>>)
  /\ Goto("bytes", ROOT)
  /\ UNCHANGED <<reader, old, loaded, ctr, elems, call, calls>>

-----------------------------------------------------------------------------
(* readback_tup: the elements of a tuple, of at most size.                 *)

ReadTuple(p, es, size) ==
  IF tag(p) = "CON" /\ Len(es) + 1 < size
  THEN loaded' = node_buf[val(p)] /\ elems' = es /\ Goto("fst", node_buf[val(p)][1])
  ELSE elems' = Append(es, p) /\ Goto("strings", p) /\ UNCHANGED loaded

ReadFst ==
  /\ Expanded("fst") /\ Restore
  /\ elems' = Append(elems, Got) /\ Goto("snd", loaded[2])
  /\ UNCHANGED <<reader, loaded, ctr, bytes, call, calls>>

ReadSnd ==
  /\ Expanded("snd") /\ Restore
  /\ ReadTuple(Got, elems, Ffns[call.func].size)
  /\ UNCHANGED <<reader, ctr, bytes, call, calls>>

-----------------------------------------------------------------------------
(* The call: its name is looked up, its tuple and its strings are read.    *)

FoundName ==
  /\ host = "ctr" /\ reader = "name" /\ ~IsCons
  /\ call' = [call EXCEPT !.func = bytes]
  /\ IF bytes \in DOMAIN Ffns THEN ReadTuple(call.argm, <<>>, Ffns[bytes].size)
     ELSE host' = "perform" /\ UNCHANGED <<port, loaded, elems>>
  /\ UnchangedNet /\ UNCHANGED <<reader, old, ctr, bytes, calls>>

\* The tuple is checked, if the function does, before its strings are read.
TypeError == Ffns[call.func].checked /\ Len(elems) # Ffns[call.func].size

NextString ==
  LET todoStrs == Ffns[call.func].strs
  IN  /\ host = "strings"
      /\ IF TypeError \/ Len(call.strs) = Len(todoStrs)
         THEN host' = "perform" /\ UNCHANGED <<reader, bytes, port>>
         ELSE ReadString("arg", elems[todoStrs[Len(call.strs) + 1]])
      /\ UnchangedNet /\ UNCHANGED <<old, loaded, ctr, elems, call, calls>>

FoundString ==
  /\ host = "ctr" /\ reader = "arg" /\ ~IsCons
  /\ call' = [call EXCEPT !.strs = Append(@, bytes)]
  /\ host' = "strings"
  /\ UnchangedNet /\ UNCHANGED <<port, reader, old, loaded, ctr, elems, bytes, calls>>

-----------------------------------------------------------------------------
(* The answer, written into the net.  A value under construction has nodes *)
(* and variables, counted from 0 as in a definition, and a port.           *)

Built(p) == [node |-> <<>>, vars |-> 0, port |-> p]

\* A constructor, \t (((t TAG) arg0) arg1): the first node allocated holds the
\* last argument, the last one is the lambda.
inject(h, t, args) ==
  LET n == Len(h.node)
      k == Len(args)
      field == Reverse(<<NumU24(t)>> \o args)
      fields == [i \in 1 .. k + 1 |->
                   <<field[i], IF i = 1 THEN VarP(h.vars) ELSE <<"CON", n + i - 2>> >>]
  IN  [node |-> h.node \o fields \o << << <<"CON", n + k>>, VarP(h.vars)>> >>,
       vars |-> h.vars + 1, port |-> <<"CON", n + k + 1>>]

inject_nil == inject(Built(Era), LIST_NIL, <<>>)
inject_cons(byte, h) == inject(h, LIST_CONS, <<NumU24(byte), h.port>>)
inject_bytes(s) == FoldRight(inject_cons, s, inject_nil)
inject_ok(h) == inject(h, RESULT_OK, <<h.port>>)
inject_err(h) == inject(h, RESULT_ERR, <<h.port>>)
inject_io_err(err, h) ==
  inject_err(inject(h, IO_ERR[err], IF err = "inner" THEN <<h.port>> ELSE <<>>))

\* The values of answers: none, a number, a string, a pair of numbers.
Value(v) ==
  CASE v[1] = "era"   -> Built(Era)
    [] v[1] = "num"   -> Built(NumU24(v[2]))
    [] v[1] = "bytes" -> inject_bytes(v[2])
    [] v[1] = "pair"  -> [node |-> << <<NumU24(v[2]), NumU24(v[3])>> >>, vars |-> 0,
                          port |-> <<"CON", 0>>]

Injected(a) == IF a.res = "ok" THEN inject_ok(Value(a.val))
               ELSE inject_io_err(a.res, Value(a.val))

\* A call that names a function and has its arguments is performed.
Performs == call.func \in DOMAIN Ffns /\ ~TypeError
NameError == [res |-> "name", val |-> <<"era">>]
ArgsError == [res |-> "type", val |-> <<"era">>]
Answer ==
  IF call.func \notin DOMAIN Ffns THEN {NameError}
  ELSE IF TypeError THEN {ArgsError}
  ELSE Answers[call.func]
Injections ==
  [a \in UNION Range(Answers) \cup {NameError, ArgsError} |-> Injected(a)]

\* What the function sees of its tuple: the strings, and of the other elements
\* their tags and their numbers.
Seen(p) == IF is_nod(p) THEN <<tag(p)>> ELSE p
Arguments ==
  LET f == Ffns[call.func]
  IN  [i \in 1 .. f.size |->
         IF i \in Range(f.strs)
         THEN call.strs[CHOOSE k \in DOMAIN f.strs : f.strs[k] = i]
         ELSE Seen(elems[i])]

\* The function is called, and the continuation applied to its answer.
Perform ==
  /\ host = "perform"
  /\ \E a \in Answer :
       LET h    == Injections[a]
           app  == <<h.port, VarP(h.vars)>>    \* ROOT, as the variable after the others
           nloc == node_alloc(0, Len(h.node) + 1)
           vloc == vars_alloc(0, h.vars) \o <<val(ROOT)>>
           Pair(p) == <<Adjust(p[1], nloc, vloc), Adjust(p[2], nloc, vloc)>>
           stored == [i \in 1 .. Len(h.node) + 1 |-> Pair(Append(h.node, app)[i])]
       IN  /\ get_resources(0, Len(h.node) + 1, h.vars)
           /\ Rewrite(0, {}, nloc, stored, vloc)
           /\ pool' = [pool EXCEPT ![BagOf[0]] = With(@, << <<"CON", Last(nloc)>>, call.cont >>)]
           /\ calls' = IF Performs
                       THEN Append(calls, [func |-> call.func, args |-> Arguments, ans |-> a])
                       ELSE calls
  /\ Goto("loop", ROOT) /\ reader' = "io"
  /\ UNCHANGED <<program, pc, todo, oper, itrs, old, loaded, ctr, elems, bytes, call>>

-----------------------------------------------------------------------------
Host ==
  \/ Begin \/ Expand \/ ReadLam \/ ReadApp \/ ReadTag \/ ReadNext \/ ReadArg
  \/ ReadCall \/ End \/ ReadByte \/ ReadFst \/ ReadSnd
  \/ FoundName \/ NextString \/ FoundString \/ Perform

IONext == Host \/ \E t \in Thread : Normalize(t)

IOVars == <<vars, ioVars>>

\* Some thread takes its next step, or the loop, which waits for them all.
IOSpec == IOInit /\ [][IONext]_IOVars /\ WF_IOVars(IONext)

\* The program comes to its end.
Ends == <>(host = "end")
=============================================================================
