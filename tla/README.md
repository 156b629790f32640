# A verification of HVM2

HVM2 evaluates interaction nets in parallel.  This directory models its runtime
in TLA+, model-checks it on small instances with TLC and proves some of the
results for every instance with TLAPS.  Line numbers are those of the files in
`src/`; a bare `hvm.c` is `src/hvm.c`.

## 1. The system

| part | state | operations | interacts with |
|---|---|---|---|
| barrier, `sync_threads` (hvm.c:270-285) | `a_reached`, `a_barrier` | `sync_threads` | every thread of the evaluator, twice per evaluation |
| substitution map and linker (hvm.c:655-692, 755-846) | `vars_buf`: a variable's cell is 0, NONE or a port | `link`, `link_pair`, `enter`, `peek`, `vars_alloc`, `vars_create` | called by every interaction; pushes redexes |
| evaluator (hvm.c:585-640, 771-778, 1072-1243) | `rbag_buf`, `idle`, `itrs`; per thread `rput`, `hput`/`hbag_buf`, `sidx`, `itrs`, `tick`, `busy` | `push_redex`, `pop_redex`, `interact`, `evaluator`, `boot_redex`, `normalize`, `expand` | the barrier, the bags of the other threads |
| interactions (hvm.c:319-364, 851-1070) | `node_buf`, `vars_buf` | LINK, CALL, VOID, ERAS, ANNI, COMM, OPER, SWIT | allocators, linker, numbers, book |
| allocators (hvm.c:713-778) | `nput`, `vput`, `nloc`, `vloc` | `node_alloc`, `vars_alloc`, `get_resources` | every interaction |
| numbers (hvm.c:366-582, hvm.rs:222-417) | none | `operate`, `cast` | OPER, SWIT, IO |
| Rust runtime (hvm.rs) | one thread's `GNet`, `TMem`, `RBag` | the same rules, sequentially | the book it builds |
| book (ast.rs, hvm.rs:957-1003, hvm.c:1408-1455) | definitions | net building, `propagate_safety`, `to_buffer`, `book_load` | CALL |
| compiler (cmp.rs) | none | a definition to C or CUDA code | replaces CALL |
| IO loop (run.c:67-374, 736-810) | the call being read | `do_run_io`, readback and injection of values | `expand`, `normalize`, and ROOT |
| IO functions (run.c:376-736) | `FILE_POINTERS`, `DYLIBS` | `io_open`, `io_read` and the rest, by name | the operating system |
| CUDA runtime (hvm.cu, run.cu) | shared-memory nets, a double-buffered global bag | the LEAK rule, `evaluator`, `inbetween`, `save_redexes`, `load_redexes` | kernels launched by `gnet_normalize` |
| command line (main.rs), FFI headers, examples, paper, tests | none | | |

What is hard to get right in it:

* the linker is lock free: an exchange per step, ownership passed through the
  value that comes back;
* redexes are stolen with the owner's exchange on the same cell as the only
  synchronisation, from a bag whose ends nobody shares;
* the end of the evaluation is detected by a counter that every thread keeps up
  to date for itself;
* the root redex is written below the put index of the bag it is in, where its
  own thread never looks;
* a failed interaction pushes its redex back and is tried again;
* on the GPU, a redex crosses two global bags, spawn cells and three modes, and
  the host decides from a counter whether any is left; nodes made in the memory
  of a block must be out of it before the launch ends, and no other block may meet
  a pointer into it;
* an IO call is read from a net that evaluating one of its arguments rewrites,
  at the very root that holds it;
* descriptors and handles are indices that are given again.

What makes each part correct: a barrier lets nobody through early; linking
resolves the wires of the net and nothing else, and frees exactly what it has
consumed; the evaluator reduces each redex once and returns when none is left;
an interaction keeps the net linear; an allocator hands out free cells, each
once; an IO program makes its own calls and gets their own answers; a descriptor
names the file it was opened for; the runtimes and the compiler agree.  `PROJECT.json`
lists the hazards one by one, with the properties aimed at them.

## 2. The modules

| module | what it is |
|---|---|
| `Barrier` | what a barrier promises: `Enter(t)`, `Leave(t)` |
| `SyncThreads` | `sync_threads`, one action per access to the two counters; implements `Barrier` |
| `Wires` | what linking promises: a set of wires, each resolved into a redex once |
| `Linker`, `MCLinker` | `link` and `enter`, one action per access to `vars_buf`; implements `Wires` |
| `LinkerProofs` | who holds what while threads link: its invariant, ownership, linearity, the refinement of `Wires`, and what the readback finds at a root, proved |
| `WorkPool` | what `normalize` promises: a pool of redexes, each reduced once, empty at the return |
| `Evaluator`, `MCEvaluator` | bags, stealing, idle counter, boot; composes `Barrier`; implements `WorkPool` |
| `EvaluatorProofs` | its invariants, no redex lost or duplicated, the refinement of `WorkPool`, the number of interactions, proved |
| `Interactions`, `MCInteractions` | the net and the eight rules, run by several threads on small programs |
| `NetProofs` | the net of the C runtime stays linear while the allocators find room, proved |
| `Numbers` | `operate`, `cast`, `partial` |
| `Operation`, `MCOperation` | a binary operation in its two steps, operands in either order |
| `RuntimeProofs` | the invariant of `sync_threads` and its refinement of `Barrier`; `operate` is symmetric; proved |
| `CudaEvaluator`, `MCCuda` | the evaluator kernel of the CUDA runtime, its three modes, the host's loop; implements `WorkPool` |
| `CudaProofs` | the slices of the threads, the room in their stacks, redexes given to idle threads only, the host's count, no redex lost or duplicated, the refinement of `WorkPool` in orderly runs, proved |
| `CudaNet`, `MCCudaNet` | the net of the CUDA runtime: two memories, LEAK, saved redexes; extends `Interactions` |
| `CudaNetProofs` | the net of the CUDA runtime stays linear, and what is local to a block stays in it, proved over `NetProofs` |
| `Readback` | the net read back from the root |
| `IO`, `MCIO` | the loop that runs an IO program, over the net of `Interactions` |
| `Files`, `MCFiles` | the IO functions, between a program and an operating system that may fail |
| `FilesProofs` | the invariant of the table of files, and the parts of a time, proved |
| `NaturalLemmas` | least elements, powers of two, division, recursive functions, sums over finite sets: what the proofs share |

`Evaluator` instantiates `Barrier` and not `SyncThreads`: the second implements
the first, so nothing is lost and the state space stays small.  `IO` and
`CudaNet` extend `Interactions`: one adds the thread that waits for the evaluator,
the other a second memory.  `IO` takes the answers of the functions from a set;
`Files` is what gives them.

An operator announced as "a mutation" is not part of a specification: it is a
plausible bug in the code an action models, with which a run's property fails.

### SyncThreads

`Call` reads `a_barrier` into `barrier_old`; `Arrive` is the `fetch_add` and the
test that follows; `Reset` and `Advance` are the two stores of the last thread;
`Spin` is the iteration of the loop that finds `a_barrier` changed (the others
change nothing).  `entered` and `left` count each thread's arrivals and returns:
they are history variables, read by no guard but the bound `MaxSync`.

### Linker

| action | code |
|---|---|
| `Call` | `link_pair`: the next pair of an interaction becomes `A`, `B` |
| `Orient` | top of `link`'s loop, the swap |
| `PushRedex` | no variable: `push_redex` and `break` |
| `EnterExchange`, `EnterTake` | the two exchanges of an iteration of `enter` |
| `PointExchange`, `PointTake` | the two exchanges of an iteration of `link` |
| `AllocFind`, `Create` | `vars_alloc` finds a cell that reads 0, `vars_create` stores NONE in it; two actions, as in the code |

A variable is its cell, a non-variable port a model value per occurrence.  A
redex is the pair pushed: the bag that receives it is `Evaluator`'s.  A new
variable is put in the middle of a wire its thread holds, which is what an
interaction's use of one comes to as far as wires go.  `Wirings` is the set of
assignments of ports to the arguments of the threads' calls: `MCLinker` takes
*every* arrangement of a multiset of ports.

The refinement to `Wires`: the joints of a state are the pairs still to be
linked and the substitutions `{x, vars_buf[x]}`; a wire is a connected component
with two ends.  `Component` is what no closed set of ports parts from a port, a set
being closed when no joint leaves it.  A step of the linker must leave the set of
wires as it is, or turn one of them into a redex.

### Evaluator

| action | code |
|---|---|
| `Boot` | `boot_redex`, then `normalize` spawns the threads |
| `SetIdle` | the store of `TPC - 1` every thread makes, and the locals |
| `EnterSync`, `LeaveSync1`, `LeaveSync2` | the two calls of `sync_threads` |
| `Wake` | the loop with redexes: `tick`, the decrement of `idle`, `busy` |
| `PopHigh`, `PopLow` | `pop_redex`; an empty cell is a redex stolen before |
| `Interact`, `Push` | `interact` succeeds; its pushes follow one at a time |
| `PushBack` | `interact` fails, the redex is pushed back |
| `GoIdle` | the loop without redexes: `tick`, the increment of `idle`, `busy` |
| `Steal`, `PushStolen` | the exchange of the thief, `push_redex` of its prize |
| `Check` | the test of `idle` |
| `AddItrs` | the total of interactions, and the return |

Every access to memory that another thread accesses is an action of its own; the
thread-local code goes with the access before or after it.  `hbag` is
`hbag_buf` below `hput`.  What an interaction does to the net is abstract: a
redex has the sequence of redexes it pushes (`Spawn`), the room it asks of
`get_resources` (`Need`), a priority (`High`), and may find that a node of its
own still reads 0 (`Delayed`: with relaxed atomics a stolen redex can arrive
before its nodes).  A thief whose index is past the target's slice tries the
next slice, its own; thread 0 then has no cell to try, and takes no step
(undefined behaviour in the code).  `(tid - 1) % TPC` on 32 bits is the previous
thread when `TPC` is a power of two, as `TPC = 1 << TPC_L2` is.

`WorkPool` sees the redexes born and not reduced as the pool.

### Interactions

The three modules cut the runtime along its atomic steps.  `Evaluator` shows that
the bags are a pool from which each redex is taken once; `Linker` that nobody
touches a cell between the two exchanges of an iteration of `enter` or `link`.
`Interactions` builds on both: its `pool` is a bag any thread takes from, and an
iteration of `enter` or of `link` is one action.

| action | code |
|---|---|
| `Call` | `interact_call`, but for its links; `Copies` is its copy optimisation |
| `Void`, `Eras`, `Anni`, `Comm`, `Swit` | the rules, from `pop_redex` to their first link |
| `OperTake`, `OperEnter`, `Operate` | `interact_oper` up to, in and after its call of `enter` |
| `PushRedex` | `link` with no variable |
| `Enter` | an iteration of `enter` in `link` |
| `Point` | an iteration of `link` from `vars_exchange(A)` on |

A rule's nodes belong to the thread that has its redex and its new cells to the
thread's own partition, so the accesses of a rule to them are one action.  (A search
sees cells of its partition that others free meanwhile; one action sees them before
or after.)  A port is a tag and a value; `vars_buf` has 0, NONE or a port.  ROOT is
the last variable of the last partition; a program leaves it alone.  The tests
of availability (`node_load(...) == 0`) succeed in memory that is sequentially
consistent, as `Linear` implies; what happens when they fail is in `Evaluator`, as
is the room in the bags.  An allocator that finds no free cell at all loops for ever:
its thread takes no step.  When it finds some, but fewer than asked, it hands them
out again (`Cycle`).  A thread takes redexes from the bag `BagOf[t]`, and the search
of a thread in `Bounded` gives up after a round; both are there for `CudaNet`, and
in the C runtime there is one bag and no such thread.

A program is a `Book`, as `book_load` leaves it; `main` is called at the root.
`Readback` reads the result back from the root as the set of its paths.

### Numbers and Operation

A payload is an integer modulo `2^W`.  Integer operators are computed; floating
point ones are the operator parameters `FloatOp`, `ToFloat` and `FromFloat`, of
which nothing is assumed.  A division by 0, undefined in C, stops the program.
`Operands` is the part of `operate` that finds the operator and puts the operands
in order, `Native` its switch.

`Operation` is a chain of two OPR nodes: each operand is found in its node
(`OperFound`, `operate(symbol, operand)`) or comes after the node was turned
round (`OperTurned`, `operate(operand, symbol)`).  `Denotes` says what an operator
means by definition, not by computation: a quotient is the multiple with the least
remainder, a bitwise result is described bit by bit.

### CudaEvaluator

| action | code |
|---|---|
| `Boot` | `boot_redex`, then the first launch of `gnet_normalize` |
| `Load`, `SyncLoad` | `load_redexes`; the locals, `block_count`, the early return of an empty block |
| `GiveInteract` | an iteration of the search for a redex to give that reduces one without a mark |
| `GiveFound`, `GiveEmpty`, `GiveStop` | the search ends: on a marked redex, an empty bag, the bound of 64 or `lo_end < rpos`; then "Spawn a thread" |
| `Take` | the thread that has been given a redex |
| `WorkInteract`, `HighInteract` | an iteration of WORK mode; the loops over high-priority redexes |
| `Save`, `Flush` | the two halves of `save_redexes` |
| `SyncGive`, `SyncTake`, `SyncWork`, `SyncSave`, `SyncFlush` | `__syncthreads`: all the threads of a block go on together |
| `Inbetween`, `Again`, `Return` | the kernel `inbetween`; `gnet_get_rlen` and its test |

Threads of different blocks share nothing but counters they add to and slices
of the two global bags that are one thread's each, and threads of one block share
the spawn cells, which a barrier separates from their readers.  So an action is a
thread's code between two such accesses, and the interleavings left are those of
threads between two barriers and of blocks between two launches.  A launch is
atomic with what the host does before it: kernels of a stream run in order.

What an interaction does to the net is abstract: a redex pushes the redexes of
`Spawn`; `Par` are those the program marks, `Wide` those that ask for more cells
than a thread has in its share of the local memory.  An entry of a bag is a redex, its
mark, and whether its nodes are in the local memory.  A leak is the LINK of a global
variable with a local node: saving a redex with local nodes pushes one for each of
them (`Nodes`), and reducing it one for each node right under its own (`Under`).  How many
nodes there are is given with the redex, as is what it pushes; the cells they take are
not counted.  The variables a leak makes are met by nobody yet, so it pushes nothing
else.  `redex` is not initialized in `evaluator`: in its
first search of a launch a thread may find there 0 or what an earlier launch left.

### CudaNet

A grid has one thread for each block.  It is two threads of `Interactions` that
share a bag: the even one allocates from its block's local memory, the odd one
from the thread's slice of the global memory, and `mode` says which of the two
reduces.  A cell of an even partition is local.

| action | code |
|---|---|
| `Launch` | the next kernel: local memories and bags cleared, the saved redexes spread |
| `Load`, `EnterPort`, `LoadPush`, `Loaded` | `load_redexes`: both ports entered, the redex pushed |
| `Linkage` | `link`: `CudaPoint` is an iteration of its loop, with the test for a leak |
| `ReduceLink` | `interact_link`: the local node is taken, or the link goes on |
| `EnterPort`, `LeakStore` | its ports are entered; a global node, and a global variable for each local port |
| `Reduce` | the other rules, those of `Interactions` |
| `Stop`, `Save`, `Saved`, `Exit` | the end of `evaluator`, `save_redexes` and the loop after it |

The model does more than the code wherever that costs nothing: the saved
redexes go to any thread, a thread reduces its redexes in any order and stops
whenever it has none of high priority, a launch has either mode.  The last
launch is one in GROW mode that reduces everything.  SEED allocates as GROW
does.  A search of the local memory that fails leaves its redex where it was, so
it is no step (it moves the index the next search starts at).  The "delayed link"
of `interact_link`, for a variable that reads 0, is never needed here: `NetLinear`
says that a variable a link holds is there; it waits for stores that another
block's weak memory shows late.

### IO and Readback

| action | code |
|---|---|
| `Begin`, `ReadLam` ... `ReadArg` | `readback_ctr`, one action per port it expands |
| `Expand`, then the `Restore` of the next step | `expand`: a reference is called at ROOT, and what ROOT held is put back |
| `ReadCall`, `End` | the tests of `do_run_io` on the constructor read |
| `ReadByte`, `FoundString` | an iteration, and the end, of `readback_bytes` |
| `FoundName`, `ReadFst`, `ReadSnd` | the lookup of the function, `readback_tup` |
| `NextString` | the test of the tuple's length; the strings among its elements |
| `Perform` | the call, `inject_*` of its answer, the application of the continuation |
| `Normalize` | a step of a thread of the evaluator, which the loop waits for |

Three callers read constructors (the loop, the name, an argument), and
`reader` says which.  A call's answer is any of `Answers`: the model knows of a
function the size of its tuple, whether it checks it, and which of its elements
are strings.  A tuple that is too short is a `TypeError`, and nothing is called.  What
is left in the net by a readback (the constructor read is never freed) stays there,
as in the code.  `readback_bytes` boots the tail of a string at ROOT whatever ROOT
holds.  Two cases are not met by the programs: more than the 16 arguments
`args_buf` has room for, which nothing checks, and a reference whose call leaves
nothing at ROOT.

### Files

Each function of the book is an action, with a failure for every call it makes of
the operating system; `answer` is what it returns.  `os` is the operating
system's side: the streams by address, the file each is open on, its error
indicator.  `told` is what the program has learned of its descriptors.
`readback_file` reads 0, 1 and 2 as the standard streams, everything else as an
index of `FILE_POINTERS`.

Where the code leaves room: `fopen` returns any address that is not in use, which
may be a freed one; an operation that fails may set the error indicator, and a
set indicator makes of an end of file an error; `fclose` closes the stream even
when it fails, and then the entry keeps it; an index past the table, which any number
of 24 bits is taken for (run.c:404, 421), reads what lies there, and is not
enumerated; what is done with a closed stream is
undefined and may answer anything; so is a full table, scanned up to its size in
bytes (run.c:385), which is no step.  `dlopen("")` and a handle that is none stand
for the program itself.  `DL_CLOSE` is bound to `io_dl_open` (run.c:733):
`io_dl_close` is modelled and never called.

## 3. What is assumed

*Memory.*  Each atomic access takes effect at once, in program order.  The code
uses relaxed accesses nearly everywhere, so the models do not speak of
reorderings a weak processor may add, such as the load of `a_barrier` moving
after the increment of `a_reached`, except for the late nodes of `Delayed`.

*Fairness.*  Weak fairness of each thread's next step and of the main thread:
the threads are POSIX threads under a preemptive scheduler, and the two loops
that wait call `sched_yield`.  No fairness is assumed between the actions of a
thread, which is sequential.  In `CudaEvaluator` each thread, each barrier and the
host are weakly fair: a block waits for no other, so the device runs every block
of a launch to its end, and the host waits for the launch.  In `IO` the fairness is
weaker: that *some* thread, or the loop that waits for all of them, takes a step.
`CudaNet` and `Files` state no liveness.

*Bounds.*  `TPC` partitions of `PLEN` cells in `Interactions`; `W = 6` in place of
24 in `Operation`, so that 2^W is more than 31 and the mask of a shift's count shows.
`MaxSync` bounds the barriers of a run of `SyncThreads`, `MaxFresh`
the variables a thread allocates in `Linker`, `MaxLaunch` the launches of
`CudaNet`.  `NFILES` and `NDYLIBS` are 5 and 2 in place of 256: two descriptors
besides the standard ones and one address of a stream to spare already let an
index, and an address, be given again.  `IO` runs one thread of the evaluator, in a
partition that no program fills: the orders of reduction are what `Net` is about
(two threads make millions of states of it), and in a partition that fills up the
allocator hands cells out twice, which is `NetFull`.  Everything else is finite because
a redex is reduced once and the programs of `MCInteractions` end.

## 4. The runs

| run | instance | shows |
|---|---|---|
| `SyncThreads` | 4 threads, 3 barriers | barrier invariant, refinement of `Barrier`, every call returns |
| `EvalTwo` | 2 threads, 2 boots, 10 redexes, bags of 3 | no overflow, no loss or duplication, nothing left at the return, exact count, refinement of `WorkPool`, the inductive invariant of the proof, and `normalize` returns unless redexes are stolen or pushed back for ever |
| `Linker` | 3 threads, one link each: every wiring of two variables and two ports (with rings), or of a root, a variable and three ports; one thread creates a variable in a freed cell meanwhile | linearity, ownership in three-way races, no access to a deleted cell, cells are reused safely, the root reads back its wire, refinement of `Wires`, every call returns |
| `Net` | 2 threads, each of four programs | the net is linear at every moment, result and count do not depend on the order, no garbage, and it ends |
| `Cuda` | 4 blocks of 4 threads, bags of 6, a tree of 22 redexes, 8 of them marked, 2 too wide for the local memory, one that finds its low stack full | no low stack and no slice goes over its end, no redex is lost or duplicated, only idle threads are given one, the host's count is exact, refinement of `WorkPool`, `gnet_normalize` returns |
| `Operate` | numbers of 6 bits at the edges of their ranges | each operator, both orders of both operands |
| `CudaNet` | 2 blocks, 3 launches of either mode, each of four programs | the net is linear over both memories, no local port gets out of its block, nothing is lost with a local memory, the result is the C runtime's |
| `Files` | 5 entries, 3 addresses of streams, 2 files, 2 handles; any sequence of calls, with any of their failures | what the program was told of its descriptors is so, no two share a stream, the parts of a time put it together |
| `IO` | each of four programs, with every sequence of answers | the calls made are the program's, each continuation gets its own answer, the loop ends |
| `NetFull`, `CudaGive`, `CudaTurn` | the smallest that show it | a disagreement each, below |

Why the instances are enough to be interesting: two threads and a full bag of
three make every branch of the evaluator fire, `PushBack` included (a redex asks
for three cells with one still in use, until a thief has made room); two boots
exercise the reset of every local and of the barrier; `TICK = 3` in place of 256
keeps the iterations in which an idle thread does not look at the counter.  In
`Linker` all arrangements are explored, loops of variables among them: a loop
leaves a variable that points at itself, for ever, which the code does not
collect.

The four programs of `Net` fire every rule: Church's 2 applied to the identity
makes a duplicator meet a constructor (COMM, then ANNI of both kinds); 1 + 1
with a duplicated operand is OPER, with nodes that are turned round; a recursive
definition counts down with SWIT and erases the branches it does not take; and
duplicators meet a reference they may copy and one they may not.  A partition of
12 cells, searched from the tenth, makes every allocator go round and take cells
again that were freed.

The tree of `Cuda` is shaped so that redexes go to other blocks in SEED mode,
to threads of their own block in GROW mode, are kept below `rpos`, fail in
WORK mode for want of local memory and come back through two more rounds of the
modes.  `Wide` redexes make `Returns` depend on the modes stepping down.
Thread 0 keeps five redexes below one that asks for two cells: in WORK mode its low
stack is full, the redex fails and is pushed back at every step, is saved with a
slice that is full too and loaded again, and is reduced only after SEED mode, where
it is given to a thread that has room.  An interaction that looked at the high stack
only would write past the end of that low stack.  A thread that still has redexes when
another one has one to give is met as well.

The four programs of `CudaNet` are three of those of `Net` and a definition too
wide for the local memory.  Two launches of any mode and one to finish are enough
for a node to be made locally, leaked, met by the other block and saved again.
The number of interactions is not the C runtime's: a leak enters the ports of its
node, and an OPR node that gets its operand so takes an interaction less
(`CudaConfluent` states `<=`).

The programs of `IO` are: a read whose bytes are written back; a file opened
by a name whose tail is the result of a function, and closed with the descriptor
or the error it got; a name that is none, then an argument of the wrong shape;
and no IO at all.  The names of functions are read as strings, byte by byte, like
any argument.

### Disagreements the runs show

* `NetFull`: "Gets the necessary resources for an interaction. Returns success"
  (hvm.c:771).  The allocators loop until they have as many indices as asked, so
  the test cannot fail; in a partition with too few free cells one cell is handed
  out several times.
* `CudaGive`: "If we found a stealable redex, pass it to stealing" (hvm.cu:1645).
  When the marked redex is the last one of the bag, `rpos = lo_end - 1` wraps; the
  next search ends at once with `redex` still set, and the redex is given again.
* `CudaTurn`: "total rbag redex count" (hvm.cu:142), "All modes produce the same
  output" (README.md:48).  `gnet_normalize` counts turns from 0, the device goes on
  counting: after an odd number of launches the host reads the other counter.
Others were met and have no run of their own: `DL_CLOSE` is bound to `io_dl_open`
(run.c:733), and `io_dl_close`, which "Closes a loaded dylib, reclaiming the handle"
(run.c:700), to no name, so that a close loads the program itself in one more entry of
`DYLIBS` and the library it was to close stays; `sidx` is reset by an empty cell
only, so after `RLEN` hits in a row a thief tries the first cell of its own slice, or,
thread 0, one past the end of `rbag_buf` (hvm.c:1158; `PastTheEnd` in
`Evaluator`); an operator that a type lacks is 0 in C and a panic in Rust
(hvm.rs:388); in the CUDA runtime a high-priority redex that finds no room in
a low stack nearly full is left to the end of `save_redexes`, where what it pushes on
that stack, empty by then, is lost with the launch ("ERR SAVE_REDEXES", hvm.cu:1456;
so does `CudaEvaluator` when `RLEN` is 3); the clock of
run.cu answers without the `RESULT_OK` of run.c; and the number of interactions
of the CUDA runtime depends on what leaks, and so on the schedule.

### Liveness that does not hold

Two facts of the evaluator keep `normalize` from returning in general, and no
run hides them.  Two hungry threads may steal one redex back and forth, since a
thief pushes it where its own thief looks.  And when a bag is full of redexes
that do not fit, they are popped and pushed back for ever: only a theft makes
room, and the high-priority bag cannot be robbed.  `Finishes` says that nothing else
does: `normalize` returns, or redexes are stolen for ever, or pushed back for ever,
or thread 0 has come to the end of `rbag_buf`.

In the CUDA runtime a redex too wide for the local memory is reduced in SEED or
GROW mode, by a thread that looks for something to give.  A thread whose partners
all have redexes, or one of the upper half of a block, never looks: with a wide redex
there `gnet_normalize` launches kernels for ever.  And when the high stack is
nearly full, the LINKs of `save_redexes` find no room and `Flush` repeats for
ever.  `Returns` is checked on an instance without either; `CudaNet` does not speak
of the search for such a thread, and its last launch finds it at once.

## 5. The proofs

`RuntimeProofs`, about `SyncThreads`, for any number of threads and calls:

* `BarrierTypes`, `BarrierInvariant`: `TypeOK /\ BarrierInv` is inductive.  `ThreadInv` says
  where each label stands with respect to the two counters, above all that while
  one thread is between the two stores of the last arrival all the others spin on
  the old `a_barrier`; `CountInv` that `a_reached` counts the waiting threads.
* `SyncImplementsBarrier`: `Arrive` is `Enter`, `Advance` and `Spin` are
  `Leave`, the rest stutters.

`LinkerProofs`, for any number of threads, any finite set of variables, and any
arrangement of ports over the calls:

* `LinkerInvariant`: `LinkInv` is inductive.  It says in which *places* each
  occurrence of a port is: in a pair still to be linked (counted from the last one, so
  that a call moves none of the others), in the hands of a thread that links, in a
  cell; and a variable that is substituted has used one of its occurrences, so its
  cell is a place for that one too.  `Balanced` says that every variable has as many
  places as it is owed: none if its cell is free or about to be deleted, one for a
  root, two for the others.  An action moves, drops or adds one or two occurrences,
  and a few lemmas on maps of places (`SwapTally` and its kin) say what that does to
  a tally.
* `LinkerKeepsLinear`, `LinkerNeverUsesFree`, `LinkerDeletesOwned`: what follows.
  Between the exchange that emptied a cell and the `vars_take` that deletes it other
  threads act; none of them holds the variable, because the tally is used up,
  and no two threads delete the same cell (`Apart`).

* `LinkerImplementsWires`: `PushRedex` is `Connect`, the rest leaves the wires
  as they are.  `Once` adds to `LinkInv` that each occurrence of a node is in one
  place.  The heart of it is `Contract`: a variable in two joints that is no end may
  be left out, joining what is at their other sides, and the wires stay the same.  It
  needs no path and no induction, since a component is all that no closed set parts
  from an end: a closed set with or without that variable proves each direction.
* `RootsReadBack`: when no call is in progress, the loop of `peek` ends at the node
  its root's wire leads to.  There is no induction over data in the prover; a least
  counterexample in a set of naturals (`Least`) does its work.  The path of
  substitutions from a root never meets a variable twice, each being the
  substitution of at most one and a root of none, so it ends before there are no
  variables left; and `Back(q)`, the ports that lead to `q`, is a closed set,
  so `q` is on the root's wire.

`NetProofs`, for any book of nets, any number of threads and any size of the
buffers:

* `Allocates`: a search that finds as many cells as are asked for hands out different
  free cells of its thread's partition.  It is division with remainder: `PLEN`
  consecutive probes modulo `PLEN` are different cells, so no cell comes twice
  before the search has gone round.  No cell is 0, which is what frees `FREE` to mean
  "nothing".
* `NetInvariant`: `NetInv` is inductive.  `Balanced` is its heart: every variable is
  named twice, once or not at all, as its cell holds NONE, a port or 0, and every
  node in use once, counted over all the places that hold a port (`Held`): nodes,
  substitutions, each copy of each redex, the pairs the threads have still to link,
  the operations under way, and the root.  `Linear` alone is not inductive: what is
  held must be ports of cells there are (`BufTypes`, `PoolTypes`); a redex has no variable
  but the first (`IsRedex`), or a rule would take a node from a variable; a thread's
  label tells what it holds (`ThreadInv`), above all that the cell an OPER has been
  allocated and not stored yet stays free; cell 0 is never used.  An action takes
  some items away and writes others.  Instead of counting each set anew, a proof maps
  the places that merely receive a port to those that gave it one (`Rearranged`), and
  `Recounted` reduces the rest to what is lost and what is made: by `COMM`, two
  occurrences of each of four variables and one of each of four nodes; by `CALL`, what
  the definition says of its own variables and nodes, at the cells given
  (`InstanceMakes`).
* `NetStaysLinear`: `Linear`, as long as `Roomy`: an idle thread, whose searches go
  all round, would find the cells for the redexes it may take.  The code does not ensure
  it (`// FIXME: check this decently`, hvm.c:749), and without it a search hands out
  a cell twice and the net is lost, which is `NetFull`.  `Roomy` is true of all states of
  the instance of `Net`, so the hypothesis is not empty.
`CudaNetProofs`, for any book of nets, any number of blocks and of launches and any
size of the two memories:

* `CudaInvariant`: `CudaInv` is inductive: `NetInv` again, now with the redexes kept from
  a launch to the next and with what a thread has in its hands while it loads a redex or
  leaks a node (`CudaRest`), and `GridInv`.  The lemmas on the eight rules carry over,
  since they are about a net and any ports around it (`NetInv(Rest)`).  The actions of the
  grid are new: a redex that goes from the slice to a hand and into a bag, a port that
  follows a substitution while it is loaded, a leak, which parts with a local node and
  makes a global one and one or two variables, a save, whose two variables are in the
  redex saved and in the links.  `GridInv` says that a thread is one of its two
  allocators at a time and idle as the other one, that it links nothing while its hands
  are full, and that a redex kept is kept once.
* `CudaStaysLinear`: `NetLinear`, as long as `GridRoomy` and `NothingLost`.  `GridRoomy`
  is `Roomy` for the searches in the global memory: for the rules in GROW mode, for the
  variables of a save, for the node and the variables of a leak.  A search in a local
  memory needs no hypothesis, since it gives up.  `NothingLost` is needed where a launch
  clears the bags and the local memories: a port left there would be gone, and what it
  names held one time too few.  Both are true of all states of the instance of `CudaNet`.
* `CudaStaysPrivate`: `Private`, under the same two conditions.  `Private` alone is not
  inductive, since it says nothing of the pairs a thread is linking, of its operation
  under way and of its hands, and a port goes through all of them.  `Apart` says it of
  every place: what a cell, a bag or a thread holds is global or of its own block, and
  nothing local is held outside a launch that works locally.  For the eight rules one
  fact is enough, that a step writes only where its thread may, and only ports that it
  could reach or that are in its partition (`May`, `PortsConfined`); `Point` alone
  substitutes a variable, and there `Leaks` keeps a local port from a global cell.
  `CudaInv` gives the rest: the thread that is not allocating has nothing in hand, and
  after `NothingLost` a launch that ends takes no port with it.

`EvaluatorProofs`, for any number of threads, capacities, tree of redexes and
boots:

* `EvaluatorTypes`, `EvaluatorInvariant`: `TypeOK /\ EvalInv` is inductive.
  `TypeOK` bounds `rput` and the length of `hbag`, so `push_redex` never
  overflows.  `EvalInv` is
  made of four parts, none inductive alone: `LocalInv` (what a label says of the
  thread's bags, hands and room), `CellInv` (a used cell is a low-priority redex
  below `rput`, or the booted redex, not yet stolen), `PhaseInv` (the two
  barriers separate the phases, by the counts of barriers each thread has met)
  and `IdleExact`.  They need each other: a pop finds room to push back because
  the cell it emptied held a low-priority redex; the store of `TPC - 1` is harmless
  because the barrier keeps everybody from counting before the last store; and
  the counter has room to move because it counts a set of threads.
* `IdleCounter`: the counter is exact.
* `NormalizeEmpties`: nothing is left at the return.  The crux is the booted
  redex: its thief is thread 1 (thread 0 if alone), whose very first attempt is
  the first cell of thread 0's slice, so it cannot reach `Check` without having
  taken it; this is `Unclaimed`.
* `EvaluatorConserves`: a redex that is born and not reduced is in exactly one place,
  the others in none (`HoldInv`).  A place is a cell, an entry of the high-priority
  bag, the hand of a thread, or one of the pushes an interaction still has to make,
  counted from the last one.  That a cell in use is never written over is `CellInv`.
* `EvaluatorImplementsPool`: a step of the evaluator is `Boot`, `Reduce`, `Return` or
  nothing at all.  `Return` needs an empty pool, and `EmptyPool` gets it from
  `NormalizeEmpties`: a redex that is left would be in a place, and all are empty.
* `CountOfInteractions`: the total is the number of interactions.  Each thread has a
  set of its own of redexes it has counted and not yet added (`Shares`), the total
  is the size of the rest.

`CudaProofs`, for any sizes of blocks and grid, capacities and tree of redexes:

* `SlicesApart`: `transpose` is a permutation of the slices, so that the loops of
  `load_redexes` and `save_redexes`, which run without a barrier between blocks, share
  no cell.  It is division with remainder, twice, by powers of two.
* `KernelTyped`: no low stack of a thread and no slice of the two global bags is filled
  past its end.  `push_redex` checks nothing, so the room is that of `get_resources`: an
  interaction asks for what it pushes (`InteractLow`), a failed one pushes back one redex
  where one was popped (`PopPushLow`), a redex is given to a thread whose bag is empty
  (from `KernelInv`), a slice is loaded into one, and the root redex goes into
  the first cell of its slice, used or not.  `RangesInv` keeps `rpos` and `rbag_pos` in their
  32 bits, the wrap of `lo_end - 1` included.
* `GivenToIdle`: a thread that finds a redex in its cell has an empty bag.
  `KernelInv` says what a label and a stage say of a thread's bag and cell, and that
  a thread which may still fill its partner's cell finds it empty; `Partner`, that
  the partner is in the block, so that each cell has one writer between two barriers,
  although the blocks are at different ticks.  `push_all` and `FlattenSeq` are
  recursive functions: `NaturalLemmas` has what replaces induction over them.
* `CountsRight`, `FirstCount`: the counter the host reads is the number of redexes in
  the bag it is about to launch on, provided host and device are at the same turn
  (`TurnsAgree`); in the first call of `gnet_normalize` they are.  `LaunchInv` says
  during a launch that the counter of the next bag is the number of redexes in it, and
  that only threads that have not loaded yet have a slice of the last one; `RestInv`,
  between launches, that all the threads are out, the bag to save to is empty, and the
  host knows which of the two has been counted.
* `RedexesConserved`, `FirstConserved`: in an orderly run a redex born and not reduced
  is in one place, once, and every other redex in none.  Its copies are counted, as a
  sum over the threads (`Total`), and `NaturalLemmas` says how a sum changes with one
  or two of its terms.  A step moves copies between two threads (`Still`), takes one and makes
  those it spawns (`Reduces`), or boots (`Starts`); every action of `Next` is put in one of
  these classes, the barriers too, where what a cell offers is taken in that very tick
  (`CellInv`).
* `ReturnsEmpty`, `KernelImplementsPool`: in an orderly run nothing is left when
  `gnet_normalize` returns, and the kernel implements `WorkPool`.

The last four are about orderly runs, `[]Orderly`, which is three conditions:
`TurnsAgree`; `NoneStale`, no redex is given that `redex` still holds from an earlier
search (`CudaGive`); and `AllSaved`, the high-priority stack of a thread is empty when
it leaves `save_redexes`.  The code sees to none of the three, and each is needed: the runs
`CudaTurn` and `CudaGive` break conservation by the first and the second, and with
`RLEN` 3 so does a stack nearly full ("ERR SAVE_REDEXES").  All of them hold in every
state of the instance of `Cuda`, so the hypothesis is not empty, and `FirstConserved` needs
the last two only, in the first call.

`RuntimeProofs`, about `Operation`, for any width and any floating point unit:

* `OperatorOrderFree`: an OPER interaction gives the same number whether it finds
  its operand in the node or waits for it.  `OperateSymmetric` goes through the
  tests of `operate` by the types of its arguments.

`FilesProofs`, for tables of any size, any files, streams and libraries:

* `DescriptorsAgree`: until an `fclose` fails, every descriptor the program holds
  has an open stream of its own, on the file it was opened with, and no stream is
  open without a descriptor.  `FilesAgree` alone is not inductive:
  `Shape` is needed, which outlives a failed `fclose` and says what the table may
  hold, and `Owned`, that no two entries hold the same stream, since a close must not
  take the stream of another descriptor.
* `ClockPartsAgree`: the two halves of the time a program gets tell the clock's
  time, for every width of a half.  The provers have no laws of exponents: `2^n`
  comes in as the number of subsets of a set of `n` elements.

They rest on the named assumptions of the modules (`SyncAssumption`,
`EvaluatorAssumption`, `BirthAssumption` of `Evaluator` and of `CudaEvaluator`, `LinkerAssumption`, `WiringAssumption`,
`CudaAssumption`, `CudaNetAssumption`, `FilesAssumption`, `InteractionsAssumption`): positive sizes, a room asked that covers the pushes, boots of
high-priority redexes, each redex pushed by one interaction or booted once; block and
grid sizes that are powers of two, no more blocks than threads in one; finitely many cells, arguments of calls in which a variable is used twice, a root once and a
node once; addresses that are no standard stream; partitions of two cells at least (with one
cell in all, the root would be cell 0), two of them for each thread of the CUDA grid, and definitions that are nets (`IsNet`).  These
are what the callers of the code establish: `Tree::build` (ast.rs:433) stores each node
once and numbers the variables by name.  That a name occurs twice is what makes its
text a net, and nothing checks it: a book with a name that occurs once breaks
`Linear` at its first call.  TLC evaluates the assumptions on every run.

Only model-checked, and why:

* liveness and deadlock: beyond the prover, which has no `ENABLED`;
* `ComputesOperation`: the arithmetic of bits, and induction over them;
* of `CudaEvaluator`, `Returns` (liveness).  That no *high* stack is overrun is neither
  checked nor proved: `save_redexes` pushes a leak for every local node of the redexes it
  saves and looks at no bound, so it depends on how much they leak, which only a
  thread's share of the local cells limits, and a large enough tree overruns any;
* `Confluent`, `CountInvariant`, `OnlyResult` and `CudaConfluent`: they compare runs, and
  the results of given programs.  `Readback`, which tells a result, declares recursive
  operators, and so `IO` and the MC modules over it are for TLC only;
* `NothingLost`, which is a hypothesis of the theorems about `CudaNet`: whether a
  thread leaves with a redex in its bag depends on the book; the code checks for it
  when a kernel ends.

## 6. Not modelled, and the plan

Next, in this order:

1. The functions the host of the CUDA runtime calls on the net between launches
   (`gnet_expand`, `gnet_make_node` and the rest), over `CudaNet`; run.cu is a
   copy of run.c over them, and its loop is `IO`'s.
2. The Rust runtime: the same rules by one thread.  It adds no interleaving; its
   allocators, which may hand out the reserved index 0 (hvm.rs:566), and its loop,
   which goes on with a redex that failed (hvm.rs:944), are listed as hazards.

Out of reach or out of scope:

* the parser, the printer, net building and `propagate_safety` (ast.rs), and
  serialisation (`to_buffer`, `book_load`): sequential functions on trees and bytes,
  without a state to interleave;
* the compiler (cmp.rs): it prints C text, whose meaning would have to be modelled
  rather than the code;
* reorderings of a weak memory, beyond the late nodes of `Delayed`;
* debug output, the pretty printer, `read_img` and `global_sum` (never called),
  the command line, the headers of the FFI, tests and examples.
