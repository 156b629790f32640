------------------------------- MODULE Files --------------------------------
(***************************************************************************)
(* The IO functions of the C runtime (src/src/run.c:376-736): the tables   *)
(* of open files and of loaded libraries, between a program that calls     *)
(* them in any order, with any entry of the tables or with no number, and  *)
(* an operating system whose calls may fail.                               *)
(*                                                                         *)
(* Reading the arguments from the net and writing the answer back is IO's. *)
(***************************************************************************)
EXTENDS Integers

CONSTANTS
  NFILES,   \* entries of FILE_POINTERS; 256 in the code
  NDYLIBS,  \* entries of DYLIBS; 256 in the code
  Stream,   \* addresses fopen returns; freed ones are returned again
  Used,     \* the descriptors that programs use
  File,     \* names of files
  Lib,      \* libraries
  NULL,
  Program,  \* the program itself, as a library: what dlopen("") and NULL are
  W,        \* bits of a number; 24 in the code
  Times     \* times of the clock

Std == 0 .. 2
Fd == 0 .. NFILES - 1
Handle == 0 .. NDYLIBS - 1
Nan == -1           \* an argument that is no number

ASSUME FilesAssumption ==
  /\ NFILES \in Nat /\ NFILES > 3 /\ NDYLIBS \in Nat \ {0} /\ W \in Nat \ {0}
  /\ Used \subseteq Fd /\ Times \subseteq Nat
  /\ Stream \cap Std = {} /\ NULL \notin Std \cup Stream \cup Lib \cup {Program}
  /\ NULL \notin [file : Std \cup File, err : BOOLEAN]

VARIABLES
  FILE_POINTERS,  \* a stream or NULL; the entries 0 to 2 are not used
  DYLIBS,         \* a library or NULL
  os,             \* the streams, by address; NULL if it is closed.  err is the
                  \* error indicator, which stays set until the stream is closed
  told,           \* what the program has been told of each descriptor: the file,
                  \* and whether an operation has failed
  failed,         \* an fclose has failed (history)
  answer          \* the last answer

vars == <<FILE_POINTERS, DYLIBS, os, told, failed, answer>>

OK(v)  == answer' = [res |-> "ok", val |-> v]
Err(v) == answer' = [res |-> "err", val |-> v]
EBADF == "EBADF"
TYPE == "type"

Opened(f) == [file |-> f, err |-> FALSE]

Init ==
  /\ FILE_POINTERS = [fd \in Fd |-> NULL]
  /\ DYLIBS = [h \in Handle |-> NULL]
  /\ os = [s \in Std \cup Stream |-> IF s \in Std THEN Opened(s) ELSE NULL]
  /\ told = [fd \in Fd |-> IF fd \in Std THEN Opened(fd) ELSE NULL]
  /\ failed = FALSE
  /\ answer = [res |-> "ok", val |-> NULL]

-----------------------------------------------------------------------------
(* Files.                                                                  *)

\* The tables are indexed with any number of 24 bits, and one past their end reads
\* what lies there: undefined, so no such argument is enumerated.
readback_file(fd) ==
  IF fd = Nan THEN NULL ELSE IF fd \in Std THEN fd ELSE FILE_POINTERS[fd]

readback_dylib(h) == IF h = Nan THEN NULL ELSE DYLIBS[h]

Malformed == Err(TYPE) /\ UNCHANGED <<FILE_POINTERS, DYLIBS, os, told, failed>>

\* An operation on a stream that succeeds, or fails: then it may set the error
\* indicator, and what the indicator says is what the program gets.
Ends(v) == OK(v) /\ UNCHANGED <<os, told>>
Fails(fd, sets) ==
  LET fp == readback_file(fd)
  IN  \E e \in sets :
        /\ os' = IF e THEN [os EXCEPT ![fp].err = TRUE] ELSE os
        /\ told' = [told EXCEPT ![fd].err = TRUE]
        /\ Err(os[fp].err \/ e)

\* What a call on a closed stream does is undefined: any answer.
Undefined == (OK(NULL) \/ Err(TRUE)) /\ UNCHANGED <<os, told>>

\* The operations that use a stream: Op says how it may end.
OnFile(fd, Op) ==
  LET fp == readback_file(fd)
  IN  /\ CASE fp = NULL -> Err(EBADF) /\ UNCHANGED <<os, told>>
           [] fp # NULL /\ os[fp] = NULL -> Undefined
           [] OTHER -> Op
      /\ UNCHANGED <<FILE_POINTERS, DYLIBS, failed>>

\* fread: all the bytes, or fewer: the end of the file, or an error.  An error
\* indicator set before turns the end of the file into an error.
io_read(fd) ==
  OnFile(fd,
    \/ Ends("all") \/ Fails(fd, {TRUE})
    \/ IF os[readback_file(fd)].err THEN Err(TRUE) /\ UNCHANGED <<os, told>>
       ELSE Ends("end"))

io_write(fd) ==
  OnFile(fd, Ends(NULL) \/ Fails(fd, {TRUE}))

io_flush(fd) ==
  OnFile(fd, Ends(NULL) \/ Fails(fd, {TRUE}))

\* whence is one of three origins, or it is a type error, before the stream is
\* used.  A failed fseek need not set the error indicator.
io_seek(fd, whence) ==
  IF readback_file(fd) = NULL \/ whence \in 0 .. 2
  THEN OnFile(fd, Ends(NULL) \/ Fails(fd, BOOLEAN))
  ELSE Malformed

\* A mutation: an entry in use is given again.
AnyFds == Fd \ Std

\* The entries a new file may be given.  A full table is scanned past its end
\* (the bound is its size in bytes): undefined, no step.
FreeFds == {fd \in Fd \ Std : FILE_POINTERS[fd] = NULL}

FirstOf(free) == {i \in free : \A k \in free : i <= k}

\* The file gets the first free entry.
io_open(f) ==
  /\ \E fd \in FirstOf(FreeFds) :
       \/ \E s \in {x \in Stream : os[x] = NULL} :
            /\ FILE_POINTERS' = [FILE_POINTERS EXCEPT ![fd] = s]
            /\ os' = [os EXCEPT ![s] = Opened(f)]
            /\ told' = [told EXCEPT ![fd] = Opened(f)]
            /\ OK(fd)
       \/ Err("errno") /\ UNCHANGED <<FILE_POINTERS, os, told>>
  /\ UNCHANGED <<DYLIBS, failed>>

\* fclose closes the stream even when it fails, and then the entry is kept.
io_close(fd) ==
  LET fp == readback_file(fd)
  IN  IF fp = NULL
      THEN Err(EBADF) /\ UNCHANGED <<FILE_POINTERS, DYLIBS, os, told, failed>>
      ELSE /\ os' = [os EXCEPT ![fp] = NULL]
           /\ \/ /\ FILE_POINTERS' = [FILE_POINTERS EXCEPT ![fd] = NULL]
                 /\ told' = [told EXCEPT ![fd] = NULL]
                 /\ OK(NULL)
                 /\ UNCHANGED failed
              \/ /\ failed' = TRUE
                 /\ \E e \in BOOLEAN : Err(e)
                 /\ UNCHANGED <<FILE_POINTERS, told>>
           /\ UNCHANGED DYLIBS

-----------------------------------------------------------------------------
(* Libraries.                                                              *)

FreeHandles == {h \in Handle : DYLIBS[h] = NULL}

\* The library gets the first free entry; the arguments are not checked.
io_dl_open(lib) ==
  /\ \E h \in FirstOf(FreeHandles) :
       \/ DYLIBS' = [DYLIBS EXCEPT ![h] = lib] /\ OK(h)
       \/ Err("dlerror") /\ UNCHANGED DYLIBS
  /\ UNCHANGED <<FILE_POINTERS, os, told, failed>>

\* The symbol is looked up in the library, or, when the handle is none, in the
\* program itself: dlsym takes NULL for it.
io_dl_call(h) ==
  /\ \/ OK(IF readback_dylib(h) = NULL THEN Program ELSE readback_dylib(h))
     \/ Err("dlerror")
  /\ UNCHANGED <<FILE_POINTERS, DYLIBS, os, told, failed>>

io_dl_close(h) ==
  /\ IF readback_dylib(h) = NULL THEN Err(TYPE) /\ UNCHANGED DYLIBS
     ELSE \/ OK(NULL) /\ DYLIBS' = [DYLIBS EXCEPT ![h] = NULL]
          \/ Err("dlerror") /\ UNCHANGED DYLIBS
  /\ UNCHANGED <<FILE_POINTERS, os, told, failed>>

\* The book's entry DL_CLOSE is io_dl_open.  A handle reads back as the empty
\* string, which dlopen takes for the program itself.
DL_CLOSE(h) == io_dl_open(Program)

-----------------------------------------------------------------------------
(* The clock.                                                              *)

\* A number keeps W of its bits in a port.
Num(n) == n % 2^W

\* A mutation: the two parts overlap.
PartsOverlap(t) == <<(t \div 2^W) % 2^(W + 4), t % 2^(W + 4)>>

\* The high bits of a time, and the low ones.
Parts(t) == <<Num((t \div 2^W) % 2^(W + 4)), Num(t % 2^(W + 4))>>

\* The time in nanoseconds, in two parts; now is kept for the property.
io_get_time(t) ==
  /\ answer' = [res |-> "time", val |-> [now |-> t, parts |-> Parts(t)]]
  /\ UNCHANGED <<FILE_POINTERS, DYLIBS, os, told, failed>>

\* A sleep of the time its two parts give; that a signal cuts it short is not told.
io_sleep(hi, lo) ==
  /\ OK(hi * 2^W + lo)
  /\ UNCHANGED <<FILE_POINTERS, DYLIBS, os, told, failed>>

-----------------------------------------------------------------------------
\* The book of functions, and the tuples that have too few elements.
book_init ==
  \/ \E fd \in Used \cup {Nan} :
       \/ io_read(fd) \/ io_close(fd) \/ io_flush(fd) \/ io_write(fd)
       \/ \E whence \in 0 .. 3 : io_seek(fd, whence)
  \/ \E f \in File : io_open(f)
  \/ \E t \in Times : io_get_time(t) \/ io_sleep(Parts(t)[1], Parts(t)[2])
  \/ \E lib \in Lib : io_dl_open(lib)
  \/ \E h \in Handle \cup {Nan} : io_dl_call(h) \/ DL_CLOSE(h)
  \/ Malformed

Next == book_init

Spec == Init /\ [][Next]_vars

-----------------------------------------------------------------------------
(* Properties.                                                             *)

\* Until an fclose fails, and whatever else does, what the program has been
\* told of its descriptors is so: a descriptor it holds has a stream of its own,
\* open on the file it was opened with; the error indicator is set only if the
\* program has had an error; a descriptor it does not hold has no stream, but for
\* the reserved ones; and no stream is open that it has no descriptor for.
FilesAgree ==
  ~failed =>
    /\ \A fd \in Fd :
         LET fp == readback_file(fd)
         IN  IF told[fd] = NULL THEN fd \in Std \/ fp = NULL
             ELSE /\ fp # NULL /\ os[fp] # NULL
                  /\ os[fp].file = told[fd].file
                  /\ os[fp].err => told[fd].err
    /\ \A s \in Std \cup Stream : os[s] # NULL =>
         \E fd \in Fd : \A fe \in Fd : readback_file(fe) = s <=> fe = fd

\* The two parts of a time are the high and the low W bits of its 2 * W bits
\* (run.c:597-598): a SLEEP of them lasts as long.
ClockParts ==
  answer.res = "time" =>
    answer.val.parts[1] * 2^W + answer.val.parts[2] = answer.val.now % 2^(2 * W)
=============================================================================
