---------------------------- MODULE FilesProofs -----------------------------
(***************************************************************************)
(* The table of open files, of any size and for any number of streams, and *)
(* the clock, whatever the operating system answers.                       *)
(***************************************************************************)
EXTENDS Files, NaturalLemmas

Opening == [file : Std \cup File, err : BOOLEAN]

\* The shape of the state; and the program has been told of each descriptor that
\* has a stream.
Shape ==
  /\ FILE_POINTERS \in [Fd -> Stream \cup {NULL}]
  /\ os \in [Std \cup Stream -> Opening \cup {NULL}]
  /\ told \in [Fd -> Opening \cup {NULL}]
  /\ \A fd \in Std : FILE_POINTERS[fd] = NULL
  /\ \A fd \in Std : os[fd] # NULL => told[fd] # NULL
  /\ \A fd \in Fd : FILE_POINTERS[fd] # NULL => told[fd] # NULL

\* What the program has been told of a descriptor is so.
Agrees(fd) ==
  IF told[fd] = NULL
  THEN IF fd \in Std THEN os[fd] = NULL ELSE FILE_POINTERS[fd] = NULL
  ELSE /\ readback_file(fd) # NULL /\ os[readback_file(fd)] # NULL
       /\ os[readback_file(fd)].file = told[fd].file
       /\ os[readback_file(fd)].err => told[fd].err

\* No two descriptors share a stream, and every open stream has one.
Owned ==
  /\ \A fd, fe \in Fd : FILE_POINTERS[fd] = FILE_POINTERS[fe] /\ FILE_POINTERS[fd] # NULL
                          => fd = fe
  /\ \A s \in Stream : os[s] # NULL => \E fd \in Fd : FILE_POINTERS[fd] = s

FilesInv == Shape /\ (~failed => (\A fd \in Fd : Agrees(fd)) /\ Owned)

-----------------------------------------------------------------------------
LEMMA Descriptors ==
  /\ Std \subseteq Fd /\ Nan \notin Fd /\ NULL \notin Std \cup Stream \cup Opening
  /\ Std \cap Stream = {}
BY FilesAssumption DEF Std, Fd, Nan, Opening

\* What a descriptor reads back as.
LEMMA Readback ==
  ASSUME Shape, NEW fd \in Fd
  PROVE  /\ fd \in Std => readback_file(fd) = fd
         /\ fd \notin Std => readback_file(fd) = FILE_POINTERS[fd]
         /\ readback_file(fd) \in Std \cup Stream \cup {NULL}
         /\ readback_file(fd) # NULL /\ os[readback_file(fd)] # NULL => told[fd] # NULL
BY Descriptors DEF readback_file, Shape

LEMMA NoFile == readback_file(Nan) = NULL
BY DEF readback_file

\* A stream whose indicator is set.
LEMMA Indicator ==
  ASSUME NEW r \in Opening
  PROVE  LET q == [r EXCEPT !.err = TRUE]
         IN  q \in Opening /\ q.file = r.file /\ q.err = TRUE
BY DEF Opening

\* No two descriptors read back as one open stream.
LEMMA Apart ==
  ASSUME Shape, Owned, NEW fd \in Fd, NEW x \in Fd, x # fd, readback_file(fd) # NULL
  PROVE  readback_file(x) # readback_file(fd)
<1>1. CASE fd \in Std /\ x \in Std
  BY <1>1, Readback
<1>2. CASE fd \in Std /\ x \notin Std
  BY <1>2, Readback, Descriptors DEF Shape
<1>3. CASE fd \notin Std /\ x \in Std
  BY <1>3, Readback, Descriptors DEF Shape
<1>4. CASE fd \notin Std /\ x \notin Std
  BY <1>4, Readback DEF Owned
<1>. QED
  BY <1>1, <1>2, <1>3, <1>4

LEMMA InitFiles == Init => FilesInv
<1> SUFFICES ASSUME Init PROVE FilesInv
  OBVIOUS
<1>1. \A f \in Std \cup File : Opened(f) \in Opening /\ Opened(f).file = f
  BY DEF Opened, Opening
<1>2. Shape
  BY <1>1, Descriptors DEF Init, Shape
<1>3. ASSUME NEW fd \in Fd PROVE Agrees(fd)
  <2>1. CASE fd \in Std
    <3>1. readback_file(fd) = fd /\ fd # NULL /\ fd \in Fd
      BY <1>2, <2>1, Descriptors, Readback
    <3>2. told[fd] = Opened(fd) /\ os[fd] = Opened(fd)
      BY <2>1, <3>1 DEF Init
    <3>3. Opened(fd) # NULL
      BY <1>1, <2>1, Descriptors
    <3>. QED
      BY <3>1, <3>2, <3>3 DEF Agrees
  <2>2. CASE fd \notin Std
    BY <2>2 DEF Init, Agrees
  <2>. QED
    BY <2>1, <2>2
<1>4. Owned
  BY Descriptors DEF Init, Owned
<1>. QED
  BY <1>2, <1>3, <1>4 DEF FilesInv

-----------------------------------------------------------------------------
(* The ways a call changes the state.                                      *)

LEMMA KeepsFiles ==
  ASSUME FilesInv, UNCHANGED <<FILE_POINTERS, os, told, failed>>
  PROVE  FilesInv'
BY DEF FilesInv, Shape, Agrees, Owned, readback_file

\* The error indicator of a stream is set, or not, and the program told of it.
LEMMA FailsFiles ==
  ASSUME FilesInv, NEW fd \in Fd, NEW fp \in Std \cup Stream, NEW e \in BOOLEAN,
         fp = readback_file(fd), os[fp] # NULL,
         os' = IF e THEN [os EXCEPT ![fp].err = TRUE] ELSE os,
         told' = [told EXCEPT ![fd].err = TRUE],
         UNCHANGED <<FILE_POINTERS, failed>>
  PROVE  FilesInv'
<1>1. Shape /\ told[fd] # NULL
  BY Descriptors, Readback DEF FilesInv
<1>2. /\ os[fp] \in Opening /\ told[fd] \in Opening
      /\ os'[fp] = IF e THEN [os[fp] EXCEPT !.err = TRUE] ELSE os[fp]
      /\ told'[fd] = [told[fd] EXCEPT !.err = TRUE]
      /\ \A s \in Std \cup Stream : s # fp => os'[s] = os[s]
      /\ \A x \in Fd : x # fd => told'[x] = told[x]
  BY <1>1 DEF Shape
<1>3. /\ os'[fp] \in Opening /\ os'[fp].file = os[fp].file
      /\ told'[fd] \in Opening /\ told'[fd].file = told[fd].file /\ told'[fd].err = TRUE
  <2>1. /\ told'[fd] \in Opening /\ told'[fd].file = told[fd].file
        /\ told'[fd].err = TRUE
    BY <1>2, Indicator
  <2>2. os'[fp] \in Opening /\ os'[fp].file = os[fp].file
    <3>1. CASE e
      <4>1. os'[fp] = [os[fp] EXCEPT !.err = TRUE]
        BY <1>2, <3>1
      <4>. QED
        BY <1>2, <4>1, Indicator
    <3>2. CASE ~e
      BY <1>2, <3>2
    <3>. QED
      BY <3>1, <3>2
  <2>. QED
    BY <2>1, <2>2
<1>4. Shape'
  <2>1. os' \in [Std \cup Stream -> Opening \cup {NULL}]
    BY <1>1, <1>3 DEF Shape
  <2>2. told' \in [Fd -> Opening \cup {NULL}]
    BY <1>1, <1>3 DEF Shape
  <2>. QED
    BY <1>1, <1>2, <1>3, <2>1, <2>2, Descriptors, ZenonT(40) DEF Shape
<1>5. CASE failed
  BY <1>4, <1>5 DEF FilesInv
<1>6. CASE ~failed
  <2>1. Owned /\ \A x \in Fd : Agrees(x)
    BY <1>6 DEF FilesInv
  <2>2. Owned'
    <3>1. \A s \in Stream : os'[s] # NULL => os[s] # NULL
      BY <1>2
    <3>2. FILE_POINTERS' = FILE_POINTERS
      OBVIOUS
    <3>. QED
      BY <2>1, <3>1, <3>2 DEF Owned
  <2>3. ASSUME NEW x \in Fd PROVE Agrees(x)'
    <3>1. readback_file(x)' = readback_file(x)
      BY DEF readback_file
    <3>2. CASE x = fd
      <4>1. os[fp].file = told[fd].file
        BY <1>1, <2>1 DEF Agrees
      <4>. QED
        BY <1>3, <3>1, <3>2, <4>1, Descriptors DEF Agrees
    <3>3. CASE x # fd
      <4>1. readback_file(x) # fp
        BY <1>1, <2>1, <3>3, Descriptors, Apart
      <4>2. told'[x] = told[x]
        BY <1>2, <3>3
      <4>3. Agrees(x)
        BY <2>1
      <4>4. CASE told[x] = NULL
        <5>1. x \in Std => os[x] = NULL /\ x # fp
          BY <4>3, <4>4 DEF Agrees
        <5>2. x \in Std => os'[x] = NULL
          BY <1>2, <5>1
        <5>3. FILE_POINTERS' = FILE_POINTERS
          OBVIOUS
        <5>. QED
          BY <4>2, <4>3, <4>4, <5>2, <5>3 DEF Agrees
      <4>5. CASE told[x] # NULL
        <5>1. readback_file(x) \in Std \cup Stream /\ readback_file(x) # fp
          BY <1>1, <4>1, <4>3, <4>5, Readback DEF Agrees
        <5>2. os'[readback_file(x)] = os[readback_file(x)]
          BY <1>2, <5>1
        <5>. QED
          BY <3>1, <4>2, <4>3, <4>5, <5>2 DEF Agrees
      <4>. QED
        BY <4>4, <4>5
    <3>. QED
      BY <3>2, <3>3
  <2>. QED
    BY <1>4, <2>2, <2>3, <1>6 DEF FilesInv
<1>. QED
  BY <1>5, <1>6

\* A stream that is closed is opened, and gets an entry that is free.
LEMMA OpensFiles ==
  ASSUME FilesInv, NEW fd \in Fd \ Std, NEW s \in Stream, NEW f \in File,
         FILE_POINTERS[fd] = NULL, os[s] = NULL,
         FILE_POINTERS' = [FILE_POINTERS EXCEPT ![fd] = s],
         os' = [os EXCEPT ![s] = Opened(f)],
         told' = [told EXCEPT ![fd] = Opened(f)],
         UNCHANGED failed
  PROVE  FilesInv'
<1>1. Opened(f) \in Opening /\ Opened(f).file = f /\ Opened(f).err = FALSE
  BY DEF Opened, Opening
<1>2. Shape
  BY DEF FilesInv
<1>3. Shape'
  <2>1. /\ FILE_POINTERS' \in [Fd -> Stream \cup {NULL}]
        /\ os' \in [Std \cup Stream -> Opening \cup {NULL}]
        /\ told' \in [Fd -> Opening \cup {NULL}]
    BY <1>1, <1>2 DEF Shape
  <2>. QED
    BY <1>1, <1>2, <2>1, Descriptors DEF Shape
<1>4. CASE failed
  BY <1>3, <1>4 DEF FilesInv
<1>5. CASE ~failed
  <2>1. Owned /\ \A x \in Fd : Agrees(x)
    BY <1>5 DEF FilesInv
  \* No entry has the stream, which is closed.
  <2>2. \A x \in Fd : FILE_POINTERS[x] # s
    <3>1. ASSUME NEW x \in Fd, FILE_POINTERS[x] = s PROVE FALSE
      <4>1. x \notin Std /\ told[x] # NULL /\ readback_file(x) = s
        BY <1>2, <3>1, Descriptors, Readback DEF Shape
      <4>. QED
        BY <2>1, <4>1 DEF Agrees
    <3>. QED
      BY <3>1
  <2>3. /\ FILE_POINTERS'[fd] = s
        /\ \A x \in Fd : x # fd => FILE_POINTERS'[x] = FILE_POINTERS[x] /\ told'[x] = told[x]
        /\ os'[s] = Opened(f) /\ told'[fd] = Opened(f)
        /\ \A x \in Std \cup Stream : x # s => os'[x] = os[x]
    BY <1>2 DEF Shape
  <2>4. Owned'
    BY <2>1, <2>2, <2>3, Descriptors DEF Owned
  <2>5. ASSUME NEW x \in Fd PROVE Agrees(x)'
    <3>1. CASE x = fd
      <4>1. readback_file(x)' = s
        <5>1. x # Nan /\ x \notin Std /\ FILE_POINTERS'[x] = s
          BY <2>3, <3>1, Descriptors
        <5>. QED
          BY <5>1 DEF readback_file
      <4>. QED
        BY <1>1, <2>3, <3>1, <4>1, Descriptors DEF Agrees
    <3>2. CASE x # fd
      <4>1. readback_file(x)' = readback_file(x) /\ told'[x] = told[x]
        BY <2>3, <3>2 DEF readback_file
      <4>2. readback_file(x) # s /\ (x \in Std => x # s)
        BY <1>2, <2>2, Descriptors, Readback
      <4>3. readback_file(x) # NULL => os'[readback_file(x)] = os[readback_file(x)]
        BY <1>2, <2>3, <4>2, Readback
      <4>4. x \in Std => os'[x] = os[x]
        BY <2>3, <4>2
      <4>5. x \notin Std => FILE_POINTERS'[x] = FILE_POINTERS[x]
        BY <2>3, <3>2
      <4>. QED
        BY <2>1, <4>1, <4>3, <4>4, <4>5 DEF Agrees
    <3>. QED
      BY <3>1, <3>2
  <2>. QED
    BY <1>3, <1>5, <2>4, <2>5 DEF FilesInv
<1>. QED
  BY <1>4, <1>5

\* A stream is closed and its entry cleared.
LEMMA ClosesFiles ==
  ASSUME FilesInv, NEW fd \in Fd, NEW fp \in Std \cup Stream, fp = readback_file(fd),
         FILE_POINTERS' = [FILE_POINTERS EXCEPT ![fd] = NULL],
         os' = [os EXCEPT ![fp] = NULL],
         told' = [told EXCEPT ![fd] = NULL],
         UNCHANGED failed
  PROVE  FilesInv'
<1>1. Shape
  BY DEF FilesInv
<1>2. /\ FILE_POINTERS'[fd] = NULL /\ told'[fd] = NULL /\ os'[fp] = NULL
      /\ \A x \in Fd : x # fd => FILE_POINTERS'[x] = FILE_POINTERS[x] /\ told'[x] = told[x]
      /\ \A x \in Std \cup Stream : x # fp => os'[x] = os[x]
  BY <1>1 DEF Shape
<1>3. fd \in Std => fp = fd
  BY <1>1, Readback
<1>4. Shape'
  <2>1. /\ FILE_POINTERS' \in [Fd -> Stream \cup {NULL}]
        /\ os' \in [Std \cup Stream -> Opening \cup {NULL}]
        /\ told' \in [Fd -> Opening \cup {NULL}]
    BY <1>1 DEF Shape
  <2>. QED
    BY <1>1, <1>2, <1>3, <2>1, Descriptors DEF Shape
<1>5. CASE failed
  BY <1>4, <1>5 DEF FilesInv
<1>6. CASE ~failed
  <2>1. Owned /\ \A x \in Fd : Agrees(x)
    BY <1>6 DEF FilesInv
  <2>2. Owned'
    <3>1. ASSUME NEW s \in Stream, os'[s] # NULL
          PROVE  \E x \in Fd : FILE_POINTERS'[x] = s
      <4>1. s # fp /\ os[s] # NULL
        BY <1>2, <3>1
      <4>2. PICK x \in Fd : FILE_POINTERS[x] = s
        BY <2>1, <4>1 DEF Owned
      <4>3. x # fd
        BY <1>1, <4>1, <4>2, Descriptors, Readback DEF Shape
      <4>. QED
        BY <1>2, <4>2, <4>3
    <3>. QED
      BY <1>2, <2>1, <3>1 DEF Owned
  <2>3. ASSUME NEW x \in Fd PROVE Agrees(x)'
    <3>1. CASE x = fd
      BY <1>2, <1>3, <3>1 DEF Agrees
    <3>2. CASE x # fd
      <4>1. readback_file(x)' = readback_file(x) /\ told'[x] = told[x]
        BY <1>2, <3>2 DEF readback_file
      <4>2. readback_file(x) # fp
        BY <1>1, <2>1, <3>2, Descriptors, Apart
      <4>3. readback_file(x) # NULL => os'[readback_file(x)] = os[readback_file(x)]
        BY <1>1, <1>2, <4>2, Readback
      <4>4. x \in Std => os'[x] = os[x]
        BY <1>1, <1>2, <4>2, Readback
      <4>5. x \notin Std => FILE_POINTERS'[x] = FILE_POINTERS[x]
        BY <1>2, <3>2
      <4>. QED
        BY <2>1, <4>1, <4>3, <4>4, <4>5 DEF Agrees
    <3>. QED
      BY <3>1, <3>2
  <2>. QED
    BY <1>4, <1>6, <2>2, <2>3 DEF FilesInv
<1>. QED
  BY <1>5, <1>6

\* An fclose fails: the stream is closed and its entry kept.
LEMMA LosesFiles ==
  ASSUME FilesInv, NEW fp \in Std \cup Stream,
         os' = [os EXCEPT ![fp] = NULL], failed' = TRUE,
         UNCHANGED <<FILE_POINTERS, told>>
  PROVE  FilesInv'
<1>1. Shape
  BY DEF FilesInv
<1>2. /\ os' \in [Std \cup Stream -> Opening \cup {NULL}]
      /\ \A x \in Std \cup Stream : os'[x] # NULL => os[x] # NULL
  BY <1>1 DEF Shape
<1>3. Shape'
  BY <1>1, <1>2 DEF Shape
<1>. QED
  BY <1>3 DEF FilesInv

-----------------------------------------------------------------------------
(* Every call of the book.                                                 *)

\* The operations that use a stream.
LEMMA OnFileStep ==
  ASSUME FilesInv, NEW fd \in Used \cup {Nan},
         io_read(fd) \/ io_write(fd) \/ io_flush(fd) \/ (\E whence \in 0 .. 3 : io_seek(fd, whence))
  PROVE  FilesInv'
<1>1. UNCHANGED <<FILE_POINTERS, failed>>
  BY DEF io_read, io_write, io_flush, io_seek, OnFile, Malformed
<1>2. CASE UNCHANGED <<os, told>>
  BY <1>1, <1>2, KeepsFiles
<1>3. ASSUME ~UNCHANGED <<os, told>>
      PROVE  /\ readback_file(fd) # NULL /\ os[readback_file(fd)] # NULL
             /\ \E sets \in SUBSET BOOLEAN : Fails(fd, sets)
  BY <1>3 DEF io_read, io_write, io_flush, io_seek, OnFile, Undefined, Ends, Malformed
<1>4. CASE ~UNCHANGED <<os, told>>
  <2>1. readback_file(fd) # NULL /\ os[readback_file(fd)] # NULL
    BY <1>3, <1>4
  <2>2. fd \in Fd
    BY <2>1, NoFile, FilesAssumption
  <2>3. readback_file(fd) \in Std \cup Stream
    BY <2>1, <2>2, Readback DEF FilesInv
  <2>4. PICK sets \in SUBSET BOOLEAN : Fails(fd, sets)
    BY <1>3, <1>4
  <2>5. PICK e \in BOOLEAN :
          /\ os' = IF e THEN [os EXCEPT ![readback_file(fd)].err = TRUE] ELSE os
          /\ told' = [told EXCEPT ![fd].err = TRUE]
    BY <2>4 DEF Fails
  <2>. QED
    BY <1>1, <2>1, <2>2, <2>3, <2>5, FailsFiles
<1>. QED
  BY <1>2, <1>4

LEMMA OpenStep ==
  ASSUME FilesInv, NEW f \in File, io_open(f)
  PROVE  FilesInv'
<1>1. CASE UNCHANGED <<FILE_POINTERS, os, told>>
  BY <1>1, KeepsFiles DEF io_open
<1>2. CASE ~UNCHANGED <<FILE_POINTERS, os, told>>
  <2>1. PICK fd \in FirstOf(FreeFds), s \in {x \in Stream : os[x] = NULL} :
          /\ FILE_POINTERS' = [FILE_POINTERS EXCEPT ![fd] = s]
          /\ os' = [os EXCEPT ![s] = Opened(f)]
          /\ told' = [told EXCEPT ![fd] = Opened(f)]
    BY <1>2 DEF io_open
  <2>2. fd \in Fd \ Std /\ FILE_POINTERS[fd] = NULL
    BY DEF FirstOf, FreeFds
  <2>. QED
    BY <2>1, <2>2, OpensFiles DEF io_open
<1>. QED
  BY <1>1, <1>2

LEMMA CloseStep ==
  ASSUME FilesInv, NEW fd \in Used \cup {Nan}, io_close(fd)
  PROVE  FilesInv'
<1>1. CASE readback_file(fd) = NULL
  BY <1>1, KeepsFiles DEF io_close
<1>2. CASE readback_file(fd) # NULL
  <2>1. fd \in Fd
    BY <1>2, NoFile, FilesAssumption
  <2>2. readback_file(fd) \in Std \cup Stream
    BY <1>2, <2>1, Readback DEF FilesInv
  <2>. QED
    BY <1>2, <2>1, <2>2, ClosesFiles, LosesFiles DEF io_close
<1>. QED
  BY <1>1, <1>2

LEMMA NextFiles == FilesInv /\ [Next]_vars => FilesInv'
<1> SUFFICES ASSUME FilesInv, [Next]_vars PROVE FilesInv'
  OBVIOUS
<1>1. CASE UNCHANGED vars
  BY <1>1, KeepsFiles DEF vars
<1>2. ASSUME NEW fd \in Used \cup {Nan},
             \/ io_read(fd) \/ io_close(fd) \/ io_flush(fd) \/ io_write(fd)
             \/ \E whence \in 0 .. 3 : io_seek(fd, whence)
      PROVE  FilesInv'
  BY <1>2, OnFileStep, CloseStep
<1>3. ASSUME NEW f \in File, io_open(f)
      PROVE  FilesInv'
  BY <1>3, OpenStep
<1>4. ASSUME \/ \E t \in Times : io_get_time(t) \/ io_sleep(Parts(t)[1], Parts(t)[2])
             \/ \E lib \in Lib : io_dl_open(lib)
             \/ \E h \in Handle \cup {Nan} : io_dl_call(h) \/ DL_CLOSE(h)
             \/ Malformed
      PROVE  FilesInv'
  <2>1. UNCHANGED <<FILE_POINTERS, os, told, failed>>
    BY <1>4 DEF io_get_time, io_sleep, io_dl_open, io_dl_call, DL_CLOSE, Malformed
  <2>. QED
    BY <2>1, KeepsFiles
<1>. QED
  BY <1>1, <1>2, <1>3, <1>4 DEF Next, book_init

LEMMA InvAgrees == FilesInv => FilesAgree
<1> SUFFICES ASSUME FilesInv, ~failed PROVE FilesAgree
  BY DEF FilesAgree
<1>1. Shape /\ Owned /\ \A fd \in Fd : Agrees(fd)
  BY DEF FilesInv
<1>2. ASSUME NEW fd \in Fd
      PROVE  IF told[fd] = NULL THEN fd \in Std \/ readback_file(fd) = NULL
             ELSE /\ readback_file(fd) # NULL /\ os[readback_file(fd)] # NULL
                  /\ os[readback_file(fd)].file = told[fd].file
                  /\ os[readback_file(fd)].err => told[fd].err
  BY <1>1, Readback DEF Agrees
<1>3. ASSUME NEW s \in Std \cup Stream, os[s] # NULL
      PROVE  \E fd \in Fd : \A fe \in Fd : readback_file(fe) = s <=> fe = fd
  <2>1. PICK fd \in Fd : readback_file(fd) = s
    BY <1>1, <1>3, Descriptors, Readback DEF Owned, Shape
  <2>2. \A fe \in Fd : fe # fd => readback_file(fe) # s
    BY <1>1, <2>1, Descriptors, Apart
  <2>. QED
    BY <2>1, <2>2
<1>. QED
  BY <1>2, <1>3 DEF FilesAgree

\* For tables of any size and whatever the operating system answers: until an
\* fclose fails, a descriptor the program holds has a stream of its own, open on
\* the file it was opened with, and no stream is open without one.
THEOREM DescriptorsAgree == Spec => []FilesAgree
BY InitFiles, NextFiles, InvAgrees, PTL DEF Spec

-----------------------------------------------------------------------------
(* The clock.                                                              *)

\* The low bits of a number that has been cut to more bits are its own.
LEMMA LowBits ==
  ASSUME NEW d \in Nat \ {0}, NEW k \in Nat \ {0}, NEW n \in Nat
  PROVE  (n % (d * k)) % d = n % d
<1>1. PICK m \in Nat \ {0} : m = d * k
  OBVIOUS
<1>2. PICK p \in Nat, s \in 0 .. m - 1 : n % m = s /\ n = m * p + s
  BY Division, Zenon
<1>3. PICK q \in Nat, r \in 0 .. d - 1 : s % d = r /\ s = d * q + r
  <2>. s \in Nat
    OBVIOUS
  <2>. QED
    BY Division, ZenonT(40)
<1>4. PICK c \in Nat : c = k * p + q
  OBVIOUS
<1>5. n = d * c + r
  <2>1. m * p = d * (k * p)
    BY <1>1
  <2>2. d * c = d * (k * p) + d * q
    BY <1>4
  <2>. QED
    BY <1>2, <1>3, <2>1, <2>2
<1>6. n % d = r
  BY <1>5, DivisionUnique
<1>. QED
  BY <1>1, <1>2, <1>3, <1>6

\* The low digit and the next one make the number of the two.
LEMMA TwoDigits ==
  ASSUME NEW d \in Nat \ {0}, NEW n \in Nat
  PROVE  ((n \div d) % d) * d + (n % d) = n % (d * d)
<1>1. PICK q \in Nat, r \in 0 .. d - 1 : n \div d = q /\ n % d = r /\ n = d * q + r
  BY Division
<1>2. PICK h \in Nat, l \in 0 .. d - 1 : q % d = l /\ q = d * h + l
  BY Division
<1>3. PICK m \in Nat \ {0} : m = d * d
  OBVIOUS
<1>4. PICK s \in Nat : s = d * l + r
  OBVIOUS
<1>5. s \in 0 .. m - 1
  <2>1. PICK j \in Nat : d = l + 1 + j
    <3>1. d - 1 - l \in Nat /\ d = l + 1 + (d - 1 - l)
      OBVIOUS
    <3>. QED
      BY <3>1
  <2>2. d * d = d * l + d + d * j /\ d * j \in Nat
    BY <2>1
  <2>. QED
    BY <1>3, <1>4, <2>2
<1>6. n = m * h + s
  <2>1. d * q = d * (d * h) + d * l
    BY <1>2
  <2>2. d * (d * h) = m * h
    BY <1>3
  <2>. QED
    BY <1>1, <1>4, <2>1, <2>2
<1>7. n % m = s
  BY <1>5, <1>6, DivisionUnique
<1>8. l * d = d * l
  OBVIOUS
<1>. QED
  BY <1>1, <1>2, <1>3, <1>4, <1>7, <1>8

\* The parts of a time make its 2 * W low bits.
LEMMA PartsMake ==
  ASSUME NEW t \in Nat
  PROVE  Parts(t)[1] * 2^W + Parts(t)[2] = t % 2^(2 * W)
<1>1. PICK P \in Nat \ {0} : P = 2^W
  BY Powers, FilesAssumption
<1>2. PICK N \in Nat \ {0} : N = 2^4
  BY Powers
<1>3. 2^(W + 4) = P * N
  BY <1>1, <1>2, PowerSum, FilesAssumption
<1>4. 2^(2 * W) = P * P
  <2>1. 2^(W + W) = P * P
    BY <1>1, PowerSum, FilesAssumption
  <2>2. 2 * W = W + W
    BY FilesAssumption
  <2>. QED
    BY <2>1, <2>2
<1>5. PICK q \in Nat : q = t \div P
  BY Division
<1>6. (q % (P * N)) % P = q % P /\ (t % (P * N)) % P = t % P
  BY LowBits
<1>7. Parts(t)[1] = q % P /\ Parts(t)[2] = t % P
  BY <1>1, <1>3, <1>5, <1>6, Zenon DEF Parts, Num
<1>8. ((t \div P) % P) * P + (t % P) = t % (P * P)
  BY TwoDigits
<1>. QED
  BY <1>1, <1>4, <1>5, <1>7, <1>8

\* A time is answered with its parts, by the one function that answers a time.
TimeTold == answer.res = "time" =>
              \E t \in Nat : answer.val = [now |-> t, parts |-> Parts(t)]

LEMMA NextTime == TimeTold /\ [Next]_vars => TimeTold'
<1> SUFFICES ASSUME TimeTold, [Next]_vars PROVE TimeTold'
  OBVIOUS
<1>1. CASE UNCHANGED vars
  BY <1>1 DEF vars, TimeTold
<1>2. ASSUME NEW t \in Times, io_get_time(t) PROVE TimeTold'
  BY <1>2, FilesAssumption DEF io_get_time, TimeTold
<1>3. ASSUME NEW fd \in Used \cup {Nan},
             \/ io_read(fd) \/ io_close(fd) \/ io_flush(fd) \/ io_write(fd)
             \/ \E whence \in 0 .. 3 : io_seek(fd, whence)
      PROVE  answer'.res # "time"
  BY <1>3 DEF io_read, io_close, io_flush, io_write, io_seek, OnFile, Undefined, Ends,
              Fails, Malformed, OK, Err
<1>4. ASSUME NEW f \in File, io_open(f) PROVE answer'.res # "time"
  BY <1>4 DEF io_open, OK, Err
<1>5. ASSUME NEW t \in Times, io_sleep(Parts(t)[1], Parts(t)[2])
      PROVE  answer'.res # "time"
  BY <1>5 DEF io_sleep, OK
<1>6. ASSUME NEW lib, io_dl_open(lib) PROVE answer'.res # "time"
  BY <1>6 DEF io_dl_open, OK, Err
<1>7. ASSUME NEW h, io_dl_call(h) \/ DL_CLOSE(h) PROVE answer'.res # "time"
  BY <1>6, <1>7 DEF io_dl_call, DL_CLOSE, OK, Err
<1>8. CASE Malformed
  BY <1>8 DEF Malformed, Err, TimeTold
<1>. QED
  BY <1>1, <1>2, <1>3, <1>4, <1>5, <1>6, <1>7, <1>8 DEF Next, book_init, TimeTold

\* Whatever the width of a number and the time of the clock, the two parts that
\* io_get_time answers are the time's 2 * W low bits (run.c:597-598), though each
\* is first cut to W + 4 bits and then to the W that a port keeps.
THEOREM ClockPartsAgree == Spec => []ClockParts
<1>1. Init => TimeTold
  BY DEF Init, TimeTold
<1>2. TimeTold /\ [Next]_vars => TimeTold'
  BY NextTime
<1>3. TimeTold => ClockParts
  <2>. SUFFICES ASSUME NEW t \in Nat, answer.val = [now |-> t, parts |-> Parts(t)]
                PROVE  answer.val.parts[1] * 2^W + answer.val.parts[2]
                         = answer.val.now % 2^(2 * W)
    BY DEF TimeTold, ClockParts
  <2>1. answer.val.now = t /\ answer.val.parts = Parts(t)
    OBVIOUS
  <2>. QED
    BY <2>1, PartsMake, Zenon
<1>. QED
  BY <1>1, <1>2, <1>3, PTL DEF Spec
=============================================================================
