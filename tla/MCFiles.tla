------------------------------ MODULE MCFiles -------------------------------
(***************************************************************************)
(* Files on two descriptors, three addresses of streams and two handles.   *)
(***************************************************************************)
EXTENDS Files, TLC

\* Streams, and files, are interchangeable.
Symmetric == Permutations(Stream) \cup Permutations(File)
=============================================================================
