---------------------------- MODULE VerifiedStore ----------------------------
(***************************************************************************)
(* What the download half of a shared file promises the half that uploads  *)
(* it, without its queues, timers and transfers: a file that is written    *)
(* block by block, and a set of chunks known to be right in it.  A chunk   *)
(* enters the set when its bytes are found right, nothing is written to it *)
(* from then on, and opening the file again finds the same chunks or more. *)
(***************************************************************************)
EXTENDS ChunkTable

VARIABLES
    file,  \* the blocks of each chunk that hold the right bytes
    have   \* the chunks known to be right

store == <<file, have>>

\* Opening the file: every chunk in it is hashed.
Init ==
    /\ file \in [Chunks -> SUBSET (0 .. BlocksPerChunk - 1)]
    /\ have = Verified(file)

\* One block of a chunk that is not known to be right is written, with the right
\* bytes or not; the chunk may then be hashed, and is known if it is right.
Write(i, b) ==
    /\ i \notin have
    /\ \E blocks \in {file[i] \cup {b}, file[i] \ {b}} :
          file' = [file EXCEPT ![i] = blocks]
    /\ \/ have' = have
       \/ i \in Verified(file') /\ have' = have \cup {i}

\* The file is closed at any time and opened again.
Reopen ==
    /\ have' = Verified(file)
    /\ UNCHANGED file

Next ==
    \/ \E i \in Chunks : \E b \in Blocks(i) : Write(i, b)
    \/ Reopen

Spec == Init /\ [][Next]_store
=============================================================================
