----------------------------- MODULE SharedFile -----------------------------
(***************************************************************************)
(* How a file gets from the disk of its sender to the disk of a receiver:  *)
(* States::SendStartSHA1 cuts it into chunks and hashes them, the info     *)
(* travels as a buffer, ReceiveStartSHA1::nextState opens the file of that *)
(* name and looks for chunks that are right in it already, and the data    *)
(* callbacks of States::SHA1 read and write each chunk at its place.       *)
(*                                                                         *)
(* How the info and the chunks travel, in which order and how often, is    *)
(* left to the modules of those states.                                    *)
(***************************************************************************)
EXTENDS FTInfoSHA1

CONSTANTS
    Names,     \* names of files
    Contents   \* contents of files

ASSUME SharedFileAssumption ==
    /\ \A name \in Names :
          name \in Seq(1 .. Base - 1) \ {<<>>} /\ Len(name) <= NameField  \* no zero in it
    /\ \A f \in Contents : f \in Seq(0 .. Base - 1) /\ Len(f) < Power[SizeField]

VARIABLES
    stage,     \* "idle"; "hashing" and then "shared" at the sender; "checking" and
               \* then "receiving" at a receiver
    original,  \* the sender's file, its name and its bytes
    info,      \* _sha1_info
    offset,    \* i, and f_i
    disk,      \* the bytes of the file this program has mapped
    have       \* have_chunk: the indices whose flag is set

sharing == <<stage, original, info, offset, disk, have>>

NewInfo(name, f) ==
    [file_name |-> name, file_size |-> Len(f), chunk_size |-> ChunkBytes, chunks |-> <<>>]

\* What another program, which shares the file f, has put into the buffer.
InfoOf(name, f) ==
    [NewInfo(name, f) EXCEPT !.chunks =
        [k \in 1 .. FullPieces(Len(f), ChunkBytes) + 1 |->
            Hash(Slice(f, (k - 1) * ChunkBytes, ChunkBytes))]]

FileInit ==
    /\ stage = "idle"
    /\ original = [name |-> <<>>, bytes |-> <<>>]
    /\ info = NewInfo(<<>>, <<>>)
    /\ offset = 0 /\ disk = <<>> /\ have = {}
-----------------------------------------------------------------------------
(* The sender.                                                             *)

\* SendStartSHA1::SendStartSHA1 up to its loops; an empty file cannot be mapped, and
\* fails the assertion there.
SendStart(name, f) ==
    /\ f # <<>>
    /\ stage' = "hashing"
    /\ original' = [name |-> name, bytes |-> f]
    /\ info' = NewInfo(name, f)
    /\ disk' = f /\ offset' = 0 /\ have' = {}

\* The condition of the loops over the full chunks of a file.
InFull == offset + info.chunk_size < Len(disk)

\* The bytes of a full chunk, and what is left after the last one.
FullChunk == Slice(disk, offset, info.chunk_size)

Rest == Slice(disk, offset, Len(disk) - offset)

HashFull ==
    /\ stage = "hashing" /\ InFull
    /\ info' = [info EXCEPT !.chunks = Append(@, Hash(FullChunk))]
    /\ offset' = offset + info.chunk_size
    /\ UNCHANGED <<stage, original, disk, have>>

\* Faulty: full chunks only.
HashNoRest ==
    /\ stage = "hashing" /\ ~InFull
    /\ stage' = "shared"
    /\ have' = Indices(info)
    /\ UNCHANGED <<original, info, offset, disk>>

\* The last chunk, and the switch to States::SHA1 with every flag set.
HashRest ==
    /\ stage = "hashing" /\ ~InFull
    /\ info' = IF offset < Len(disk) THEN [info EXCEPT !.chunks = Append(@, Hash(Rest))]
               ELSE info
    /\ stage' = "shared"
    /\ have' = Indices(info')
    /\ UNCHANGED <<original, offset, disk>>
-----------------------------------------------------------------------------
(* The receiver.                                                           *)

\* resize_file: cut off, or filled up with zeros.
Resized(f, length) == [k \in 1 .. length |-> IF k <= Len(f) THEN f[k] ELSE 0]

\* nextState up to its loop: the info comes out of the buffer, and the file, which
\* may be there already, is given its size.  A new file is not checked.
Open(name, f, existed, left) ==
    /\ f # <<>>
    /\ original' = [name |-> name, bytes |-> f]
    /\ info' = FromBuffer(ToBuffer(InfoOf(name, f)))
    /\ disk' = Resized(IF existed THEN left ELSE <<0>>, info'.file_size)
    /\ stage' = IF existed THEN "checking" ELSE "receiving"
    /\ offset' = 0 /\ have' = {}

\* c_i, which is counted along with f_i
Current == offset \div info.chunk_size

CheckFull ==
    /\ stage = "checking" /\ InFull
    /\ have' = have \cup {c \in {Current} : info.chunks[c + 1] = Hash(FullChunk)}
    /\ offset' = offset + info.chunk_size
    /\ UNCHANGED <<stage, original, info, disk>>

\* Faulty: the last chunk is read as if it were a full one.
CheckBackFull ==
    /\ stage = "checking" /\ ~InFull
    /\ have' = have \cup {c \in {Current} : info.chunks[c + 1] = Hash(FullChunk)
                                             /\ offset + info.chunk_size = Len(disk)}
    /\ stage' = "receiving"
    /\ UNCHANGED <<original, info, offset, disk>>

\* The rest is compared with chunks.back().
CheckRest ==
    /\ stage = "checking" /\ ~InFull
    /\ have' = IF offset < Len(disk) /\ info.chunks[Len(info.chunks)] = Hash(Rest)
               THEN have \cup {Len(info.chunks) - 1} ELSE have
    /\ stage' = "receiving"
    /\ UNCHANGED <<original, info, offset, disk>>

\* Only the first index of a hash is ever asked for.
FirstIndex(c) == \A k \in 0 .. c - 1 : info.chunks[k + 1] # info.chunks[c + 1]

\* Faulty: one byte too far.
OverwrittenTooFar(f, at, bytes) ==
    [k \in DOMAIN f |-> IF k - at - 1 \in DOMAIN bytes THEN bytes[k - at - 1] ELSE f[k]]

\* f with some bytes written at an offset.
Overwritten(f, at, bytes) ==
    [k \in DOMAIN f |-> IF k - at \in DOMAIN bytes THEN bytes[k - at] ELSE f[k]]

\* The first n bytes of chunk c arrive, as a peer reads them out of its own mapping,
\* or wrong; with its last byte the chunk is verified.
ReceiveChunk(c, n, right) ==
    /\ stage = "receiving"
    /\ c \notin have /\ FirstIndex(c)
    /\ LET sent  == Slice(original.bytes, FileOffset(info, c), n)
           bytes == IF right THEN sent ELSE [k \in DOMAIN sent |-> Base - 1 - sent[k]]
       IN  disk' = Overwritten(disk, FileOffset(info, c), bytes)
    /\ have' = IF n = ChunkLength(info, c) /\ Hash(ChunkOf(info, disk', c)) = info.chunks[c + 1]
               THEN have \cup {c} ELSE have
    /\ UNCHANGED <<stage, original, info, offset>>

\* The receiver is killed and started again; the info has been received again.
Reopen ==
    /\ stage \in {"checking", "receiving"}
    /\ stage' = "checking" /\ offset' = 0 /\ have' = {}
    /\ disk' = Resized(disk, info.file_size)
    /\ UNCHANGED <<original, info>>

Share ==
    \/ HashFull \/ HashRest
    \/ CheckFull \/ CheckRest
    \/ \E c \in Indices(info) : \E n \in 1 .. ChunkLength(info, c), right \in BOOLEAN :
          ReceiveChunk(c, n, right)
    \/ Reopen
-----------------------------------------------------------------------------
(* Properties.                                                             *)

FileTypeOK ==
    /\ stage \in {"idle", "hashing", "shared", "checking", "receiving"}
    /\ offset \in 0 .. Len(disk)
    /\ have \subseteq Indices(info)
    /\ stage \in {"checking", "receiving"} => Len(disk) = Len(original.bytes)

\* The chunks a sender has hashed, and those a receiver reads out of the buffer, are
\* the chunks States::SHA1 later reads and writes: each hash belongs to the bytes
\* that chunkSize and the file offset name, the chunks are not empty, none is longer
\* than chunk_size, and together they are the file.  This is what
\* ChunkTableAssumption says of the table (send_start_sha1.cpp 34-43,
\* ft_sha1_info.cpp 31-121, sha1.cpp 462, 568-575).
CutAsRead ==
    stage \in {"shared", "checking", "receiving"} =>
        /\ info.file_name = original.name
        /\ Indices(info) # {}
        /\ \A c \in Indices(info) :
              /\ ChunkLength(info, c) \in 1 .. ChunkBytes
              /\ info.chunks[c + 1] = Hash(ChunkOf(info, original.bytes, c))
        /\ FileOffset(info, Len(info.chunks) - 1) + ChunkLength(info, Len(info.chunks) - 1)
              = Len(original.bytes)

Right(c, f) == ChunkOf(info, f, c) = ChunkOf(info, original.bytes, c)

\* "dont overwrite correct existing data": whatever a file held before, cut off,
\* longer, or half written by a killed run, exactly the chunks that are right in it
\* are found (receive_start_sha1.cpp 87, 95-112).
FindsWhatIsRight ==
    [][stage = "checking" /\ stage' = "receiving" =>
          have' = {c \in Indices(info) : Right(c, disk)}]_sharing

\* When the receiver has every chunk its file is the sender's, byte for byte,
\* whatever was there before (receive_start_sha1.cpp 80-112, sha1.cpp 462-485).
FileComplete ==
    stage = "receiving" /\ have = Indices(info) => disk = original.bytes
=============================================================================
