----------------------------- MODULE ChunkTable -----------------------------
(***************************************************************************)
(* The chunk table of one FTInfoSHA1: which hash the chunk at each index   *)
(* has, how many data blocks the chunk is transferred in, and the lookup   *)
(* table _chunk_hash_to_index that States::SHA1 builds from it.            *)
(*                                                                         *)
(* A hash is an opaque value: two chunks have the same hash exactly when   *)
(* they have the same bytes.  A chunk travels in blocks; every chunk has   *)
(* BlocksPerChunk of them, except the last, which may be shorter.          *)
(***************************************************************************)
EXTENDS Integers, FiniteSets

CONSTANTS
    NumChunks,       \* _sha1_info.chunks.size()
    Hashes,          \* chunk hashes a peer of the group may name
    HashOf,          \* _sha1_info.chunks: the hash of the chunk at each index
    BlocksPerChunk,  \* blocks in a chunk of chunk_size bytes
    LastBlocks       \* blocks in the last chunk

Chunks == 0 .. NumChunks - 1

\* A shared file is never empty, so there is at least one chunk, and the last
\* one has at least one and at most BlocksPerChunk blocks.  Chunks with equal
\* bytes have equal sizes.
ASSUME ChunkTableAssumption ==
    /\ NumChunks \in Nat \ {0}
    /\ HashOf \in [Chunks -> Hashes]
    /\ BlocksPerChunk \in Nat \ {0}
    /\ LastBlocks \in 1 .. BlocksPerChunk
    /\ \A i \in Chunks : HashOf[i] = HashOf[NumChunks - 1] =>
          i = NumChunks - 1 \/ LastBlocks = BlocksPerChunk

\* Faulty: the constructor's loop stores its counter i, which is one too much.
ChunkIndexOffByOne(h) ==
    {i + 1 : i \in {k \in Chunks : HashOf[k] = h /\ \A j \in Chunks : HashOf[j] = h => k <= j}}

\* chunkIndex(hash), an std::optional<size_t>: the set that holds the first
\* index with that hash, empty when the hash is not one of this file.  The
\* constructor fills the table from the back, so the first index wins.
ChunkIndex(h) ==
    {i \in Chunks : HashOf[i] = h /\ \A j \in Chunks : HashOf[j] = h => i <= j}

\* The indices the lookup table can return: "the real index" of each hash.
RealIndices == {i \in Chunks : i \in ChunkIndex(HashOf[i])}

\* chunkSize(chunk_index), in blocks.
ChunkSize(i) == IF i + 1 = NumChunks THEN LastBlocks ELSE BlocksPerChunk

\* The blocks of the chunk at index i.
Blocks(i) == 0 .. ChunkSize(i) - 1

\* The indices whose bytes in the file f hash to the chunk's hash; f[i] is the set
\* of the blocks of chunk i that hold the right bytes.
Verified(f) == {i \in Chunks : f[i] = Blocks(i)}
=============================================================================
