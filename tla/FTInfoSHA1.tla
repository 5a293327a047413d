----------------------------- MODULE FTInfoSHA1 -----------------------------
(***************************************************************************)
(* FTInfoSHA1 (src/src/ft_sha1_info.cpp): the name, the size and the chunk *)
(* hashes of a file, how they are laid out as the bytes that are sent and  *)
(* hashed, and which bytes of the file each chunk is made of.              *)
(*                                                                         *)
(* A file, a name and a buffer are sequences of bytes.  The hash of some   *)
(* bytes is those bytes themselves, cut into HashField parts: it differs   *)
(* for different bytes, and nothing else of SHA1 is used.                  *)
(***************************************************************************)
EXTENDS Integers, Sequences, SequencesExt

CONSTANTS
    Base,        \* 256, the values of a byte of a number
    NameField,   \* 256, the bytes a name takes in the buffer
    SizeField,   \* 8, those of file_size
    ChunkField,  \* 4, those of chunk_size
    HashField,   \* 20, those of a hash
    ChunkBytes,  \* 128 KiB, the chunk_size of a new info
    HashPiece    \* 0xffffffff, the bytes the SHA1 library takes at once

\* Base to the k, what a digit is worth that has k digits before it.
Power[k \in Nat] == IF k = 0 THEN 1 ELSE Base * Power[k - 1]

ASSUME InfoAssumption ==
    /\ Base \in Nat \ {0, 1}
    /\ {NameField, SizeField, ChunkField, HashField, ChunkBytes, HashPiece} \subseteq Nat \ {0}
    /\ ChunkBytes < Power[ChunkField]

\* The bytes of s from offset (counted from 0), at most n of them.
Slice(s, offset, n) ==
    SubSeq(s, offset + 1, IF offset + n < Len(s) THEN offset + n ELSE Len(s))

\* How often a loop "for (i = 0; i + n < length; i += n)" is entered.
FullPieces(length, n) == (length - 1) \div n

\* What SHA1Update is fed by hash_sha1, piece by piece.
Hashed(s) ==
    FlattenSeq([k \in 1 .. FullPieces(Len(s), HashPiece) + 1 |->
                   Slice(s, (k - 1) * HashPiece, HashPiece)])

Hash(s) == [part \in 1 .. HashField |-> <<part, Hashed(s)>>]

\* States::SHA1::chunkSize(chunk_index), in bytes; its file_offset; and the bytes of
\* the chunk c in the file f.
ChunkLength(info, c) ==
    IF c + 1 = Len(info.chunks) THEN info.file_size - c * info.chunk_size ELSE info.chunk_size

FileOffset(info, c) == c * info.chunk_size

ChunkOf(info, f, c) == Slice(f, FileOffset(info, c), ChunkLength(info, c))

Indices(info) == 0 .. Len(info.chunks) - 1
-----------------------------------------------------------------------------
(* The buffer.                                                             *)

\* A number, least significant byte first.
Digits(n, field) == [k \in 1 .. field |-> (n \div Power[k - 1]) % Base]

\* Faulty: the most significant byte first.
NumberSwapped(digits) ==
    FoldFunction(+, 0, [k \in DOMAIN digits |-> digits[k] * Power[Len(digits) - k]])

\* The number that was cut into digits.
Number(digits) ==
    FoldFunction(+, 0, [k \in DOMAIN digits |-> digits[k] * Power[k - 1]])

\* toBuffer()
ToBuffer(info) ==
    [k \in 1 .. NameField |-> IF k <= Len(info.file_name) THEN info.file_name[k] ELSE 0]
        \o Digits(info.file_size, SizeField)
        \o Digits(info.chunk_size, ChunkField)
        \o FlattenSeq(info.chunks)

\* The name ends before the first zero, or with its field.
NameLength(buffer) ==
    LET zero == SelectInSeq(SubSeq(buffer, 1, NameField), LAMBDA byte : byte = 0)
    IN  IF zero = 0 THEN NameField ELSE zero - 1

\* fromBuffer()
FromBuffer(buffer) ==
    LET header == NameField + SizeField + ChunkField
    IN  [file_name  |-> SubSeq(buffer, 1, NameLength(buffer)),
         file_size  |-> Number(Slice(buffer, NameField, SizeField)),
         chunk_size |-> Number(Slice(buffer, NameField + SizeField, ChunkField)),
         chunks     |-> [k \in 1 .. (Len(buffer) - header) \div HashField |->
                            Slice(buffer, header + (k - 1) * HashField, HashField)]]
=============================================================================
