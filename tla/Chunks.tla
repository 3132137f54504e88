------------------------------- MODULE Chunks -------------------------------
(***************************************************************************)
(* data_availability_layer.rs: records of data chunks in numbered slots,   *)
(* each with a checksum of its size and its number.  The slots are storage *)
(* keys "c0" to "c15".                                                     *)
(***************************************************************************)
EXTENDS Integers, FiniteSets

CONSTANTS MaxChunks,     \* MAX_CHUNKS, 16 in the code
          MaxChunkSize,  \* MAX_CHUNK_SIZE, 256 in the code
          ChunkSizes,    \* sizes chunks are stored with, refused ones included
          WordBits       \* 32: sizes, indices and checksums are u32

ASSUME ChunksAssumption ==
  /\ {MaxChunks, MaxChunkSize, WordBits} \subseteq Nat /\ ChunkSizes \subseteq Nat

\* Shifts(x)[n] is x without its n lowest bits.
Shifts(x) ==
  LET shifted[n \in 0..WordBits] == IF n = 0 THEN x ELSE shifted[n-1] \div 2
  IN  shifted

\* The exclusive or of two words, from the highest bit down.
Xor(x, y) ==
  LET bits[n \in 0..WordBits] ==
        IF n = 0 THEN 0
        ELSE (2 * bits[n-1]) + ((Shifts(x)[WordBits - n] + Shifts(y)[WordBits - n]) % 2)
  IN  bits[WordBits]

\* The numbers in use fit a word.
ASSUME WordAssumption ==
  Shifts(MaxChunks)[WordBits] = 0 /\ Shifts(MaxChunkSize)[WordBits] = 0

\* chunk_storage_key, which panics on any other index
ChunkKey(index) == <<"c", index>>
ChunkKeys == {ChunkKey(i) : i \in 0..MaxChunks - 1}

\* struct DataChunk
DataChunk == [index : Nat, size : Nat, checksum : Nat]

VARIABLES chunks,   \* the stored chunks: a function from the keys in use
          announced \* history: what store_chunk returned for each index since
                    \* the last clear
chunksVars == <<chunks, announced>>

ChunksInit == chunks = << >> /\ announced = {}
-----------------------------------------------------------------------------
\* get_chunk finds one.
HasChunk(index) == index < MaxChunks /\ ChunkKey(index) \in DOMAIN chunks

\* chunk_count
ChunkCount == Cardinality({i \in 0..MaxChunks - 1 : HasChunk(i)})

\* store_chunk; a chunk of the same index is replaced.
StoreChunk(index, size) ==
  LET chunk == [index |-> index, size |-> size, checksum |-> Xor(size, index)] IN
  /\ size <= MaxChunkSize
  /\ index < MaxChunks
  /\ chunks' = [k \in DOMAIN chunks \cup {ChunkKey(index)} |->
                  IF k = ChunkKey(index) THEN chunk ELSE chunks[k]]
  /\ announced' = {c \in announced : c.index # index} \cup {chunk}

\* clear_chunks
ClearChunks ==
  /\ chunks' = [k \in DOMAIN chunks \ ChunkKeys |-> chunks[k]]
  /\ announced' = {}

ChunksNext ==
  \/ \E i \in 0..MaxChunks, size \in ChunkSizes : StoreChunk(i, size)
  \/ ClearChunks

ChunksSpec == ChunksInit /\ [][ChunksNext]_chunksVars
-----------------------------------------------------------------------------
\* The slots hold exactly what store_chunk announced since they were cleared,
\* one chunk per index, each with the checksum that its own index and size
\* reproduce.
ChunksTypeOK ==
  /\ {chunks[k] : k \in DOMAIN chunks} = announced /\ announced \subseteq DataChunk
  /\ ChunkCount = Cardinality(announced) /\ ChunkCount <= MaxChunks
  /\ \A c \in announced : c.size <= MaxChunkSize /\ Xor(c.checksum, c.index) = c.size
=============================================================================
