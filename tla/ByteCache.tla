----------------------------- MODULE ByteCache -----------------------------
(***************************************************************************)
(* The byte cache in front of an object store: readers fetch the chunks    *)
(* their range needs and that have no file yet, write each to a temporary  *)
(* file, rename it, and then read the range from the chunk files, while    *)
(* others do the same and the server crashes and comes back to the         *)
(* directory it left.                                                      *)
(***************************************************************************)
EXTENDS Integers, Sequences, SequencesExt, FiniteSetsExt

CONSTANTS Locations,        \* the objects' paths, sequences of characters
          FileSize,         \* of every object
          CacheBlockSize,   \* CACHE_BLOCK_SIZE
          Readers,
          Requests,         \* the GetOptions of the readers' calls
          MaxBadEvents      \* bounds crashes and failures of the inner store

ASSUME ByteCacheAssumption ==
  FileSize \in Nat /\ CacheBlockSize \in Nat \ {0} /\ MaxBadEvents \in Nat

VARIABLES chunks,           \* chunk files by name
          temps,            \* temporary files left in the directory, by writer
          reader,           \* what each reader does
          bad

cacheVars == <<chunks, temps, reader, bad>>

ByteAt(location, position) == <<location, position>>    \* what the inner store holds
Bytes(location, from, to) == [i \in 1 .. to - from |-> ByteAt(location, from + i - 1)]

\* The name of a chunk's file: "/" is not used in directory names, and paths that
\* differ in nothing else than "/" and "_" are not told apart.
GetCacheDirForPath(location) == [i \in DOMAIN location |-> IF location[i] = "/" THEN "_" ELSE location[i]]
GetChunkPath(location, index) == <<GetCacheDirForPath(location), index>>

\* Ranges are <<start, end>>, the end exclusive.
ChunksForRange(range) == (range[1] \div CacheBlockSize) .. ((range[2] - 1) \div CacheBlockSize)

\* GetRange: bounded by the caller, a suffix, an offset, or the whole object.
RangeOf(options) ==
  CASE options.kind = "Bounded" -> <<options.from, options.to>>
    [] options.kind = "Suffix"  -> <<Max({FileSize - options.from, 0}), FileSize>>
    [] options.kind = "Offset"  -> <<options.from, FileSize>>
    [] options.kind = "None"    -> <<0, FileSize>>

ASSUME RequestsAssumption ==
  /\ \A options \in Requests : RangeOf(options) \in Nat \X Nat
  /\ \A l, m \in Locations : GetCacheDirForPath(l) = GetCacheDirForPath(m) => l = m

NoReader == [at |-> "idle", location |-> <<>>, range |-> <<0, 0>>, todo |-> {}, data |-> <<>>, out |-> <<>>]

CacheInit ==
  /\ chunks = [name \in {} |-> <<>>]
  /\ temps = [r \in Readers |-> <<>>]
  /\ reader = [r \in Readers |-> NoReader]
  /\ bad = 0

IsChunkReady(name) == name \in DOMAIN chunks
\* The chunks of a range, and the missing ones of them, are taken from the first on.
FirstChunk(todo) == Min(todo)
LaterChunks(todo) == todo \ {FirstChunk(todo)}
NotReading == {"idle", "done", "failed", "short"}
ReaderAt(r, place) == reader[r].at = place
Update(r, record) == reader' = [reader EXCEPT ![r] = record]

-----------------------------------------------------------------------------
\* get_opts: the head gives the size, and the chunks without a file are noted.
GetOpts(r, location, options) ==
  LET range == RangeOf(options)
      missing == {c \in ChunksForRange(range) : ~IsChunkReady(GetChunkPath(location, c))}
  IN  /\ reader[r].at \in NotReading
      /\ range[1] < range[2]
      /\ Update(r, [NoReader EXCEPT !.at = "fetch", !.location = location, !.range = range,
                                    !.todo = missing])
      /\ UNCHANGED <<chunks, temps, bad>>

\* The next missing chunk from the inner store, which refuses a range that starts
\* behind the end; with none left, the stream begins.
FetchChunk(r) ==
  LET me == reader[r]
      from == FirstChunk(me.todo) * CacheBlockSize
  IN  /\ ReaderAt(r, "fetch")
      /\ Update(r, IF me.todo = {}
                   THEN [me EXCEPT !.at = "read", !.todo = ChunksForRange(me.range)]
                   ELSE IF from >= FileSize THEN [NoReader EXCEPT !.at = "failed"]
                   ELSE [me EXCEPT !.at = "create",
                           !.data = Bytes(me.location, from, Min({from + CacheBlockSize, FileSize}))])
      /\ UNCHANGED <<chunks, temps, bad>>

\* save_chunk: the temporary file is created and written,
CreateTemp(r) ==
  /\ ReaderAt(r, "create")
  /\ temps' = [temps EXCEPT ![r] = <<>>]
  /\ Update(r, [reader[r] EXCEPT !.at = "write"])
  /\ UNCHANGED <<chunks, bad>>

\* A chunk that is written in place.
WriteInPlace(r) ==
  LET name == GetChunkPath(reader[r].location, FirstChunk(reader[r].todo))
      half == SubSeq(reader[r].data, 1, Len(reader[r].data) \div 2)
  IN  /\ ReaderAt(r, "write")
      /\ chunks' = [n \in DOMAIN chunks \union {name} |-> IF n = name THEN half ELSE chunks[n]]
      /\ temps' = [temps EXCEPT ![r] = reader[r].data]
      /\ Update(r, [reader[r] EXCEPT !.at = "rename"])
      /\ UNCHANGED bad

WriteTemp(r) ==
  /\ ReaderAt(r, "write")
  /\ temps' = [temps EXCEPT ![r] = reader[r].data]
  /\ Update(r, [reader[r] EXCEPT !.at = "rename"])
  /\ UNCHANGED <<chunks, bad>>

\* and renamed, over the file of another writer if there is one.
Rename(r) ==
  LET me == reader[r]
      name == GetChunkPath(me.location, FirstChunk(me.todo))
  IN  /\ ReaderAt(r, "rename")
      /\ chunks' = [n \in DOMAIN chunks \union {name} |-> IF n = name THEN temps[r] ELSE chunks[n]]
      /\ temps' = [temps EXCEPT ![r] = <<>>]
      /\ Update(r, [me EXCEPT !.at = "fetch", !.todo = LaterChunks(@), !.data = <<>>])
      /\ UNCHANGED bad

\* get_range_from_cache_stream: the part of the range in each chunk; read_exact
\* fails at the end of a chunk file.
ReadFromCachedChunk(r) ==
  LET me == reader[r]
      start == FirstChunk(me.todo) * CacheBlockSize
      from == Max({start, me.range[1]}) - start
      to == Min({start + CacheBlockSize, me.range[2]}) - start
      content == chunks[GetChunkPath(me.location, FirstChunk(me.todo))]
  IN  /\ ReaderAt(r, "read")
      /\ Update(r, IF me.todo = {} THEN [me EXCEPT !.at = "done"]
                   ELSE IF to > Len(content) THEN [me EXCEPT !.at = "short"]
                   ELSE [me EXCEPT !.todo = LaterChunks(@), !.out = @ \o SubSeq(content, from + 1, to)])
      /\ UNCHANGED <<chunks, temps, bad>>

\* PrefetchFromObjectStore only wants the chunks filled; other readers drop the
\* stream before its end.
Discard(r) == ReaderAt(r, "read") /\ Update(r, NoReader) /\ UNCHANGED <<chunks, temps, bad>>

BadEvent == bad < MaxBadEvents /\ bad' = bad + 1

\* The inner store, the disk or the connection fails.
ReadFails(r) ==
  /\ BadEvent /\ reader[r].at \notin NotReading
  /\ Update(r, [NoReader EXCEPT !.at = "failed"])
  /\ UNCHANGED <<chunks, temps>>

\* "ByteCache can read from a previously initialized cache directory"
Crash ==
  /\ BadEvent
  /\ reader' = [r \in Readers |-> NoReader]
  /\ UNCHANGED <<chunks, temps>>

ReaderStep(r) ==
  FetchChunk(r) \/ CreateTemp(r) \/ WriteTemp(r) \/ Rename(r) \/ ReadFromCachedChunk(r)
CacheNext ==
  \/ Crash
  \/ \E r \in Readers :
       \/ ReaderStep(r) \/ Discard(r) \/ ReadFails(r)
       \/ \E location \in Locations, options \in Requests : GetOpts(r, location, options)
CacheSpec == CacheInit /\ [][CacheNext]_cacheVars

-----------------------------------------------------------------------------
\* What a reader has got is the beginning of its range of its own object, and all
\* of it when it is done; and a chunk file is too short for it only if the range
\* goes beyond the object, although chunks are written by several readers at once
\* and a crash leaves temporary files behind.
ReadsItsObject ==
  \A r \in Readers :
    LET me == reader[r]
        wanted == Bytes(me.location, me.range[1], me.range[2])
    IN  /\ IsPrefix(me.out, wanted)
        /\ ReaderAt(r, "done") => me.out = wanted
        /\ ReaderAt(r, "short") => me.range[2] > FileSize
=============================================================================
