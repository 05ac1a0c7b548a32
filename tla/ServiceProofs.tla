---------------------------- MODULE ServiceProofs ----------------------------
(***************************************************************************)
(* Readers of the byte cache get the bytes of their object, and consumers  *)
(* of a remote query the rows of their partition.                          *)
(***************************************************************************)
EXTENDS RemoteQuery, ByteCache, NumberTheorems

-----------------------------------------------------------------------------
(* Chunks and bytes                                                        *)

AnyByte == {ByteAt(l, i) : l \in Locations \union {<<>>}, i \in Nat}

\* Min and Max of two numbers.
LEMMA SmallerLarger ==
  ASSUME NEW a \in Int, NEW b \in Int
  PROVE  /\ Min({a, b}) = IF a <= b THEN a ELSE b
         /\ Max({a, b}) = IF a >= b THEN a ELSE b
  BY DEF Min, Max

\* The chunks of a range begin at or before its start and end at or behind its end.
LEMMA MultiplesOrdered ==
  ASSUME NEW b \in Nat, NEW k \in Nat, NEW q \in Nat, k <= q PROVE k * b <= q * b /\ k * b \in Nat
<1>1. (q - k) * b \in Nat /\ k * b \in Nat
  OBVIOUS
<1>2. q * b = k * b + (q - k) * b
  OBVIOUS
<1> QED BY <1>1, <1>2

\* A position lies within the block that it is divided into.
LEMMA DivisionBounds ==
  ASSUME NEW x \in Nat
  PROVE  /\ x \div CacheBlockSize \in Nat
         /\ (x \div CacheBlockSize) * CacheBlockSize <= x
         /\ x < (x \div CacheBlockSize + 1) * CacheBlockSize
<1>1. CacheBlockSize \in Nat \ {0}
  BY ByteCacheAssumption
<1>2. (x % CacheBlockSize) \in 0 .. CacheBlockSize - 1
  BY <1>1
<1>3. x \div CacheBlockSize \in Int /\ x = CacheBlockSize * (x \div CacheBlockSize) + (x % CacheBlockSize)
  BY <1>1
<1>4. x \div CacheBlockSize >= 0
  BY <1>1, <1>2, <1>3
<1>5. PICK q \in Nat : q = x \div CacheBlockSize
  BY <1>3, <1>4
<1>6. CacheBlockSize * q = q * CacheBlockSize /\ (q + 1) * CacheBlockSize = q * CacheBlockSize + CacheBlockSize
  BY <1>1
<1> QED BY <1>1, <1>2, <1>3, <1>5, <1>6

IsRange(range) == range \in Nat \X Nat /\ range[1] < range[2]
FirstOf(range) == range[1] \div CacheBlockSize
LastOf(range) == (range[2] - 1) \div CacheBlockSize

\* The chunks of a range run from the one of its first byte to the one of its
\* last.
LEMMA ChunkBounds ==
  ASSUME NEW range, IsRange(range)
  PROVE  /\ FirstOf(range) \in Nat /\ LastOf(range) \in Nat /\ FirstOf(range) <= LastOf(range)
         /\ ChunksForRange(range) = FirstOf(range) .. LastOf(range)
         /\ FirstOf(range) * CacheBlockSize <= range[1]
         /\ range[2] <= (LastOf(range) + 1) * CacheBlockSize
         /\ \A k \in ChunksForRange(range) :
              /\ k \in Nat /\ k * CacheBlockSize \in Nat
              /\ k * CacheBlockSize < range[2] /\ range[1] < (k + 1) * CacheBlockSize
              /\ (k + 1) * CacheBlockSize = k * CacheBlockSize + CacheBlockSize
<1>1. CacheBlockSize \in Nat \ {0} /\ range[1] \in Nat /\ range[2] \in Nat /\ range[1] < range[2]
  BY ByteCacheAssumption DEF IsRange
<1>2. PICK f \in Nat : f = FirstOf(range) /\ f * CacheBlockSize <= range[1] /\ range[1] < (f + 1) * CacheBlockSize
  BY <1>1, DivisionBounds DEF FirstOf
<1>3. PICK l \in Nat : l = LastOf(range) /\ l * CacheBlockSize <= range[2] - 1 /\ range[2] - 1 < (l + 1) * CacheBlockSize
  <2>1. range[2] - 1 \in Nat
    BY <1>1
  <2> QED BY <2>1, DivisionBounds DEF LastOf
<1>4. \A k \in Nat : k * CacheBlockSize \in Nat /\ (k + 1) * CacheBlockSize = k * CacheBlockSize + CacheBlockSize
  BY <1>1
<1>5. f <= l
  <2> SUFFICES ASSUME l + 1 <= f PROVE FALSE
    OBVIOUS
  <2>1. (l + 1) * CacheBlockSize <= f * CacheBlockSize
    BY <1>1, MultiplesOrdered
  <2> QED BY <2>1, <1>1, <1>2, <1>3, <1>4
<1>6. ASSUME NEW k \in f .. l
      PROVE  k * CacheBlockSize < range[2] /\ range[1] < (k + 1) * CacheBlockSize
  <2>1. k \in Nat /\ k * CacheBlockSize <= l * CacheBlockSize /\ f * CacheBlockSize <= k * CacheBlockSize
    BY <1>1, MultiplesOrdered
  <2> QED BY <2>1, <1>1, <1>2, <1>3, <1>4
<1>7. ChunksForRange(range) = f .. l
  BY <1>2, <1>3 DEF ChunksForRange, FirstOf, LastOf
<1>8. range[2] <= (l + 1) * CacheBlockSize
  BY <1>1, <1>3, <1>4
<1>9. \A k \in ChunksForRange(range) :
        /\ k \in Nat /\ k * CacheBlockSize \in Nat
        /\ k * CacheBlockSize < range[2] /\ range[1] < (k + 1) * CacheBlockSize
        /\ (k + 1) * CacheBlockSize = k * CacheBlockSize + CacheBlockSize
  <2>1. \A k \in f .. l : k \in Nat
    OBVIOUS
  <2> QED BY <2>1, <1>4, <1>6, <1>7
<1>10. FirstOf(range) = f /\ LastOf(range) = l
  BY <1>2, <1>3
<1> QED BY <1>2, <1>5, <1>7, <1>8, <1>9, <1>10

\* A function on 1 .. n is a sequence of length n.
LEMMA FunctionIsSeq ==
  ASSUME NEW S, NEW n \in Nat, NEW z \in [1 .. n -> S] PROVE z \in Seq(S) /\ Len(z) = n
  OBVIOUS

\* The bytes a .. b of an object, one by one.
LEMMA BytesAre ==
  ASSUME NEW l \in Locations \union {<<>>}, NEW a \in Nat, NEW b \in Nat, a <= b
  PROVE  /\ Bytes(l, a, b) \in Seq(AnyByte) /\ Len(Bytes(l, a, b)) = b - a
         /\ \A i \in 1 .. b - a : Bytes(l, a, b)[i] = ByteAt(l, a + i - 1)
<1>1. PICK n \in Nat : n = b - a
  OBVIOUS
<1>2. \A i \in 1 .. n : ByteAt(l, a + i - 1) \in AnyByte
  <2> SUFFICES ASSUME NEW i \in 1 .. n PROVE ByteAt(l, a + i - 1) \in AnyByte
    OBVIOUS
  <2>1. PICK j \in Nat : j = a + i - 1
    BY <1>1
  <2>2. ByteAt(l, j) \in AnyByte
    BY DEF AnyByte
  <2> QED BY <2>1, <2>2
<1>3. Bytes(l, a, b) = [i \in 1 .. n |-> ByteAt(l, a + i - 1)]
  BY <1>1 DEF Bytes
<1>4. Bytes(l, a, b) \in [1 .. n -> AnyByte]
  BY <1>2, <1>3
<1>5. Bytes(l, a, b) \in Seq(AnyByte) /\ Len(Bytes(l, a, b)) = n
  <2>1. PICK z : z = Bytes(l, a, b)
    OBVIOUS
  <2> QED BY <2>1, <1>4, FunctionIsSeq
<1> QED BY <1>1, <1>3, <1>5

\* Adjacent ranges of bytes join.
LEMMA BytesJoin ==
  ASSUME NEW l \in Locations \union {<<>>}, NEW a \in Nat, NEW b \in Nat, NEW c \in Nat, a <= b, b <= c
  PROVE  Bytes(l, a, b) \o Bytes(l, b, c) = Bytes(l, a, c)
<1> DEFINE s == Bytes(l, a, b)
           t == Bytes(l, b, c)
           u == Bytes(l, a, c)
<1>1. /\ s \in Seq(AnyByte) /\ Len(s) = b - a /\ \A i \in 1 .. b - a : s[i] = ByteAt(l, a + i - 1)
  BY BytesAre
<1>2. /\ t \in Seq(AnyByte) /\ Len(t) = c - b /\ \A i \in 1 .. c - b : t[i] = ByteAt(l, b + i - 1)
  BY BytesAre
<1>3. /\ u \in Seq(AnyByte) /\ Len(u) = c - a /\ \A i \in 1 .. c - a : u[i] = ByteAt(l, a + i - 1)
  BY BytesAre
<1> HIDE DEF s, t, u
<1>4. s \o t \in Seq(AnyByte) /\ Len(s \o t) = c - a
  BY <1>1, <1>2
<1>5. ASSUME NEW i \in 1 .. c - a PROVE (s \o t)[i] = u[i]
  <2>1. CASE i <= b - a
    <3>1. (s \o t)[i] = s[i]
      BY <2>1, <1>1, <1>2
    <3> QED BY <3>1, <2>1, <1>1, <1>3
  <2>2. CASE i > b - a
    <3>1. (s \o t)[i] = t[i - (b - a)]
      BY <2>2, <1>1, <1>2, SMTT(40)
    <3>2. PICK j \in 1 .. c - b : j = i - (b - a)
      BY <2>2
    <3>3. t[j] = ByteAt(l, b + j - 1) /\ b + j - 1 = a + i - 1
      BY <3>2, <1>2
    <3> QED BY <3>1, <3>2, <3>3, <1>3
  <2>3. i <= b - a \/ i > b - a
    OBVIOUS
  <2> QED BY <2>1, <2>2, <2>3
<1>6. s \o t = u
  BY <1>3, <1>4, <1>5, SMTT(40)
<1> QED BY <1>6 DEF s, t, u

Part(s, f, t) == SubSeq(s, f + 1, t)

\* A part of a range of bytes is a range of bytes.
LEMMA BytesPart ==
  ASSUME NEW l \in Locations \union {<<>>}, NEW a \in Nat, NEW b \in Nat, a <= b,
         NEW f \in Nat, NEW t \in Nat, f <= t, t <= b - a
  PROVE  Part(Bytes(l, a, b), f, t) = Bytes(l, a + f, a + t)
<1> DEFINE s == Bytes(l, a, b)
           u == Bytes(l, a + f, a + t)
<1>1. /\ s \in Seq(AnyByte) /\ Len(s) = b - a /\ \A i \in 1 .. b - a : s[i] = ByteAt(l, a + i - 1)
  BY BytesAre
<1>2. PICK x \in Nat : x = a + f
  OBVIOUS
<1>3. PICK y \in Nat : y = a + t /\ x <= y
  BY <1>2
<1>4. /\ u \in Seq(AnyByte) /\ Len(u) = t - f /\ \A i \in 1 .. t - f : u[i] = ByteAt(l, a + f + i - 1)
  <2>1. Bytes(l, x, y) \in Seq(AnyByte) /\ Len(Bytes(l, x, y)) = y - x /\ \A i \in 1 .. y - x : Bytes(l, x, y)[i] = ByteAt(l, x + i - 1)
    BY <1>2, <1>3, BytesAre, ZenonT(60)
  <2>2. u = Bytes(l, x, y) /\ y - x = t - f
    BY <1>2, <1>3
  <2> HIDE DEF u
  <2>3. u \in Seq(AnyByte) /\ Len(u) = t - f
    BY <2>1, <2>2
  <2>4. ASSUME NEW i \in 1 .. t - f PROVE u[i] = ByteAt(l, a + f + i - 1)
    <3>1. u[i] = ByteAt(l, x + i - 1)
      BY <2>1, <2>2, <2>4
    <3> QED BY <3>1, <1>2
  <2> QED BY <2>3, <2>4
<1> HIDE DEF s, u
<1>5. SubSeq(s, f + 1, t) \in Seq(AnyByte) /\ Len(SubSeq(s, f + 1, t)) = t - f
  BY <1>1
<1>6. ASSUME NEW i \in 1 .. t - f PROVE SubSeq(s, f + 1, t)[i] = u[i]
  <2>1. SubSeq(s, f + 1, t)[i] = s[f + i]
    BY <1>1
  <2>2. PICK j \in 1 .. b - a : j = f + i
    OBVIOUS
  <2>3. s[j] = ByteAt(l, a + j - 1) /\ a + j - 1 = a + f + i - 1
    BY <2>2, <1>1
  <2> QED BY <2>1, <2>2, <2>3, <1>4
<1>7. SubSeq(s, f + 1, t) = u
  BY <1>4, <1>5, <1>6, SMTT(40)
<1> QED BY <1>7 DEF s, u, Part

-----------------------------------------------------------------------------
(* The invariant                                                           *)

Places == {"idle", "fetch", "create", "write", "rename", "read", "done", "short", "failed"}
ReaderType ==
  [at : Places, location : Locations \union {<<>>}, range : Nat \X Nat, todo : SUBSET Nat,
   data : Seq(AnyByte), out : Seq(AnyByte)]

ChunkBytes(l, c) == Bytes(l, c * CacheBlockSize, Min({c * CacheBlockSize + CacheBlockSize, FileSize}))

\* A chunk file is complete and has the bytes of the one object that its name is for.
ChunksAreWhole ==
  \A name \in DOMAIN chunks :
    \E l \in Locations, c \in Nat :
      c * CacheBlockSize < FileSize /\ name = GetChunkPath(l, c) /\ chunks[name] = ChunkBytes(l, c)

Ready(me, c) == IsChunkReady(GetChunkPath(me.location, c))

\* While it fetches, a reader has only those chunks left that it found missing.
Filling(me) ==
  /\ me.location \in Locations /\ IsRange(me.range) /\ me.out = <<>>
  /\ me.todo \subseteq ChunksForRange(me.range)
  /\ \A c \in ChunksForRange(me.range) \ me.todo : Ready(me, c)
Saving(me) ==
  /\ Filling(me) /\ me.todo # {}
  /\ FirstChunk(me.todo) * CacheBlockSize < FileSize
  /\ me.data = ChunkBytes(me.location, FirstChunk(me.todo))

\* How far the range is read when chunk k is next.
UpTo(range, k) ==
  IF k * CacheBlockSize < range[1] THEN range[1]
  ELSE IF k * CacheBlockSize > range[2] THEN range[2] ELSE k * CacheBlockSize
ReadingFrom(me, k) ==
  /\ me.location \in Locations /\ IsRange(me.range)
  /\ \A c \in ChunksForRange(me.range) : Ready(me, c)
  /\ k \in FirstOf(me.range) .. LastOf(me.range) + 1
  /\ me.todo = k .. LastOf(me.range)
  /\ me.out = Bytes(me.location, me.range[1], UpTo(me.range, k))

HasBeginning(me) ==
  \E p \in Nat : me.range[1] <= p /\ p <= me.range[2] /\ me.out = Bytes(me.location, me.range[1], p)

ReaderOk(me, temp) ==
  /\ me.at = "fetch" => Filling(me)
  /\ me.at \in {"create", "write", "rename"} => Saving(me)
  /\ me.at = "rename" => temp = me.data
  /\ me.at = "read" => \E k \in Nat : ReadingFrom(me, k)
  /\ me.at \in {"idle", "failed"} => me.range = <<0, 0>> /\ me.out = <<>>
  /\ me.at = "done" => HasBeginning(me) /\ me.out = Bytes(me.location, me.range[1], me.range[2])
  /\ me.at = "short" => HasBeginning(me) /\ me.range[2] > FileSize

ByteCacheInv ==
  /\ reader \in [Readers -> ReaderType] /\ temps \in [Readers -> Seq(AnyByte)]
  /\ ChunksAreWhole
  /\ \A r \in Readers : ReaderOk(reader[r], temps[r])

\* Files are added and never taken away: what a reader relies on stays.
LEMMA OkStays ==
  ASSUME NEW me, NEW temp, ReaderOk(me, temp), DOMAIN chunks \subseteq DOMAIN chunks'
  PROVE  ReaderOk(me, temp)'
<1>1. \A c : Ready(me, c) => Ready(me, c)'
  BY DEF Ready, IsChunkReady
<1>2. Filling(me) => Filling(me)'
  BY <1>1 DEF Filling
<1>3. Saving(me) => Saving(me)'
  BY <1>2 DEF Saving
<1>4. \A k : ReadingFrom(me, k) => ReadingFrom(me, k)'
  BY <1>1 DEF ReadingFrom
<1> QED BY <1>2, <1>3, <1>4 DEF ReaderOk, HasBeginning

\* A step of one reader that leaves the chunk files whole.
LEMMA OneReader ==
  ASSUME ByteCacheInv, NEW r \in Readers, NEW me \in ReaderType, NEW temp \in Seq(AnyByte),
         reader' = [reader EXCEPT ![r] = me], temps' = [temps EXCEPT ![r] = temp],
         DOMAIN chunks \subseteq DOMAIN chunks', ChunksAreWhole', ReaderOk(me, temp)'
  PROVE  ByteCacheInv'
<1>1. reader' \in [Readers -> ReaderType] /\ temps' \in [Readers -> Seq(AnyByte)]
  BY DEF ByteCacheInv
<1>2. ASSUME NEW q \in Readers PROVE ReaderOk(reader[q], temps[q])'
  <2>1. CASE q = r
    <3>1. reader'[q] = me /\ temps'[q] = temp
      BY <2>1 DEF ByteCacheInv
    <3> QED BY <3>1
  <2>2. CASE q # r
    <3>1. PICK it, file : it = reader[q] /\ file = temps[q]
      OBVIOUS
    <3>2. reader'[q] = it /\ temps'[q] = file
      BY <2>2, <3>1 DEF ByteCacheInv
    <3>3. ReaderOk(it, file)
      BY <3>1 DEF ByteCacheInv
    <3>4. ReaderOk(it, file)'
      BY <3>3, OkStays
    <3> QED BY <3>2, <3>4
  <2> QED BY <2>1, <2>2
<1> QED BY <1>1, <1>2 DEF ByteCacheInv

\* The same if it changes no file.
LEMMA OneReaderOnly ==
  ASSUME ByteCacheInv, NEW r \in Readers, NEW me \in ReaderType, ReaderOk(me, temps[r]),
         reader' = [reader EXCEPT ![r] = me], UNCHANGED <<chunks, temps>>
  PROVE  ByteCacheInv'
<1>1. PICK temp \in Seq(AnyByte) : temp = temps[r]
  BY DEF ByteCacheInv
<1>2. temps' = [temps EXCEPT ![r] = temp] /\ DOMAIN chunks \subseteq DOMAIN chunks'
  BY <1>1 DEF ByteCacheInv
<1>3. ChunksAreWhole'
  BY DEF ByteCacheInv, ChunksAreWhole
<1>4. ReaderOk(me, temp)
  BY <1>1
<1>5. ReaderOk(me, temp)'
  BY <1>2, <1>4, OkStays
<1> QED BY <1>2, <1>3, <1>5, OneReader

\* The empty sequence is one of bytes.
LEMMA EmptyIsSeq == <<>> \in Seq(AnyByte) /\ <<>> \in Locations \union {<<>>}
  OBVIOUS

\* A reader that does nothing, or has failed, satisfies the invariant.
LEMMA IdleIsOk ==
  /\ NoReader \in ReaderType /\ [NoReader EXCEPT !.at = "failed"] \in ReaderType
  /\ \A temp : ReaderOk(NoReader, temp) /\ ReaderOk([NoReader EXCEPT !.at = "failed"], temp)
<1>1. NoReader \in ReaderType /\ [NoReader EXCEPT !.at = "failed"] \in ReaderType
  BY EmptyIsSeq DEF NoReader, ReaderType, Places
<1>2. ASSUME NEW temp, NEW me, me.at \in {"idle", "failed"}, me.range = <<0, 0>>, me.out = <<>> PROVE ReaderOk(me, temp)
  BY <1>2 DEF ReaderOk
<1>4. ASSUME NEW temp PROVE ReaderOk(NoReader, temp) /\ ReaderOk([NoReader EXCEPT !.at = "failed"], temp)
  <2>1. PICK idle, failed : idle = NoReader /\ failed = [NoReader EXCEPT !.at = "failed"]
    OBVIOUS
  <2>2. /\ idle.at = "idle" /\ idle.range = <<0, 0>> /\ idle.out = <<>>
        /\ failed.at = "failed" /\ failed.range = <<0, 0>> /\ failed.out = <<>>
    BY <2>1 DEF NoReader
  <2>3. ReaderOk(idle, temp)
    BY <2>2, <1>2
  <2>4. ReaderOk(failed, temp)
    BY <2>2, <1>2
  <2> QED BY <2>1, <2>3, <2>4
<1> QED BY <1>1, <1>4

\* The first chunk of a set is its least.
LEMMA FirstIsLeast ==
  ASSUME NEW S \in SUBSET Nat, S # {}
  PROVE  FirstChunk(S) \in S /\ \A c \in S : FirstChunk(S) <= c
<1>1. \E n \in S : \A m \in S : n <= m
  BY LeastNumber
<1> QED BY <1>1 DEF FirstChunk, Min

\* An empty range has no bytes.
LEMMA EmptyBytes ==
  ASSUME NEW l \in Locations \union {<<>>}, NEW a \in Nat PROVE Bytes(l, a, a) = <<>>
<1>1. Bytes(l, a, a) \in Seq(AnyByte) /\ Len(Bytes(l, a, a)) = a - a
  BY BytesAre
<1>2. a - a = 0
  OBVIOUS
<1>3. PICK z \in Seq(AnyByte) : z = Bytes(l, a, a) /\ Len(z) = 0
  BY <1>1, <1>2
<1> QED BY <1>3

-----------------------------------------------------------------------------
(* Every step preserves it                                                 *)

\* Starting a read keeps ByteCacheInv.
LEMMA GetOptsKeeps ==
  ASSUME ByteCacheInv, NEW r \in Readers, NEW location \in Locations, NEW options \in Requests,
         GetOpts(r, location, options)
  PROVE  ByteCacheInv'
<1>1. PICK range \in Nat \X Nat : range = RangeOf(options)
  BY RequestsAssumption
<1> DEFINE missing == {c \in ChunksForRange(range) : ~IsChunkReady(GetChunkPath(location, c))}
           me == [NoReader EXCEPT !.at = "fetch", !.location = location, !.range = range, !.todo = missing]
<1>2. range[1] < range[2] /\ reader' = [reader EXCEPT ![r] = me] /\ UNCHANGED <<chunks, temps>>
  BY <1>1 DEF GetOpts, Update
<1>3. IsRange(range) /\ missing \in SUBSET Nat
  <2>1. IsRange(range)
    BY <1>2 DEF IsRange
  <2> QED BY <2>1, ChunkBounds
<1>5. \A c \in ChunksForRange(range) \ missing : IsChunkReady(GetChunkPath(location, c))
  OBVIOUS
<1>6. missing \subseteq ChunksForRange(range)
  OBVIOUS
<1> HIDE DEF missing
<1>4. me.at = "fetch" /\ me.location = location /\ me.range = range /\ me.todo = missing /\ me.out = <<>>
  BY DEF NoReader
<1>7. me \in ReaderType
  BY <1>3, EmptyIsSeq DEF ReaderType, Places, NoReader
<1> HIDE DEF me
<1>8. Filling(me)
  BY <1>3, <1>4, <1>5, <1>6 DEF Filling, Ready
<1>9. ReaderOk(me, temps[r])
  BY <1>4, <1>8 DEF ReaderOk
<1>10. PICK it : it = me
  OBVIOUS
<1>11. it \in ReaderType /\ ReaderOk(it, temps[r]) /\ reader' = [reader EXCEPT ![r] = it]
  BY <1>2, <1>7, <1>9, <1>10
<1> QED BY <1>2, <1>11, OneReaderOnly

\* Fetching a missing chunk keeps ByteCacheInv.
LEMMA FetchChunkKeeps ==
  ASSUME ByteCacheInv, NEW r \in Readers, FetchChunk(r) PROVE ByteCacheInv'
<1>1. PICK me \in ReaderType : me = reader[r]
  BY DEF ByteCacheInv
<1>2. me.at = "fetch" /\ Filling(me) /\ UNCHANGED <<chunks, temps>>
  BY <1>1 DEF ByteCacheInv, ReaderOk, FetchChunk, ReaderAt
<1>3. IsRange(me.range) /\ me.location \in Locations
  BY <1>2 DEF Filling
<1>4. CASE me.todo = {}
  <2> DEFINE new == [me EXCEPT !.at = "read", !.todo = ChunksForRange(me.range)]
  <2>1. reader' = [reader EXCEPT ![r] = new]
    BY <1>1, <1>4 DEF FetchChunk, Update
  <2>2. PICK k \in Nat : k = FirstOf(me.range)
    BY <1>3, ChunkBounds
  <2>3. /\ ChunksForRange(me.range) = k .. LastOf(me.range) /\ k * CacheBlockSize <= me.range[1]
        /\ k <= LastOf(me.range) /\ LastOf(me.range) \in Nat /\ ChunksForRange(me.range) \in SUBSET Nat
    BY <1>3, <2>2, ChunkBounds
  <2>4. UpTo(me.range, k) = me.range[1]
    <3>1. k * CacheBlockSize \in Nat /\ me.range[1] \in Nat /\ me.range[2] \in Nat /\ me.range[1] < me.range[2]
      BY <1>3, ByteCacheAssumption DEF IsRange
    <3>2. PICK x \in Nat : x = k * CacheBlockSize
      BY <3>1
    <3> QED BY <3>1, <3>2, <2>3 DEF UpTo
  <2>5. me.out = Bytes(me.location, me.range[1], me.range[1])
    BY <1>2, <1>3, EmptyBytes DEF Filling, IsRange
  <2>6. /\ new \in ReaderType /\ new.at = "read" /\ new.location = me.location /\ new.range = me.range
        /\ new.todo = ChunksForRange(me.range) /\ new.out = me.out
    BY <2>3 DEF ReaderType, Places
  <2> HIDE DEF new
  <2>7. \A c \in ChunksForRange(new.range) : Ready(new, c)
    BY <1>2, <1>4, <2>6 DEF Filling, Ready
  <2>8. ReadingFrom(new, k)
    BY <1>3, <2>2, <2>3, <2>4, <2>5, <2>6, <2>7 DEF ReadingFrom
  <2>9. ReaderOk(new, temps[r])
    BY <2>6, <2>8 DEF ReaderOk
  <2>10. PICK it : it = new
    OBVIOUS
  <2> QED BY <2>1, <2>6, <2>9, <2>10, <1>2, OneReaderOnly
<1>5. CASE me.todo # {}
  <2> DEFINE c == FirstChunk(me.todo)
             new == [me EXCEPT !.at = "create",
                       !.data = Bytes(me.location, c * CacheBlockSize, Min({c * CacheBlockSize + CacheBlockSize, FileSize}))]
  <2>1. me.todo \in SUBSET Nat
    BY DEF ReaderType
  <2>2. c \in me.todo /\ c \in Nat
    BY <1>5, <2>1, FirstIsLeast
  <2>3. CASE c * CacheBlockSize >= FileSize
    <3>1. reader' = [reader EXCEPT ![r] = [NoReader EXCEPT !.at = "failed"]]
      BY <1>1, <1>5, <2>3 DEF FetchChunk, Update
    <3>2. PICK it : it = [NoReader EXCEPT !.at = "failed"]
      OBVIOUS
    <3> QED BY <3>1, <3>2, <1>2, IdleIsOk, OneReaderOnly
  <2>4. CASE ~(c * CacheBlockSize >= FileSize)
    <3>1. reader' = [reader EXCEPT ![r] = new]
      BY <1>1, <1>5, <2>4 DEF FetchChunk, Update
    <3> HIDE DEF c
    <3>2. PICK x \in Nat : x = c * CacheBlockSize
      BY <2>2, ByteCacheAssumption
    <3>3. PICK y \in Nat : y = Min({x + CacheBlockSize, FileSize}) /\ x <= y
      BY <2>4, <3>2, ByteCacheAssumption, SmallerLarger
    <3>4. Bytes(me.location, x, y) \in Seq(AnyByte)
      BY <3>3, <1>3, BytesAre
    <3>5. /\ new \in ReaderType /\ new.at = "create" /\ new.location = me.location /\ new.range = me.range
          /\ new.todo = me.todo /\ new.out = me.out /\ new.data = ChunkBytes(me.location, c)
      BY <3>2, <3>3, <3>4 DEF ReaderType, Places, ChunkBytes
    <3> HIDE DEF new
    <3>6. Filling(new)
      BY <1>2, <3>5 DEF Filling, Ready
    <3>7. x < FileSize
      BY <2>4, <3>2, ByteCacheAssumption
    <3>8. Saving(new)
      BY <1>5, <3>2, <3>5, <3>6, <3>7 DEF Saving, c
    <3>9. ReaderOk(new, temps[r])
      BY <3>5, <3>8 DEF ReaderOk
    <3>10. PICK it : it = new
      OBVIOUS
    <3> QED BY <3>1, <3>5, <3>9, <3>10, <1>2, OneReaderOnly
  <2> QED BY <2>3, <2>4
<1> QED BY <1>4, <1>5

\* Creating the temporary file keeps ByteCacheInv.
LEMMA CreateTempKeeps ==
  ASSUME ByteCacheInv, NEW r \in Readers, CreateTemp(r) PROVE ByteCacheInv'
<1>1. PICK me \in ReaderType : me = reader[r]
  BY DEF ByteCacheInv
<1>2. me.at = "create" /\ Saving(me)
  BY <1>1 DEF ByteCacheInv, ReaderOk, CreateTemp, ReaderAt
<1>3. PICK new : new = [me EXCEPT !.at = "write"]
  OBVIOUS
<1>4. /\ new \in ReaderType /\ new.at = "write" /\ new.location = me.location /\ new.range = me.range
      /\ new.todo = me.todo /\ new.out = me.out /\ new.data = me.data
  BY <1>3 DEF ReaderType, Places
<1>5. reader' = [reader EXCEPT ![r] = new] /\ temps' = [temps EXCEPT ![r] = <<>>] /\ chunks' = chunks
  BY <1>1, <1>3 DEF CreateTemp, Update
<1>6. Saving(new)
  BY <1>2, <1>4 DEF Saving, Filling, Ready
<1>7. ReaderOk(new, <<>>)
  BY <1>4, <1>6 DEF ReaderOk
<1>8. DOMAIN chunks \subseteq DOMAIN chunks' /\ ChunksAreWhole'
  BY <1>5 DEF ByteCacheInv, ChunksAreWhole
<1>9. PICK temp \in Seq(AnyByte) : temp = <<>>
  BY EmptyIsSeq
<1>10. ReaderOk(new, temp)'
  BY <1>7, <1>8, <1>9, OkStays
<1> QED BY <1>4, <1>5, <1>8, <1>9, <1>10, OneReader

\* Writing the temporary file keeps ByteCacheInv.
LEMMA WriteTempKeeps ==
  ASSUME ByteCacheInv, NEW r \in Readers, WriteTemp(r) PROVE ByteCacheInv'
<1>1. PICK me \in ReaderType : me = reader[r]
  BY DEF ByteCacheInv
<1>2. me.at = "write" /\ Saving(me)
  BY <1>1 DEF ByteCacheInv, ReaderOk, WriteTemp, ReaderAt
<1>3. PICK new : new = [me EXCEPT !.at = "rename"]
  OBVIOUS
<1>4. /\ new \in ReaderType /\ new.at = "rename" /\ new.location = me.location /\ new.range = me.range
      /\ new.todo = me.todo /\ new.out = me.out /\ new.data = me.data
  BY <1>3 DEF ReaderType, Places
<1>5. PICK temp \in Seq(AnyByte) : temp = me.data
  BY DEF ReaderType
<1>6. reader' = [reader EXCEPT ![r] = new] /\ temps' = [temps EXCEPT ![r] = temp] /\ chunks' = chunks
  BY <1>1, <1>3, <1>5 DEF WriteTemp, Update
<1>7. Saving(new)
  BY <1>2, <1>4 DEF Saving, Filling, Ready
<1>8. ReaderOk(new, temp)
  BY <1>4, <1>5, <1>7 DEF ReaderOk
<1>9. DOMAIN chunks \subseteq DOMAIN chunks' /\ ChunksAreWhole'
  BY <1>6 DEF ByteCacheInv, ChunksAreWhole
<1>10. ReaderOk(new, temp)'
  BY <1>8, <1>9, OkStays
<1> QED BY <1>4, <1>6, <1>9, <1>10, OneReader

\* Renaming the temporary file keeps ByteCacheInv, whoever else wrote the
\* chunk.
LEMMA RenameKeeps ==
  ASSUME ByteCacheInv, NEW r \in Readers, Rename(r) PROVE ByteCacheInv'
<1>1. PICK me \in ReaderType : me = reader[r]
  BY DEF ByteCacheInv
<1>2. me.at = "rename" /\ Saving(me) /\ temps[r] = me.data
  BY <1>1 DEF ByteCacheInv, ReaderOk, Rename, ReaderAt
<1>3. PICK c \in me.todo : c = FirstChunk(me.todo) /\ c \in Nat
  <2>1. me.todo \in SUBSET Nat /\ me.todo # {}
    BY <1>2 DEF ReaderType, Saving
  <2> QED BY <2>1, FirstIsLeast
<1>4. PICK name : name = GetChunkPath(me.location, c)
  OBVIOUS
<1>5. PICK content : content = me.data
  OBVIOUS
<1>6. PICK new : new = [me EXCEPT !.at = "fetch", !.todo = @ \ {c}, !.data = <<>>]
  OBVIOUS
<1>7. /\ chunks' = [n \in DOMAIN chunks \union {name} |-> IF n = name THEN content ELSE chunks[n]]
      /\ temps' = [temps EXCEPT ![r] = <<>>]
      /\ reader' = [reader EXCEPT ![r] = new]
  BY <1>1, <1>2, <1>3, <1>4, <1>5, <1>6 DEF Rename, Update, LaterChunks
<1>8. DOMAIN chunks' = DOMAIN chunks \union {name} /\ chunks'[name] = content
      /\ \A n \in DOMAIN chunks : n # name => chunks'[n] = chunks[n]
  BY <1>7
<1>9. me.location \in Locations /\ c * CacheBlockSize < FileSize /\ content = ChunkBytes(me.location, c)
  BY <1>2, <1>3, <1>5 DEF Saving, Filling
<1>10. ChunksAreWhole'
  <2> SUFFICES ASSUME NEW n \in DOMAIN chunks'
               PROVE  \E l \in Locations, k \in Nat :
                        k * CacheBlockSize < FileSize /\ n = GetChunkPath(l, k) /\ chunks'[n] = ChunkBytes(l, k)
    BY DEF ChunksAreWhole
  <2>1. CASE n = name
    BY <2>1, <1>3, <1>4, <1>8, <1>9
  <2>2. CASE n # name
    BY <2>2, <1>8 DEF ByteCacheInv, ChunksAreWhole
  <2> QED BY <2>1, <2>2
<1>11. /\ new \in ReaderType /\ new.at = "fetch" /\ new.location = me.location /\ new.range = me.range
       /\ new.todo = me.todo \ {c} /\ new.out = me.out
  BY <1>6, EmptyIsSeq DEF ReaderType, Places
<1>12. \A k \in ChunksForRange(me.range) \ new.todo : Ready(new, k)'
  <2> SUFFICES ASSUME NEW k \in ChunksForRange(me.range), k \notin new.todo PROVE Ready(new, k)'
    OBVIOUS
  <2>1. CASE k = c
    BY <2>1, <1>4, <1>8, <1>11 DEF Ready, IsChunkReady
  <2>2. CASE k # c
    <3>1. Ready(me, k)
      BY <2>2, <1>2, <1>11 DEF Saving, Filling
    <3> QED BY <3>1, <1>8, <1>11 DEF Ready, IsChunkReady
  <2> QED BY <2>1, <2>2
<1>13. Filling(new)'
  BY <1>2, <1>11, <1>12 DEF Saving, Filling
<1>14. PICK temp \in Seq(AnyByte) : temp = <<>>
  BY EmptyIsSeq
<1>15. ReaderOk(new, temp)'
  BY <1>11, <1>13 DEF ReaderOk
<1>16. temps' = [temps EXCEPT ![r] = temp] /\ reader' = [reader EXCEPT ![r] = new] /\ DOMAIN chunks \subseteq DOMAIN chunks'
  BY <1>7, <1>8, <1>14
<1> QED BY <1>10, <1>11, <1>15, <1>16, OneReader

\* The chunk file that a reader takes next is the one of its own object.
LEMMA ChunkIsOwn ==
  ASSUME ByteCacheInv, NEW l \in Locations, NEW c \in Nat, IsChunkReady(GetChunkPath(l, c))
  PROVE  c * CacheBlockSize < FileSize /\ chunks[GetChunkPath(l, c)] = ChunkBytes(l, c)
<1>1. PICK m \in Locations, k \in Nat :
        /\ k * CacheBlockSize < FileSize /\ GetChunkPath(l, c) = GetChunkPath(m, k)
        /\ chunks[GetChunkPath(l, c)] = ChunkBytes(m, k)
  BY DEF ByteCacheInv, ChunksAreWhole, IsChunkReady
<1>2. GetCacheDirForPath(l) = GetCacheDirForPath(m) /\ c = k
  BY <1>1 DEF GetChunkPath
<1>3. l = m
  BY <1>2, RequestsAssumption
<1> QED BY <1>1, <1>2, <1>3

\* Reading the next chunk file keeps ByteCacheInv.
LEMMA ReadFromCachedChunkKeeps ==
  ASSUME ByteCacheInv, NEW r \in Readers, ReadFromCachedChunk(r) PROVE ByteCacheInv'
<1>1. PICK me \in ReaderType : me = reader[r]
  BY DEF ByteCacheInv
<1>2. me.at = "read" /\ UNCHANGED <<chunks, temps>>
  BY <1>1 DEF ReadFromCachedChunk, ReaderAt
<1>3. PICK k \in Nat : ReadingFrom(me, k)
  BY <1>1, <1>2 DEF ByteCacheInv, ReaderOk
<1>4. /\ me.location \in Locations /\ IsRange(me.range) /\ \A c \in ChunksForRange(me.range) : Ready(me, c)
      /\ k \in FirstOf(me.range) .. LastOf(me.range) + 1 /\ me.todo = k .. LastOf(me.range)
      /\ me.out = Bytes(me.location, me.range[1], UpTo(me.range, k))
  BY <1>3 DEF ReadingFrom
<1>5. PICK a \in Nat, b \in Nat : a = me.range[1] /\ b = me.range[2] /\ a < b
  BY <1>4 DEF IsRange
<1>6. PICK first \in Nat, last \in Nat : first = FirstOf(me.range) /\ last = LastOf(me.range) /\ first <= last
  BY <1>4, ChunkBounds
<1>7. ChunksForRange(me.range) = first .. last /\ b <= (last + 1) * CacheBlockSize
  BY <1>4, <1>5, <1>6, ChunkBounds
<1>8. CacheBlockSize \in Nat \ {0} /\ FileSize \in Nat
  BY ByteCacheAssumption
<1>9. CASE me.todo = {}
  <2>1. PICK new : new = [me EXCEPT !.at = "done"]
    OBVIOUS
  <2>2. reader' = [reader EXCEPT ![r] = new]
    BY <1>1, <1>9, <2>1 DEF ReadFromCachedChunk, Update
  <2>3. k = last + 1
    <3>1. k \notin k .. last
      BY <1>4, <1>6, <1>9
    <3> QED BY <3>1, <1>4, <1>6
  <2>4. UpTo(me.range, k) = b
    <3>1. PICK x \in Nat : x = k * CacheBlockSize /\ b <= x
      BY <2>3, <1>7, <1>8
    <3> QED BY <3>1, <1>5 DEF UpTo
  <2>5. /\ new \in ReaderType /\ new.at = "done" /\ new.location = me.location /\ new.range = me.range
        /\ new.out = me.out
    BY <2>1 DEF ReaderType, Places
  <2>6. new.out = Bytes(new.location, new.range[1], new.range[2])
    BY <2>4, <2>5, <1>4, <1>5
  <2>7. HasBeginning(new)
    BY <2>5, <2>6, <1>5 DEF HasBeginning
  <2>8. ReaderOk(new, temps[r])
    BY <2>5, <2>6, <2>7 DEF ReaderOk
  <2> QED BY <2>2, <2>5, <2>8, <1>2, OneReaderOnly
<1>10. CASE me.todo # {}
  <2>1. k \in first .. last /\ k \in ChunksForRange(me.range)
    BY <1>4, <1>6, <1>7, <1>10
  <2>2. FirstChunk(me.todo) = k
    <3>1. me.todo \in SUBSET Nat
      BY DEF ReaderType
    <3>2. FirstChunk(me.todo) \in me.todo /\ \A c \in me.todo : FirstChunk(me.todo) <= c
      BY <3>1, <1>10, FirstIsLeast
    <3> QED BY <3>2, <2>1, <1>4, <1>6
  <2>3. PICK start \in Nat : start = k * CacheBlockSize
    BY <1>8
  <2>4. start < b /\ a < start + CacheBlockSize /\ (k + 1) * CacheBlockSize = start + CacheBlockSize
    BY <2>1, <2>3, <1>4, <1>5, ChunkBounds
  <2>5. PICK from \in Nat : from = Max({start, a}) - start /\ start + from = IF start >= a THEN start ELSE a
    BY SmallerLarger
  <2>6. PICK to \in Nat : /\ to = Min({start + CacheBlockSize, b}) - start /\ from <= to
                          /\ start + to = IF start + CacheBlockSize <= b THEN start + CacheBlockSize ELSE b
    <3>1. start + CacheBlockSize \in Int
      BY <1>8
    <3>2. Min({start + CacheBlockSize, b}) = IF start + CacheBlockSize <= b THEN start + CacheBlockSize ELSE b
      BY <3>1, SmallerLarger
    <3> QED BY <3>2, <2>4, <2>5, <1>5, <1>8
  <2>7. UpTo(me.range, k) = start + from /\ UpTo(me.range, k + 1) = start + to
    <3>1. UpTo(me.range, k) = start + from
      BY <2>3, <2>4, <2>5, <1>5 DEF UpTo
    <3>2. PICK x \in Nat : x = (k + 1) * CacheBlockSize /\ x = start + CacheBlockSize
      BY <2>4, <1>8
    <3>3. UpTo(me.range, k + 1) = start + to
      BY <3>2, <2>4, <2>6, <1>5, <1>8 DEF UpTo
    <3> QED BY <3>1, <3>3
  <2>8. PICK name, content : name = GetChunkPath(me.location, k) /\ content = chunks[name]
    OBVIOUS
  <2>9. start < FileSize /\ content = ChunkBytes(me.location, k)
    <3>1. IsChunkReady(GetChunkPath(me.location, k))
      BY <2>1, <1>4 DEF Ready
    <3> QED BY <3>1, <2>3, <2>8, <1>4, ChunkIsOwn
  <2>10. PICK end \in Nat : /\ end = Min({start + CacheBlockSize, FileSize}) /\ start <= end
                            /\ end = IF start + CacheBlockSize <= FileSize THEN start + CacheBlockSize ELSE FileSize
    <3>1. start + CacheBlockSize \in Int /\ FileSize \in Int
      BY <1>8
    <3>2. Min({start + CacheBlockSize, FileSize}) = IF start + CacheBlockSize <= FileSize THEN start + CacheBlockSize ELSE FileSize
      BY <3>1, SmallerLarger
    <3> QED BY <3>2, <2>9, <1>8
  <2>11. content = Bytes(me.location, start, end) /\ Len(content) = end - start
    <3>1. content = Bytes(me.location, start, end)
      BY <2>3, <2>9, <2>10 DEF ChunkBytes
    <3> QED BY <3>1, <2>10, <1>4, BytesAre
  <2>12. reader' = [reader EXCEPT ![r] =
           IF to > Len(content) THEN [me EXCEPT !.at = "short"]
           ELSE [me EXCEPT !.todo = @ \ {k}, !.out = @ \o SubSeq(content, from + 1, to)]]
    BY <1>1, <1>5, <1>10, <2>2, <2>3, <2>5, <2>6, <2>8 DEF ReadFromCachedChunk, Update, LaterChunks
  <2>13. CASE to > Len(content)
    <3>1. PICK new : new = [me EXCEPT !.at = "short"]
      OBVIOUS
    <3>2. reader' = [reader EXCEPT ![r] = new]
      BY <3>1, <2>12, <2>13
    <3>3. /\ new \in ReaderType /\ new.at = "short" /\ new.location = me.location /\ new.range = me.range
          /\ new.out = me.out
      BY <3>1 DEF ReaderType, Places
    <3>4. b > FileSize
      BY <2>6, <2>10, <2>11, <2>13, <1>5, <1>8, SMTT(40)
    <3>5. PICK p \in Nat : p = start + from /\ a <= p /\ p <= b
      BY <2>4, <2>5, <1>5
    <3>6. HasBeginning(new)
      BY <3>3, <3>5, <2>7, <1>4, <1>5 DEF HasBeginning
    <3>7. ReaderOk(new, temps[r])
      BY <3>3, <3>4, <3>6, <1>5 DEF ReaderOk
    <3> QED BY <3>2, <3>3, <3>7, <1>2, OneReaderOnly
  <2>14. CASE ~(to > Len(content))
    <3>1. PICK part : part = SubSeq(content, from + 1, to)
      OBVIOUS
    <3>2. part = Bytes(me.location, start + from, start + to)
      <4>1. to <= end - start
        BY <2>10, <2>11, <2>14
      <4>2. PICK l \in Locations \union {<<>>} : l = me.location
        BY <1>4
      <4>3. start <= end /\ from <= to
        BY <2>6, <2>10
      <4>4. Part(Bytes(l, start, end), from, to) = Bytes(l, start + from, start + to)
        BY <4>1, <4>3, BytesPart
      <4> QED BY <3>1, <4>2, <4>4, <2>11 DEF Part
    <3>3. PICK x \in Nat, y \in Nat : x = start + from /\ y = start + to /\ a <= x /\ x <= y
      BY <2>5, <2>6, <1>5
    <3>4. me.out \o part = Bytes(me.location, a, y) /\ Bytes(me.location, a, y) \in Seq(AnyByte)
      <4>1. me.out = Bytes(me.location, a, x)
        BY <3>3, <2>7, <1>4, <1>5
      <4>2. Bytes(me.location, a, x) \o Bytes(me.location, x, y) = Bytes(me.location, a, y)
        <5>1. PICK l \in Locations \union {<<>>} : l = me.location
          BY <1>4
        <5>2. Bytes(l, a, x) \o Bytes(l, x, y) = Bytes(l, a, y)
          BY <3>3, BytesJoin
        <5> QED BY <5>1, <5>2
      <4>3. Bytes(me.location, a, y) \in Seq(AnyByte)
        BY <3>3, <1>4, BytesAre
      <4> QED BY <4>1, <4>2, <4>3, <3>2, <3>3
    <3>5. PICK all \in Seq(AnyByte) : all = me.out \o part
      BY <3>4
    <3>6. PICK new : new = [me EXCEPT !.todo = @ \ {k}, !.out = all]
      OBVIOUS
    <3>7. reader' = [reader EXCEPT ![r] = new]
      BY <3>1, <3>5, <3>6, <2>12, <2>14
    <3>8. /\ new \in ReaderType /\ new.at = "read" /\ new.location = me.location /\ new.range = me.range
          /\ new.todo = me.todo \ {k} /\ new.out = all
      BY <3>6, <1>2 DEF ReaderType, Places
    <3>9. new.todo = k + 1 .. last
      BY <3>8, <2>1, <1>4, <1>6
    <3>10. k + 1 \in first .. last + 1 /\ k + 1 \in Nat
      BY <2>1
    <3>11. new.out = Bytes(new.location, new.range[1], UpTo(new.range, k + 1))
      BY <3>3, <3>4, <3>5, <3>8, <2>7, <1>5
    <3>12. ReadingFrom(new, k + 1)
      BY <3>8, <3>9, <3>10, <3>11, <1>4, <1>6 DEF ReadingFrom, Ready
    <3>13. ReaderOk(new, temps[r])
      BY <3>8, <3>10, <3>12 DEF ReaderOk
    <3> QED BY <3>7, <3>8, <3>13, <1>2, OneReaderOnly
  <2> QED BY <2>13, <2>14
<1> QED BY <1>9, <1>10

\* Ending a read, or failing, keeps ByteCacheInv.
LEMMA EndsKeep ==
  ASSUME ByteCacheInv, NEW r \in Readers, Discard(r) \/ ReadFails(r) PROVE ByteCacheInv'
<1>1. PICK new \in ReaderType : reader' = [reader EXCEPT ![r] = new] /\ ReaderOk(new, temps[r])
  <2>1. CASE Discard(r)
    BY <2>1, IdleIsOk DEF Discard, Update
  <2>2. CASE ReadFails(r)
    BY <2>2, IdleIsOk DEF ReadFails, Update
  <2> QED BY <2>1, <2>2
<1>2. UNCHANGED <<chunks, temps>>
  BY DEF Discard, ReadFails
<1> QED BY <1>1, <1>2, OneReaderOnly

\* A crash, which leaves the directory, keeps ByteCacheInv.
LEMMA CrashKeeps ==
  ASSUME ByteCacheInv, Crash PROVE ByteCacheInv'
<1>1. reader' = [r \in Readers |-> NoReader] /\ UNCHANGED <<chunks, temps>>
  BY DEF Crash
<1>2. ChunksAreWhole'
  BY <1>1 DEF ByteCacheInv, ChunksAreWhole
<1>3. ASSUME NEW r \in Readers PROVE ReaderOk(reader[r], temps[r])'
  <2>1. PICK idle, temp : idle = NoReader /\ temp = temps'[r]
    OBVIOUS
  <2>2. ReaderOk(idle, temp)
    BY <2>1, IdleIsOk
  <2>3. ReaderOk(idle, temp)'
    BY <2>2, <1>1, OkStays
  <2>4. reader'[r] = idle
    BY <2>1, <1>1
  <2> QED BY <2>1, <2>3, <2>4
<1> QED BY <1>1, <1>2, <1>3, IdleIsOk DEF ByteCacheInv

\* ByteCacheInv holds whatever readers, failures and crashes there are.
LEMMA ByteCacheInvariant == CacheSpec => []ByteCacheInv
<1>1. CacheInit => ByteCacheInv
  <2> SUFFICES ASSUME CacheInit PROVE ByteCacheInv
    OBVIOUS
  <2>1. ChunksAreWhole
    BY DEF CacheInit, ChunksAreWhole
  <2>2. reader \in [Readers -> ReaderType] /\ temps \in [Readers -> Seq(AnyByte)]
    BY IdleIsOk, EmptyIsSeq DEF CacheInit
  <2>3. ASSUME NEW r \in Readers PROVE ReaderOk(reader[r], temps[r])
    BY IdleIsOk DEF CacheInit
  <2> QED BY <2>1, <2>2, <2>3 DEF ByteCacheInv
<1>2. ByteCacheInv /\ [CacheNext]_cacheVars => ByteCacheInv'
  <2> SUFFICES ASSUME ByteCacheInv, [CacheNext]_cacheVars PROVE ByteCacheInv'
    OBVIOUS
  <2>1. CASE UNCHANGED cacheVars
    BY <2>1, ZenonT(60) DEF cacheVars, ByteCacheInv, ChunksAreWhole, ReaderOk, Filling, Saving, ReadingFrom, HasBeginning, Ready, IsChunkReady
  <2>2. CASE CacheNext
    BY <2>2, CrashKeeps, GetOptsKeeps, FetchChunkKeeps, CreateTempKeeps, WriteTempKeeps, RenameKeeps,
       ReadFromCachedChunkKeeps, EndsKeep DEF CacheNext, ReaderStep
  <2> QED BY <2>1, <2>2
<1> QED BY <1>1, <1>2, PTL DEF CacheSpec

\* The beginning of a range, byte by byte.
LEMMA BeginningIsPrefix ==
  ASSUME NEW l \in Locations \union {<<>>}, NEW a \in Nat, NEW p \in Nat, NEW b \in Nat, a <= p, p <= b
  PROVE  IsPrefix(Bytes(l, a, p), Bytes(l, a, b))
<1> DEFINE s == Bytes(l, a, p)
           t == Bytes(l, a, b)
<1>1. s \in Seq(AnyByte) /\ Len(s) = p - a /\ \A i \in 1 .. p - a : s[i] = ByteAt(l, a + i - 1)
  BY BytesAre
<1>2. a <= b
  OBVIOUS
<1>3. t \in Seq(AnyByte) /\ Len(t) = b - a /\ \A i \in 1 .. b - a : t[i] = ByteAt(l, a + i - 1)
  BY <1>2, BytesAre
<1> HIDE DEF s, t
<1>4. \A i \in 1 .. p - a : s[i] = t[i]
  BY <1>1, <1>3
<1>5. SubSeq(s, 1, Len(s)) = SubSeq(t, 1, Len(s))
  BY <1>1, <1>3, <1>4
<1>6. IsPrefix(s, t)
  BY <1>1, <1>3, <1>5 DEF IsPrefix
<1> QED BY <1>6 DEF s, t

\* Readers get the bytes of their own object and nothing else, for every number of
\* readers, size of the object and of the blocks, whatever ranges they ask for, in
\* whatever order they write the same chunk, and over crashes that leave temporary
\* files behind (get_opts, save_chunk, get_range_from_cache_stream).
THEOREM ReadersGetTheirObject == CacheSpec => []ReadsItsObject
<1>1. ByteCacheInv => ReadsItsObject
  <2> SUFFICES ASSUME ByteCacheInv, NEW r \in Readers
               PROVE  /\ IsPrefix(reader[r].out, Bytes(reader[r].location, reader[r].range[1], reader[r].range[2]))
                      /\ ReaderAt(r, "done") => reader[r].out = Bytes(reader[r].location, reader[r].range[1], reader[r].range[2])
                      /\ ReaderAt(r, "short") => reader[r].range[2] > FileSize
    BY DEF ReadsItsObject
  <2>1. PICK me \in ReaderType : me = reader[r] /\ ReaderOk(me, temps[r])
    BY DEF ByteCacheInv
  <2>2. PICK l \in Locations \union {<<>>}, a \in Nat, b \in Nat : l = me.location /\ a = me.range[1] /\ b = me.range[2]
    BY DEF ReaderType
  <2>3. \E p \in Nat : a <= p /\ p <= b /\ me.out = Bytes(l, a, p)
    <3>1. CASE me.at \in {"fetch", "create", "write", "rename"}
      <4>1. IsRange(me.range) /\ me.out = <<>>
        BY <2>1, <3>1 DEF ReaderOk, Saving, Filling
      <4>2. a <= a /\ a <= b
        BY <4>1, <2>2 DEF IsRange
      <4>3. me.out = Bytes(l, a, a)
        BY <4>1, EmptyBytes
      <4> QED BY <4>2, <4>3
    <3>2. CASE me.at = "read"
      <4>1. PICK k \in Nat : ReadingFrom(me, k)
        BY <2>1, <3>2 DEF ReaderOk
      <4>2. a < b
        BY <4>1, <2>2 DEF ReadingFrom, IsRange
      <4>3. PICK x \in Nat : x = k * CacheBlockSize
        BY ByteCacheAssumption
      <4>4. PICK p \in Nat : p = UpTo(me.range, k) /\ a <= p /\ p <= b
        BY <4>2, <4>3, <2>2 DEF UpTo
      <4> QED BY <4>1, <4>4, <2>2 DEF ReadingFrom
    <3>3. CASE me.at \in {"idle", "failed"}
      <4>1. a = 0 /\ b = 0 /\ me.out = <<>>
        BY <2>1, <2>2, <3>3 DEF ReaderOk
      <4> QED BY <4>1, EmptyBytes
    <3>4. CASE me.at \in {"done", "short"}
      BY <2>1, <2>2, <3>4 DEF ReaderOk, HasBeginning
    <3> QED BY <3>1, <3>2, <3>3, <3>4 DEF ReaderType, Places
  <2>4. IsPrefix(me.out, Bytes(l, a, b))
    BY <2>3, BeginningIsPrefix
  <2>5. /\ me.at = "done" => me.out = Bytes(l, a, b)
        /\ me.at = "short" => b > FileSize
    BY <2>1, <2>2 DEF ReaderOk
  <2> QED BY <2>1, <2>2, <2>4, <2>5 DEF ReaderAt
<1> QED BY <1>1, ByteCacheInvariant, PTL

-----------------------------------------------------------------------------
(* The rows of a partition on their way from the plan to the consumer      *)

AnyRow == {PlanBatches(p)[n][i] : p \in Partitions, n \in Nat, i \in Nat}
AllRows(p) == FlattenSeq(PlanBatches(p))
Starting == {"init", "stores", "plan", "waiting", "get"}
Stages == Starting \union {"processing"} \union Ended

\* Where a partition is, what it has delivered, what is buffered and what is left to read
\* together make up the rows of its plan.
Whole(d, b, u, p) == FlattenSeq((d \o b) \o u) = AllRows(p)
Large(d, last) == \A n \in 1 .. last : Len(d[n]) > Threshold
TaskOk(place, d, b, u, p) ==
  /\ d \in Seq(Seq(AnyRow)) /\ b \in Seq(Seq(AnyRow)) /\ u \in Seq(Seq(AnyRow))
  /\ place \in Starting => d = <<>> /\ b = <<>>
  /\ place = "processing" => Whole(d, b, u, p)
  /\ place = "done" => FlattenSeq(d) = AllRows(p)
  /\ IsPrefix(FlattenSeq(d), AllRows(p))
  /\ Large(d, Len(d) - 1)
  /\ place = "processing" /\ (b # <<>> \/ u # <<>>) => Large(d, Len(d))

\* A partition yields batches of rows.
LEMMA PlanBatchesType ==
  ASSUME NEW p \in Partitions PROVE PlanBatches(p) \in Seq(Seq(AnyRow)) /\ AllRows(p) \in Seq(AnyRow)
<1> DEFINE B == PlanBatches(p)
<1>1. Batches[p] \in Seq(Nat)
  BY RemoteAssumption
<1>2. PICK L \in Nat : L = Len(Batches[p]) /\ DOMAIN Batches[p] = 1 .. L
  BY <1>1
<1>3. ASSUME NEW n \in 1 .. L PROVE B[n] \in Seq(AnyRow)
  <2>1. PICK k \in Nat : k = Batches[p][n]
    BY <1>1, <1>2
  <2>2. B[n] = [i \in 1 .. k |-> RowsBefore(p, n - 1) + i]
    BY <1>2, <2>1 DEF PlanBatches
  <2>3. DOMAIN B[n] = 1 .. k
    BY <2>2
  <2> HIDE DEF B
  <2>4. ASSUME NEW i \in 1 .. k PROVE B[n][i] \in AnyRow
    <3>1. n \in Nat /\ i \in Nat
      OBVIOUS
    <3> QED BY <3>1 DEF B, AnyRow
  <2>5. B[n] \in [1 .. k -> AnyRow]
    <3>1. B[n] = [i \in 1 .. k |-> B[n][i]]
      BY <2>2
    <3> QED BY <2>4, <3>1
  <2> QED BY <2>5, SeqDef
<1>4. B \in [1 .. L -> Seq(AnyRow)]
  <2>1. B = [n \in 1 .. L |-> B[n]]
    BY <1>2 DEF PlanBatches
  <2> HIDE DEF B
  <2> QED BY <1>3, <2>1
<1>5. B \in Seq(Seq(AnyRow))
  <2> HIDE DEF B
  <2> QED BY <1>4, SeqDef
<1> QED BY <1>5, FlattenType DEF AllRows

\* A sequence is a prefix of itself with more behind.
LEMMA PrefixOfConcat ==
  ASSUME NEW X, NEW s \in Seq(X), NEW t \in Seq(X) PROVE IsPrefix(s, s \o t)
<1>1. Len(s) \in Nat /\ Len(t) \in Nat /\ Len(s \o t) = Len(s) + Len(t) /\ s \o t \in Seq(X)
  OBVIOUS
<1>2. SubSeq(s, 1, Len(s)) = s
  BY SubSeqFull
<1>3. SubSeq(s \o t, 1, Len(s)) = s
  <2>1. CASE s = <<>>
    <3>1. Len(s) = 0
      BY <2>1
    <3>2. SubSeq(s \o t, 1, 0) = <<>>
      BY SubSeqEmpty
    <3> QED BY <2>1, <3>1, <3>2
  <2>2. CASE s # <<>>
    <3>1. 1 \in 1 .. Len(s) /\ Len(s) \in 1 .. Len(s)
      BY <2>2, <1>1
    <3> QED BY <3>1, <1>2, SubSeqOfConcat1
  <2> QED BY <2>1, <2>2
<1> QED BY <1>1, <1>2, <1>3 DEF IsPrefix

\* The concatenation of the three.
LEMMA WholeIs ==
  ASSUME NEW d \in Seq(Seq(AnyRow)), NEW b \in Seq(Seq(AnyRow)), NEW u \in Seq(Seq(AnyRow))
  PROVE  FlattenSeq((d \o b) \o u) = (FlattenSeq(d) \o FlattenSeq(b)) \o FlattenSeq(u)
<1>1. d \o b \in Seq(Seq(AnyRow))
  BY ConcatProperties
<1>2. FlattenSeq(d \o b) = FlattenSeq(d) \o FlattenSeq(b)
  BY FlattenConcat
<1>3. FlattenSeq((d \o b) \o u) = FlattenSeq(d \o b) \o FlattenSeq(u)
  BY <1>1, FlattenConcat
<1> QED BY <1>2, <1>3

\* What was delivered is a prefix of the partition.
LEMMA WholePrefix ==
  ASSUME NEW p, NEW d \in Seq(Seq(AnyRow)), NEW b \in Seq(Seq(AnyRow)), NEW u \in Seq(Seq(AnyRow)), Whole(d, b, u, p)
  PROVE  IsPrefix(FlattenSeq(d), AllRows(p))
<1>1. PICK x \in Seq(AnyRow), y \in Seq(AnyRow), z \in Seq(AnyRow) :
        x = FlattenSeq(d) /\ y = FlattenSeq(b) /\ z = FlattenSeq(u)
  BY FlattenType
<1>2. AllRows(p) = (x \o y) \o z
  BY <1>1, WholeIs DEF Whole
<1>3. (x \o y) \o z = x \o (y \o z) /\ y \o z \in Seq(AnyRow)
  BY ConcatAssociative, ConcatProperties, SMTT(40)
<1> QED BY <1>1, <1>2, <1>3, PrefixOfConcat

\* execute_plan: everything is left to read.
LEMMA StartOk ==
  ASSUME NEW p \in Partitions PROVE TaskOk("processing", <<>>, <<>>, PlanBatches(p), p)
<1>1. PlanBatches(p) \in Seq(Seq(AnyRow))
  BY PlanBatchesType
<1>2. (<<>> \o <<>>) \o PlanBatches(p) = PlanBatches(p)
  <2>1. <<>> \in Seq(Seq(AnyRow))
    OBVIOUS
  <2> QED BY <1>1, <2>1, ConcatEmptySeq
<1>3. Whole(<<>>, <<>>, PlanBatches(p), p)
  BY <1>2 DEF Whole, AllRows
<1>4. <<>> \in Seq(Seq(AnyRow)) /\ Len(<<>>) = 0
  OBVIOUS
<1>5. IsPrefix(FlattenSeq(<<>>), AllRows(p))
  BY <1>1, <1>3, <1>4, WholePrefix
<1> QED BY <1>1, <1>3, <1>4, <1>5 DEF TaskOk, Large, Starting

\* Emit: the buffered batches become one.
LEMMA EmitOk ==
  ASSUME NEW p, NEW d, NEW b, NEW u, TaskOk("processing", d, b, u, p), b # <<>>,
         Len(FlattenSeq(b)) > Threshold \/ u = <<>>
  PROVE  TaskOk("processing", Append(d, FlattenSeq(b)), <<>>, u, p)
<1>1. /\ d \in Seq(Seq(AnyRow)) /\ b \in Seq(Seq(AnyRow)) /\ u \in Seq(Seq(AnyRow))
      /\ Whole(d, b, u, p) /\ Large(d, Len(d))
  BY DEF TaskOk
<1>2. PICK x \in Seq(AnyRow), y \in Seq(AnyRow), z \in Seq(AnyRow) :
        x = FlattenSeq(d) /\ y = FlattenSeq(b) /\ z = FlattenSeq(u)
  BY <1>1, FlattenType
<1>3. PICK e \in Seq(Seq(AnyRow)) : e = Append(d, y) /\ Len(e) = Len(d) + 1 /\ e[Len(d) + 1] = y /\ \A i \in 1 .. Len(d) : e[i] = d[i]
  <2>1. /\ Append(d, y) \in Seq(Seq(AnyRow)) /\ Len(Append(d, y)) = Len(d) + 1
        /\ Append(d, y)[Len(d) + 1] = y /\ \A i \in 1 .. Len(d) : Append(d, y)[i] = d[i]
    BY <1>1, AppendProperties
  <2> QED BY <2>1
<1>4. FlattenSeq(e) = x \o y
  BY <1>1, <1>2, <1>3, FlattenAppend
<1>5. Whole(e, <<>>, u, p)
  <2>1. <<>> \in Seq(Seq(AnyRow)) /\ <<>> \in Seq(AnyRow)
    OBVIOUS
  <2>2. FlattenSeq((e \o <<>>) \o u) = (FlattenSeq(e) \o <<>>) \o z
    <3>1. PICK n : n = <<>>
      OBVIOUS
    <3>2. FlattenSeq((e \o n) \o u) = (FlattenSeq(e) \o FlattenSeq(n)) \o FlattenSeq(u)
      BY <1>1, <2>1, <3>1, WholeIs
    <3> QED BY <1>2, <3>1, <3>2, FlattenEmpty
  <2>3. FlattenSeq(e) \o <<>> = FlattenSeq(e)
    BY <2>1, FlattenType, ConcatEmptySeq
  <2>4. AllRows(p) = (x \o y) \o z
    BY <1>1, <1>2, WholeIs DEF Whole
  <2> QED BY <1>4, <2>2, <2>3, <2>4 DEF Whole
<1>6. IsPrefix(FlattenSeq(e), AllRows(p))
  <2>1. <<>> \in Seq(Seq(AnyRow))
    OBVIOUS
  <2> QED BY <1>1, <1>5, <2>1, WholePrefix
<1>7. Len(d) \in Nat /\ Large(e, Len(d))
  BY <1>1, <1>3 DEF Large
<1>8. u # <<>> => Large(e, Len(d) + 1)
  <2>1. ASSUME u # <<>> PROVE Len(e[Len(d) + 1]) > Threshold
    BY <2>1, <1>2, <1>3
  <2> QED BY <2>1, <1>7 DEF Large
<1>9. Len(e) - 1 = Len(d)
  BY <1>3, <1>7
<1>10. TaskOk("processing", e, <<>>, u, p)
  <2>1. <<>> \in Seq(Seq(AnyRow))
    OBVIOUS
  <2> QED BY <2>1, <1>1, <1>3, <1>5, <1>6, <1>7, <1>8, <1>9 DEF TaskOk, Starting
<1> QED BY <1>2, <1>3, <1>10

\* Buffer: the next batch goes from the plan into the buffer.
LEMMA BufferOk ==
  ASSUME NEW p, NEW d, NEW b, NEW u, TaskOk("processing", d, b, u, p), u # <<>>
  PROVE  TaskOk("processing", d, Append(b, Head(u)), Tail(u), p)
<1>1. /\ d \in Seq(Seq(AnyRow)) /\ b \in Seq(Seq(AnyRow)) /\ u \in Seq(Seq(AnyRow))
      /\ Whole(d, b, u, p) /\ Large(d, Len(d))
  BY SMTT(40) DEF TaskOk
<1>2. PICK h \in Seq(AnyRow), r \in Seq(Seq(AnyRow)) : h = Head(u) /\ r = Tail(u) /\ u = <<h>> \o r
  <2>1. Head(u) \in Seq(AnyRow) /\ Tail(u) \in Seq(Seq(AnyRow))
    BY <1>1, HeadTailProperties
  <2>2. u = <<Head(u)>> \o Tail(u)
    BY <1>1, <2>1
  <2> QED BY <2>1, <2>2
<1>3. PICK c \in Seq(Seq(AnyRow)) : c = Append(b, h) /\ c = b \o <<h>>
  BY <1>1, AppendProperties, AppendIsConcat
<1>4. (d \o c) \o r = (d \o b) \o u
  <2>1. <<h>> \in Seq(Seq(AnyRow))
    OBVIOUS
  <2>2. d \o (b \o <<h>>) = (d \o b) \o <<h>>
    <3>1. PICK g \in Seq(Seq(AnyRow)) : g = <<h>>
      BY <2>1
    <3>2. PICK S : S = Seq(AnyRow)
      OBVIOUS
    <3>3. d \in Seq(S) /\ b \in Seq(S) /\ g \in Seq(S)
      BY <1>1, <3>2
    <3>4. (d \o b) \o g = d \o (b \o g)
      BY <3>3, ConcatAssociative, SMTT(40)
    <3> QED BY <3>1, <3>4
  <2>3. d \o b \in Seq(Seq(AnyRow))
    BY <1>1, ConcatProperties
  <2>4. ((d \o b) \o <<h>>) \o r = (d \o b) \o (<<h>> \o r)
    BY <2>1, <2>3, ConcatAssociative, SMTT(40)
  <2> QED BY <1>2, <1>3, <2>2, <2>4
<1>5. Whole(d, c, r, p)
  BY <1>1, <1>4 DEF Whole
<1>6. TaskOk("processing", d, c, r, p)
  BY <1>1, <1>5 DEF TaskOk, Starting
<1> QED BY <1>2, <1>3, <1>6

\* The end of the stream, when nothing is buffered and nothing is left.
LEMMA FinishOk ==
  ASSUME NEW p, NEW d, TaskOk("processing", d, <<>>, <<>>, p)
  PROVE  TaskOk("done", d, <<>>, <<>>, p)
<1>1. d \in Seq(Seq(AnyRow)) /\ <<>> \in Seq(Seq(AnyRow)) /\ Whole(d, <<>>, <<>>, p)
  BY DEF TaskOk
<1>2. (d \o <<>>) \o <<>> = d
  BY <1>1, ConcatEmptySeq
<1>3. FlattenSeq(d) = AllRows(p)
  BY <1>1, <1>2 DEF Whole
<1> QED BY <1>3 DEF TaskOk, Starting

\* A partition that is given up keeps what it has delivered.
LEMMA GiveUpOk ==
  ASSUME NEW p, NEW place, NEW d, NEW b, NEW u, TaskOk(place, d, b, u, p), NEW end \in {"panicked", "dropped"}
  PROVE  TaskOk(end, d, <<>>, <<>>, p)
<1>1. <<>> \in Seq(Seq(AnyRow)) /\ end \notin Starting /\ end # "processing" /\ end # "done"
  BY DEF Starting
<1> QED BY <1>1 DEF TaskOk

\* Before it is read, a partition may go from one place to another.
LEMMA MoveOk ==
  ASSUME NEW p, NEW place \in Starting, NEW d, NEW b, NEW u, TaskOk(place, d, b, u, p), NEW next \in Starting
  PROVE  TaskOk(next, d, b, u, p)
<1>1. next # "processing" /\ next # "done"
  BY DEF Starting
<1> QED BY <1>1 DEF TaskOk

-----------------------------------------------------------------------------
\* Delivered, buffered and unread rows of each partition are the partition.
RemoteInv ==
  /\ stream \in [Tasks -> Stages]
  /\ DOMAIN delivered = Tasks /\ DOMAIN buffered = Tasks /\ DOMAIN unread = Tasks
  /\ \A t \in Tasks : TaskOk(stream[t], delivered[t], buffered[t], unread[t], t[2])

\* A step of a partition that has not been executed yet.
LEMMA EarlyStep ==
  ASSUME RemoteInv, NEW t \in Tasks, stream[t] \in Starting, NEW place \in Starting,
         stream' = [stream EXCEPT ![t] = place], UNCHANGED <<delivered, buffered, unread>>
  PROVE  RemoteInv'
<1>1. TaskOk(place, delivered[t], buffered[t], unread[t], t[2])
  BY MoveOk DEF RemoteInv
<1>2. stream' \in [Tasks -> Stages]
  BY DEF RemoteInv, Stages
<1>3. ASSUME NEW s \in Tasks PROVE TaskOk(stream'[s], delivered'[s], buffered'[s], unread'[s], s[2])
  <2>1. CASE s = t
    <3>1. stream'[s] = place
      BY <2>1 DEF RemoteInv
    <3> QED BY <2>1, <3>1, <1>1
  <2>2. CASE s # t
    <3>1. stream'[s] = stream[s]
      BY <2>2 DEF RemoteInv
    <3> QED BY <3>1 DEF RemoteInv
  <2> QED BY <2>1, <2>2
<1> QED BY <1>2, <1>3 DEF RemoteInv

\* poll_next of FinalStream.
LEMMA PollStep ==
  ASSUME RemoteInv, NEW t \in Tasks, PollNext(t) PROVE RemoteInv'
<1> DEFINE d == delivered[t]
           b == buffered[t]
           u == unread[t]
<1>1. /\ stream[t] = "processing" /\ t[2] \in Partitions
      /\ stream \in [Tasks -> Stages] /\ "processing" \in Stages /\ "done" \in Stages
      /\ DOMAIN delivered = Tasks /\ DOMAIN buffered = Tasks /\ DOMAIN unread = Tasks
  BY DEF PollNext, At, RemoteInv, Tasks, Stages, Ended
<1>2. TaskOk("processing", d, b, u, t[2])
  BY <1>1 DEF RemoteInv
<1>3. CASE Emit(t) /\ b # <<>> /\ (Len(FlattenSeq(b)) > Threshold \/ u = <<>>)
  <2>1. TaskOk("processing", Append(d, FlattenSeq(b)), <<>>, u, t[2])
    BY <1>2, <1>3, EmitOk
  <2>2. ASSUME NEW s \in Tasks PROVE TaskOk(stream'[s], delivered'[s], buffered'[s], unread'[s], s[2])
    <3>1. CASE s = t
      <4>1. delivered'[s] = Append(d, FlattenSeq(b)) /\ buffered'[s] = <<>> /\ unread'[s] = u /\ stream'[s] = "processing"
        BY <1>1, <1>3, <3>1 DEF Emit
      <4> QED BY <2>1, <3>1, <4>1
    <3>2. CASE s # t
      <4>1. delivered'[s] = delivered[s] /\ buffered'[s] = buffered[s] /\ unread'[s] = unread[s] /\ stream'[s] = stream[s]
        BY <1>1, <1>3, <3>2 DEF Emit
      <4> QED BY <4>1 DEF RemoteInv
    <3> QED BY <3>1, <3>2
  <2>3. stream' = stream /\ unread' = unread /\ DOMAIN delivered' = Tasks /\ DOMAIN buffered' = Tasks
    BY <1>1, <1>3 DEF Emit
  <2> QED BY <1>1, <2>2, <2>3 DEF RemoteInv
<1>4. CASE Buffer(t) /\ u # <<>>
  <2>1. TaskOk("processing", d, Append(b, Head(u)), Tail(u), t[2])
    BY <1>2, <1>4, BufferOk
  <2>2. ASSUME NEW s \in Tasks PROVE TaskOk(stream'[s], delivered'[s], buffered'[s], unread'[s], s[2])
    <3>1. CASE s = t
      <4>1. delivered'[s] = d /\ buffered'[s] = Append(b, Head(u)) /\ unread'[s] = Tail(u) /\ stream'[s] = "processing"
        BY <1>1, <1>4, <3>1 DEF Buffer
      <4> QED BY <2>1, <3>1, <4>1
    <3>2. CASE s # t
      <4>1. delivered'[s] = delivered[s] /\ buffered'[s] = buffered[s] /\ unread'[s] = unread[s] /\ stream'[s] = stream[s]
        BY <1>1, <1>4, <3>2 DEF Buffer
      <4> QED BY <4>1 DEF RemoteInv
    <3> QED BY <3>1, <3>2
  <2>3. stream' = stream /\ delivered' = delivered /\ DOMAIN unread' = Tasks /\ DOMAIN buffered' = Tasks
    BY <1>1, <1>4 DEF Buffer
  <2> QED BY <1>1, <2>2, <2>3 DEF RemoteInv
<1>5. CASE Finish(t) /\ u = <<>> /\ b = <<>>
  <2>1. TaskOk("done", d, <<>>, <<>>, t[2])
    BY <1>2, <1>5, FinishOk
  <2>2. ASSUME NEW s \in Tasks PROVE TaskOk(stream'[s], delivered'[s], buffered'[s], unread'[s], s[2])
    <3>1. CASE s = t
      <4>1. delivered'[s] = d /\ buffered'[s] = <<>> /\ unread'[s] = <<>> /\ stream'[s] = "done"
        BY <1>1, <1>5, <3>1 DEF Finish, Goto
      <4> QED BY <2>1, <3>1, <4>1
    <3>2. CASE s # t
      <4>1. delivered'[s] = delivered[s] /\ buffered'[s] = buffered[s] /\ unread'[s] = unread[s] /\ stream'[s] = stream[s]
        BY <1>1, <1>5, <3>2 DEF Finish, Goto
      <4> QED BY <4>1 DEF RemoteInv
    <3> QED BY <3>1, <3>2
  <2>3. stream' \in [Tasks -> Stages] /\ delivered' = delivered /\ unread' = unread /\ buffered' = buffered
    BY <1>1, <1>5 DEF Finish, Goto
  <2> QED BY <1>1, <2>2, <2>3 DEF RemoteInv
<1>6. \/ Emit(t) /\ b # <<>> /\ (Len(FlattenSeq(b)) > Threshold \/ u = <<>>)
      \/ Buffer(t) /\ u # <<>>
      \/ Finish(t) /\ u = <<>> /\ b = <<>>
  <2>1. Threshold \in Nat
    BY RemoteAssumption DEF Threshold
  <2>2. Len(FlattenSeq(b)) > Threshold => b # <<>>
    <3>1. Len(FlattenSeq(<<>>)) = 0
      BY FlattenEmpty
    <3> QED BY <2>1, <3>1
  <2> QED BY <2>2 DEF PollNext
<1> QED BY <1>3, <1>4, <1>5, <1>6

\* A partition fails or is dropped.
LEMMA GiveUpStep ==
  ASSUME RemoteInv, NEW t \in Tasks, NEW place \in {"panicked", "dropped"}, GiveUp(t, place) PROVE RemoteInv'
<1>1. /\ stream \in [Tasks -> Stages] /\ place \in Stages
      /\ DOMAIN delivered = Tasks /\ DOMAIN buffered = Tasks /\ DOMAIN unread = Tasks
  BY DEF RemoteInv, Stages, Ended
<1>2. TaskOk(place, delivered[t], <<>>, <<>>, t[2])
  BY GiveUpOk DEF RemoteInv
<1>3. ASSUME NEW s \in Tasks PROVE TaskOk(stream'[s], delivered'[s], buffered'[s], unread'[s], s[2])
  <2>1. CASE s = t
    <3>1. delivered'[s] = delivered[t] /\ buffered'[s] = <<>> /\ unread'[s] = <<>> /\ stream'[s] = place
      BY <1>1, <2>1 DEF GiveUp, Goto
    <3> QED BY <1>2, <2>1, <3>1
  <2>2. CASE s # t
    <3>1. delivered'[s] = delivered[s] /\ buffered'[s] = buffered[s] /\ unread'[s] = unread[s] /\ stream'[s] = stream[s]
      BY <1>1, <2>2 DEF GiveUp, Goto
    <3> QED BY <3>1 DEF RemoteInv
  <2> QED BY <2>1, <2>2
<1>4. stream' \in [Tasks -> Stages] /\ DOMAIN delivered' = Tasks /\ DOMAIN buffered' = Tasks /\ DOMAIN unread' = Tasks
  BY <1>1 DEF GiveUp, Goto
<1> QED BY <1>3, <1>4 DEF RemoteInv

\* A restart of the server keeps RemoteInv: its streams end.
LEMMA RestartStep == ASSUME RemoteInv, RestartServer PROVE RemoteInv'
<1>1. /\ stream \in [Tasks -> Stages] /\ "panicked" \in Stages
      /\ DOMAIN delivered = Tasks /\ DOMAIN buffered = Tasks /\ DOMAIN unread = Tasks
  BY DEF RemoteInv, Stages, Ended
<1>2. ASSUME NEW s \in Tasks PROVE TaskOk(stream'[s], delivered'[s], buffered'[s], unread'[s], s[2])
  <2>1. delivered'[s] = delivered[s] /\ buffered'[s] = <<>> /\ unread'[s] = <<>>
    BY DEF RestartServer
  <2>2. TaskOk(stream[s], delivered[s], buffered[s], unread[s], s[2])
    BY DEF RemoteInv
  <2>3. CASE stream[s] = "processing"
    <3>1. stream'[s] = "panicked"
      BY <2>3 DEF RestartServer, At
    <3> QED BY <2>1, <2>2, <3>1, GiveUpOk
  <2>4. CASE stream[s] # "processing"
    <3>1. stream'[s] = stream[s]
      BY <2>4 DEF RestartServer, At
    <3>2. <<>> \in Seq(Seq(AnyRow))
      OBVIOUS
    <3>3. TaskOk(stream[s], delivered[s], <<>>, <<>>, s[2])
      BY <2>2, <2>4, <3>2 DEF TaskOk
    <3> QED BY <2>1, <3>1, <3>3
  <2> QED BY <2>3, <2>4
<1>3. stream' \in [Tasks -> Stages] /\ DOMAIN delivered' = Tasks /\ DOMAIN buffered' = Tasks /\ DOMAIN unread' = Tasks
  BY <1>1 DEF RestartServer
<1> QED BY <1>2, <1>3 DEF RemoteInv

\* do_get starts the stream of a partition whose plan is registered.
LEMMA DoGetStep == ASSUME RemoteInv, NEW t \in Tasks, DoGet(t) PROVE RemoteInv'
<1>1. /\ stream[t] = "get" /\ t[2] \in Partitions /\ stream \in [Tasks -> Stages]
      /\ "processing" \in Stages /\ "panicked" \in Stages /\ "get" \in Starting
      /\ DOMAIN delivered = Tasks /\ DOMAIN buffered = Tasks /\ DOMAIN unread = Tasks
  BY DEF DoGet, At, RemoteInv, Tasks, Stages, Ended, Starting
<1>2. TaskOk("get", delivered[t], buffered[t], unread[t], t[2])
  BY <1>1 DEF RemoteInv
<1>3. delivered[t] = <<>> /\ buffered[t] = <<>>
  BY <1>1, <1>2 DEF TaskOk
<1>4. delivered' = delivered /\ buffered' = buffered
  BY DEF DoGet, resultVars
<1>5. CASE CanExecute(t)
  <2>1. unread' = [unread EXCEPT ![t] = PlanBatches(t[2])] /\ stream' = [stream EXCEPT ![t] = "processing"]
    BY <1>5 DEF DoGet, Goto
  <2>2. TaskOk("processing", delivered[t], buffered[t], PlanBatches(t[2]), t[2])
    BY <1>1, <1>3, StartOk
  <2>3. ASSUME NEW s \in Tasks PROVE TaskOk(stream'[s], delivered'[s], buffered'[s], unread'[s], s[2])
    <3>1. CASE s = t
      <4>1. unread'[s] = PlanBatches(t[2]) /\ stream'[s] = "processing"
        BY <1>1, <2>1, <3>1
      <4> QED BY <1>4, <2>2, <3>1, <4>1
    <3>2. CASE s # t
      <4>1. unread'[s] = unread[s] /\ stream'[s] = stream[s]
        BY <1>1, <2>1, <3>2
      <4> QED BY <1>4, <4>1 DEF RemoteInv
    <3> QED BY <3>1, <3>2
  <2> QED BY <1>1, <1>4, <2>1, <2>3 DEF RemoteInv
<1>6. CASE ~CanExecute(t)
  <2>1. unread' = unread /\ stream' = [stream EXCEPT ![t] = "panicked"]
    BY <1>6 DEF DoGet, Goto
  <2>2. TaskOk("panicked", delivered[t], buffered[t], unread[t], t[2])
    BY <1>2 DEF TaskOk, Starting
  <2>3. ASSUME NEW s \in Tasks PROVE TaskOk(stream'[s], delivered'[s], buffered'[s], unread'[s], s[2])
    <3>1. CASE s = t
      <4>1. stream'[s] = "panicked"
        BY <1>1, <2>1, <3>1
      <4> QED BY <1>4, <2>1, <2>2, <3>1, <4>1
    <3>2. CASE s # t
      <4>1. stream'[s] = stream[s]
        BY <1>1, <2>1, <3>2
      <4> QED BY <1>4, <2>1, <4>1 DEF RemoteInv
    <3> QED BY <3>1, <3>2
  <2> QED BY <1>1, <1>4, <2>1, <2>3 DEF RemoteInv
<1> QED BY <1>5, <1>6

\* Every step of a partition keeps RemoteInv.
LEMMA RemoteStep == ASSUME RemoteInv, NEW t \in Tasks, Step(t) PROVE RemoteInv'
<1> USE DEF At, Goto, serverVars, resultVars, Starting
<1>0. stream \in [Tasks -> Stages]
  BY DEF RemoteInv
<1>1. CASE Connect(t)
  <2>1. stream[t] = "init" /\ UNCHANGED <<delivered, buffered, unread>>
    BY <1>1 DEF Connect
  <2>2. \E place \in Starting : stream' = [stream EXCEPT ![t] = place]
    BY <1>1 DEF Connect
  <2> QED BY <2>1, <2>2, EarlyStep
<1>2. CASE RegisterObjectStore(t)
  <2>1. stream[t] = "stores" /\ UNCHANGED <<delivered, buffered, unread>>
    BY <1>2 DEF RegisterObjectStore
  <2>2. CASE storeNext[t[1]] > Len(Stores)
    <3>1. stream' = [stream EXCEPT ![t] = "plan"]
      BY <1>2, <2>2 DEF RegisterObjectStore
    <3> QED BY <2>1, <3>1, EarlyStep
  <2>3. CASE ~(storeNext[t[1]] > Len(Stores))
    <3>1. stream' = stream
      BY <1>2, <2>3 DEF RegisterObjectStore
    <3> QED BY <2>1, <3>1 DEF RemoteInv
  <2> QED BY <2>2, <2>3
<1>3. CASE RegisterPlan(t)
  <2>1. stream[t] = "plan" /\ UNCHANGED <<delivered, buffered, unread>> /\ stream' = [stream EXCEPT ![t] = "get"]
    BY <1>3 DEF RegisterPlan
  <2> QED BY <2>1, EarlyStep
<1>4. CASE StopWaiting(t)
  <2>1. stream[t] = "waiting" /\ UNCHANGED <<delivered, buffered, unread>> /\ stream' = [stream EXCEPT ![t] = "get"]
    BY <1>4 DEF StopWaiting
  <2> QED BY <2>1, EarlyStep
<1> QED BY <1>1, <1>2, <1>3, <1>4, DoGetStep, PollStep DEF Step

\* RemoteInv holds whatever calls fail and streams are dropped.
LEMMA RemoteInvariant == RemoteSpec => []RemoteInv
<1>1. Init => RemoteInv
  <2> SUFFICES ASSUME Init PROVE RemoteInv
    OBVIOUS
  <2>1. stream \in [Tasks -> Stages] /\ DOMAIN delivered = Tasks /\ DOMAIN buffered = Tasks /\ DOMAIN unread = Tasks
    BY DEF Init, Stages, Starting
  <2>2. ASSUME NEW t \in Tasks PROVE TaskOk(stream[t], delivered[t], buffered[t], unread[t], t[2])
    <3>1. stream[t] = "init" /\ delivered[t] = <<>> /\ buffered[t] = <<>> /\ unread[t] = <<>> /\ t[2] \in Partitions
      BY DEF Init, Tasks
    <3>2. TaskOk("processing", <<>>, <<>>, PlanBatches(t[2]), t[2])
      BY <3>1, StartOk
    <3>3. TaskOk("init", <<>>, <<>>, <<>>, t[2])
      BY <3>2 DEF TaskOk
    <3> QED BY <3>1, <3>3
  <2> QED BY <2>1, <2>2 DEF RemoteInv
<1>2. RemoteInv /\ [Next]_vars => RemoteInv'
  <2> SUFFICES ASSUME RemoteInv, [Next]_vars PROVE RemoteInv'
    OBVIOUS
  <2>1. CASE UNCHANGED vars
    BY <2>1 DEF vars, RemoteInv
  <2>2. ASSUME NEW t \in Tasks, CallFails(t) PROVE RemoteInv'
    BY <2>2, GiveUpStep DEF CallFails
  <2>3. ASSUME NEW t \in Tasks, DropStream(t) PROVE RemoteInv'
    BY <2>3, GiveUpStep DEF DropStream
  <2> QED BY <2>1, <2>2, <2>3, RestartStep, RemoteStep DEF Next
<1> QED BY <1>1, <1>2, PTL DEF RemoteSpec

\* Whatever the batches of a partition and the target size, whichever calls fail,
\* streams are dropped and servers restart: the consumer gets a prefix of the
\* partition's rows, all of them if the stream ends, in large batches
\* (FinalStream::poll_next, FlightStream).
THEOREM RowsAreDelivered == RemoteSpec => []DeliveredExact
<1>1. RemoteInv => DeliveredExact
  BY DEF RemoteInv, DeliveredExact, TaskOk, Whole, Large, AllRows, At
<1> QED BY <1>1, RemoteInvariant, PTL
=============================================================================
