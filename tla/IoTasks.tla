------------------------------ MODULE IoTasks ------------------------------
(***************************************************************************)
(* What one read or write of a file does in the back ends of IoMode: the   *)
(* open, read and write tasks of the io_uring modes, with blocks aligned   *)
(* for direct I/O, and the blocking and tokio back ends.  The kernel may   *)
(* transfer less than it was asked for.                                    *)
(***************************************************************************)
EXTENDS Integers, Sequences, FiniteSetsExt

CONSTANTS BlockAlign,       \* BLOCK_ALIGN
          MaxLength         \* bounds the bytes written to the file

ASSUME IoTasksAssumption == BlockAlign \in Nat \ {0} /\ MaxLength \in Nat \ {0}

VARIABLES disk,             \* <<>>, or <<bytes>> once the file exists
          task,             \* the operation under way, or its outcome
          wanted,           \* the bytes of the last write that was reported done
          short             \* a transfer has moved less than it could

taskVars == <<disk, task, wanted, short>>

\* IoMode, by what its reads and writes do to the bytes of a file.
Backends == {"uring", "uringDirect", "std", "tokio"}
Uring(backend) == backend \in {"uring", "uringDirect"}
\* What tokio may have written when it reports a write.
Unflushed(backend) == IF backend = "tokio" THEN {0} ELSE {}
Zeros(n) == [i \in 1 .. n |-> 0]
Idle == [at |-> "idle"]

TaskInit == disk = <<>> /\ task = Idle /\ wanted = <<>> /\ short = FALSE

\* write: the file is created or truncated.
StartWrite(backend, data) ==
  /\ task.at \in {"idle", "result"}
  /\ disk' = <<<<>>>>
  /\ task' = [at |-> "write", backend |-> backend, data |-> data]
  /\ UNCHANGED <<wanted, short>>

\* FileWriteTask: any result that is not negative is success; the blocking write_all
\* goes on until everything is written; tokio's returns when it has handed the bytes
\* to a thread, and they may still be on their way when the file is dropped.
CompleteWrite(n) ==
  /\ task.at = "write"
  /\ n \in 0 .. Len(task.data) /\ (Uring(task.backend) \/ n \in {Len(task.data)} \union Unflushed(task.backend))
  /\ disk' = <<SubSeq(task.data, 1, n)>>
  /\ wanted' = task.data
  /\ short' = (short \/ n < Len(task.data))
  /\ task' = Idle

\* The whole file is read if no range is given; a missing file is an error.
RangeOf(range) == IF range = <<>> THEN <<0, Len(disk[1])>> ELSE range
Result(range, ok, bytes) == [at |-> "result", range |-> range, ok |-> ok, bytes |-> bytes]

\* FileOpenTask.
Open(backend, range) ==
  /\ Uring(backend) /\ task.at \in {"idle", "result"} /\ disk # <<>>
  /\ task' = [at |-> "open", backend |-> backend, range |-> RangeOf(range)]
  /\ UNCHANGED <<disk, wanted, short>>

\* read_blocking_impl and read_tokio: read_exact fails at the end of the file.
ReadExact(range) ==
  /\ task.at \in {"idle", "result"} /\ disk # <<>>
  /\ task' = LET r == RangeOf(range)
             IN  Result(r, r[2] <= Len(disk[1]), SubSeq(disk[1], r[1] + 1, Min({r[2], Len(disk[1])})))
  /\ UNCHANGED <<disk, wanted, short>>

\* An end padding that forgets ranges which end on a block.
ComputePaddingAlways(range, direct) ==
  IF direct THEN <<range[1] % BlockAlign, BlockAlign>> ELSE <<0, 0>>
ComputePadding(range, direct) ==
  IF direct
  THEN <<range[1] % BlockAlign, (BlockAlign - (range[2] % BlockAlign)) % BlockAlign>>
  ELSE <<0, 0>>

Padding(t) == ComputePadding(t.range, t.backend = "uringDirect")
AlignedBytes(t) == t.range[2] - t.range[1] + Padding(t)[1] + Padding(t)[2]
Spare(t) == IF t.backend = "uringDirect" THEN BlockAlign ELSE 0

\* FileReadTask::build: the buffer comes from the allocator at an address of any
\* alignment, and is used from its first aligned byte.
BuildRead(base) ==
  /\ task.at = "open"
  /\ base \in 0 .. BlockAlign - 1 /\ (task.backend = "uringDirect" \/ base = 0)
  /\ task' = [at |-> "read", backend |-> task.backend, range |-> task.range,
              offset |-> (BlockAlign - base) % BlockAlign, base |-> base,
              buffer |-> Zeros(AlignedBytes(task) + Spare(task))]
  /\ UNCHANGED <<disk, wanted, short>>

\* The kernel fills the buffer from the block that holds the start of the range;
\* direct I/O needs whole blocks at aligned addresses.
Readable(t) == Max({0, Min({AlignedBytes(t), Len(disk[1]) - (t.range[1] - Padding(t)[1])})})
DirectIsLegal(t) ==
  /\ (t.base + t.offset) % BlockAlign = 0 /\ AlignedBytes(t) % BlockAlign = 0
  /\ (t.range[1] - Padding(t)[1]) % BlockAlign = 0
Filled(t, n) ==
  [i \in DOMAIN t.buffer |->
     IF i - t.offset \in 1 .. n THEN disk[1][t.range[1] - Padding(t)[1] + i - t.offset] ELSE t.buffer[i]]

\* FileReadTask::complete and into_result: only the sign of the result counts.
Slice(t, buffer) ==
  LET from == t.offset + Padding(t)[1]
  IN  SubSeq(buffer, from + 1, from + t.range[2] - t.range[1])
CompleteRead(n) ==
  /\ task.at = "read" /\ n \in 0 .. Readable(task)
  /\ task' = Result(task.range, task.backend = "uring" \/ DirectIsLegal(task), Slice(task, Filled(task, n)))
  /\ short' = (short \/ n < Readable(task))
  /\ UNCHANGED <<disk, wanted>>

Data == {[i \in 1 .. n |-> i] : n \in 1 .. MaxLength}
Ranges == {range \in (0 .. MaxLength) \X (0 .. MaxLength) : range[1] < range[2]}
TaskNext ==
  \/ \E backend \in Backends : \/ \E data \in Data : StartWrite(backend, data)
                               \/ \E range \in Ranges \union {<<>>} : Open(backend, range)
  \/ \E range \in Ranges \union {<<>>} : ReadExact(range)
  \/ \E n \in 0 .. MaxLength + 2 * BlockAlign : CompleteWrite(n) \/ CompleteRead(n) \/ BuildRead(n)

-----------------------------------------------------------------------------
\* A read that reports success has the bytes that the last write was given,
\* whatever the alignment of range, file and buffer, unless the kernel
\* transferred less than it could: no back end of io_uring looks at the length of
\* a completed transfer.
TransfersExact ==
  task.at = "result" /\ ~short /\ task.range[2] <= Len(wanted) =>
    task.ok /\ task.bytes = SubSeq(wanted, task.range[1] + 1, task.range[2])
=============================================================================
