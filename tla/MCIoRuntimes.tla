---------------------------- MODULE MCIoRuntimes ----------------------------
(***************************************************************************)
(* The io_uring runtimes side by side, and the tasks they carry out: a     *)
(* behaviour exercises the one that IoMode selects, or a single task, and  *)
(* the state of the others rests.                                          *)
(***************************************************************************)
EXTENDS IoConstants, IoTasks

VARIABLES mode,                                                  \* IoMode
          pc, token, free, store, sInflight, sCq, abandoned, lock, batch, sGot,
          wState, channel, worker, tokens, submitted, sq, wInflight, wCq, reply,
          lState, ring, pool, unused, lInflight, lCq, lGot, late

sharedVars == <<pc, token, free, store, sInflight, sCq, abandoned, lock, batch, sGot>>
workerVars == <<wState, channel, worker, tokens, submitted, sq, wInflight, wCq, reply>>
leasedVars == <<lState, ring, pool, unused, lInflight, lCq, lGot, late>>
vars == <<mode, sharedVars, workerVars, leasedVars, taskVars>>

Shared == INSTANCE SharedRing WITH inflight <- sInflight, cq <- sCq, got <- sGot
Pool == INSTANCE UringWorker WITH state <- wState, inflight <- wInflight, cq <- wCq
Leased == INSTANCE LeasedRings
            WITH state <- lState, inflight <- lInflight, cq <- lCq, got <- lGot

CONSTANT Exercised      \* the runtimes that this run exercises

Init == mode \in Exercised /\ Shared!Init /\ Pool!Init /\ Leased!Init /\ TaskInit

SharedNext == mode = "shared" /\ Shared!Next /\ UNCHANGED <<mode, workerVars, leasedVars, taskVars>>
PoolNext == mode = "pool" /\ Pool!Next /\ UNCHANGED <<mode, sharedVars, leasedVars, taskVars>>
LeasedNext == mode \in {"async", "blocking"} /\ Leased!Next /\ UNCHANGED <<sharedVars, workerVars, taskVars>>
TasksNext == mode = "task" /\ TaskNext /\ UNCHANGED <<mode, sharedVars, workerVars, leasedVars>>

\* Every task has come to an end.
Over ==
  CASE mode = "task"   -> task.at \in {"idle", "result"}
    [] mode = "shared" -> \A f \in Futures : pc[f] \in {"done", "dropped"}
    [] mode = "pool"   -> \A f \in Futures : wState[f] \in {"done", "dropped", "panicked"}
    [] OTHER           -> \A f \in Futures : lState[f] \in {"done", "dropped", "failed"}
Rest == Over /\ UNCHANGED vars

Next == SharedNext \/ PoolNext \/ LeasedNext \/ TasksNext \/ Rest

Spec ==
  /\ Init /\ [][Next]_vars
  /\ mode = "shared" => Shared!Fairness
  /\ mode = "pool" => Pool!Fairness
  /\ mode \in {"async", "blocking"} => Leased!Fairness

-----------------------------------------------------------------------------
\* A task is completed with the entry of its own operation and no other, although
\* tokens and rings are used again, futures are dropped at any time and draining
\* races with both; only a blocking ring that was given back with an operation
\* under way may deliver that operation's entry to its next user.
OwnCompletion ==
  \A f \in Futures :
    /\ sGot[f] \in {None, f} /\ reply[f] \in {None, f}
    /\ lGot[f] \in {None, f} \/ (mode = "blocking" /\ f \in late)

\* No token is in two places and no ring has two users.
TokenOnce == Shared!TokenOnce /\ Pool!TokenOnce /\ Leased!LeasedOnce

\* Every task comes to an end, also when there are more tasks than tokens and
\* others are dropped while they hold one, unless the shared ring leaks a token;
\* and it ends with a panic only if the caller of some task has dropped it.
IoEnds ==
  /\ (mode # "task" /\ [](\A t \in Tokens : ~Shared!Leaked(t))) => <>[]Over
  /\ []((\E f \in Futures : wState[f] = "panicked") => \E f \in Futures : wState[f] = "dropped")
=============================================================================
