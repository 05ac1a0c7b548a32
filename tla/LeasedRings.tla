---------------------------- MODULE LeasedRings ----------------------------
(***************************************************************************)
(* A pool of rings, each leased by one task at a time, so that a ring has  *)
(* no use for tokens: multi_async_uring.rs polls its ring for a completion,*)
(* multi_blocking_uring.rs waits for it in submit_and_wait.  The wait may  *)
(* be cut short (by a signal) and leave the completion queue empty; the    *)
(* task then fails, and the ring goes back to the pool.                    *)
(***************************************************************************)
EXTENDS IoConstants

VARIABLES mode,       \* "async" or "blocking"
          state,      \* [Futures -> "created", "pending", "done", "failed", "dropped"]
          ring,       \* [Futures -> Rings \cup {None}]: the lease
          pool,       \* available_rings, oldest first
          unused,     \* rings not yet built
          inflight,   \* [Rings -> SUBSET Futures]: operations in the kernel
          cq,         \* [Rings -> Seq(Futures)]: completion queues
          got,        \* ghost: whose completion each task was given
          late        \* ghost: tasks whose ring still owed an earlier completion

vars == <<mode, state, ring, pool, unused, inflight, cq, got, late>>

\* available_parallelism rings are built at the start: one here.
Init ==
  /\ state = [f \in Futures |-> "created"]
  /\ ring = [f \in Futures |-> None]
  /\ pool = <<CHOOSE r \in Rings : TRUE>>
  /\ unused = Rings \ Elements(pool)
  /\ inflight = [r \in Rings |-> {}]
  /\ cq = [r \in Rings |-> <<>>]
  /\ got = [f \in Futures |-> None]
  /\ late = {}

\* acquire_ring takes a ring of the pool or builds one; then submit_task.
Lease(f) ==
  /\ state[f] = "created"
  /\ \E r \in Rings :
       /\ \/ pool # <<>> /\ r = Head(pool) /\ pool' = Tail(pool) /\ UNCHANGED unused
          \/ pool = <<>> /\ r \in unused /\ unused' = unused \ {r} /\ UNCHANGED pool
       /\ ring' = [ring EXCEPT ![f] = r]
       /\ inflight' = [inflight EXCEPT ![r] = @ \cup {f}]
       /\ late' = IF inflight[r] # {} \/ cq[r] # <<>> THEN late \cup {f} ELSE late
  /\ state' = [state EXCEPT ![f] = "pending"]
  /\ UNCHANGED <<mode, cq, got>>

Release(f, s) ==
  /\ state' = [state EXCEPT ![f] = s]
  /\ pool' = Append(pool, ring[f])
  /\ ring' = [ring EXCEPT ![f] = None]

\* cq.next(), and the lease is dropped with the future's state
Complete(f) ==
  /\ state[f] = "pending" /\ cq[ring[f]] # <<>>
  /\ got' = [got EXCEPT ![f] = Head(cq[ring[f]])]
  /\ cq' = [cq EXCEPT ![ring[f]] = Tail(@)]
  /\ Release(f, "done")
  /\ UNCHANGED <<mode, unused, inflight, late>>

\* "io-uring completion queue empty"
Interrupted(f) ==
  /\ mode = "blocking"
  /\ state[f] = "pending" /\ cq[ring[f]] = <<>>
  /\ Release(f, "failed")
  /\ UNCHANGED <<mode, unused, inflight, cq, got, late>>

\* Mistake: a future dropped while pending gives its ring back to the pool.
DropReleases(f) ==
  /\ mode = "async"
  /\ state[f] = "pending"
  /\ Release(f, "dropped")
  /\ UNCHANGED <<mode, unused, inflight, cq, got, late>>

\* Drop of a pending future closes its ring instead of giving it back.
DropFuture(f) ==
  /\ mode = "async"
  /\ state[f] \in {"created", "pending"}
  /\ state' = [state EXCEPT ![f] = "dropped"]
  /\ ring' = [ring EXCEPT ![f] = None]
  /\ UNCHANGED <<mode, pool, unused, inflight, cq, got, late>>

Kernel ==
  /\ \E r \in Rings : \E f \in inflight[r] :
       /\ inflight' = [inflight EXCEPT ![r] = @ \ {f}]
       /\ cq' = [cq EXCEPT ![r] = Append(@, f)]
  /\ UNCHANGED <<mode, state, ring, pool, unused, got, late>>

Step(f) == Lease(f) \/ Complete(f)

Next == Kernel \/ \E f \in Futures : Step(f) \/ Interrupted(f) \/ DropFuture(f)

Fairness == WF_vars(Kernel) /\ \A f \in Futures : WF_vars(Step(f))

-----------------------------------------------------------------------------
TypeOK ==
  /\ state \in [Futures -> {"created", "pending", "done", "failed", "dropped"}]
  /\ ring \in [Futures -> Rings \cup {None}]
  /\ Elements(pool) \cup unused \subseteq Rings
  /\ inflight \in [Rings -> SUBSET Futures]
  /\ \A r \in Rings : Elements(cq[r]) \subseteq Futures
  /\ got \in [Futures -> Futures \cup {None}]

\* A ring is in the pool, or leased by one task, or neither.
LeasedOnce ==
  /\ TypeOK
  /\ Len(pool) = Cardinality(Elements(pool))
  /\ \A f, g \in Futures : ring[f] # None /\ ring[f] = ring[g] => f = g
  /\ \A f \in Futures : ring[f] \notin Elements(pool) \cup unused
=============================================================================
