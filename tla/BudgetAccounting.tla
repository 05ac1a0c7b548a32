-------------------------- MODULE BudgetAccounting --------------------------
(***************************************************************************)
(* The lock-free memory budget (storage/src/cache/budget.rs), one atomic   *)
(* access per step.  Each thread stands for the caller of one entry: held  *)
(* is the size it has reserved, which it grows with try_reserve_memory or  *)
(* changes with try_update_memory_usage.                                   *)
(***************************************************************************)
EXTENDS Footprint

CONSTANTS Threads,     \* callers
          MaxBytes,    \* max_memory_bytes
          Sizes        \* sizes that callers ask for

ASSUME BudgetAssumption ==
  /\ IsFiniteSet(Threads)
  /\ MaxBytes \in Nat
  /\ Sizes \subseteq Nat

VARIABLES used,        \* used_memory_bytes
          pc,          \* [Threads -> {"idle", "load", "cas"}]
          req,         \* [Threads -> Nat]: request_bytes
          loaded,      \* [Threads -> Nat]: the local used
          held,        \* ghost: what each thread has reserved
          result       \* what the last call returned

vars == <<used, pc, req, loaded, held, result>>

TypeOK ==
  /\ used \in Nat
  /\ pc \in [Threads -> {"idle", "load", "cas"}]
  /\ req \in [Threads -> Nat]
  /\ loaded \in [Threads -> Nat]
  /\ held \in [Threads -> Nat]
  /\ result \in [Threads -> {"none", "ok", "err"}]

Init ==
  /\ used = 0
  /\ pc = [t \in Threads |-> "idle"]
  /\ req = [t \in Threads |-> 0]
  /\ loaded = [t \in Threads |-> 0]
  /\ held = [t \in Threads |-> 0]
  /\ result = [t \in Threads |-> "none"]

\* Enter try_reserve_memory(n).
Reserve(t, n) ==
  /\ pc' = [pc EXCEPT ![t] = "load"]
  /\ req' = [req EXCEPT ![t] = n]
  /\ result' = [result EXCEPT ![t] = "none"]
  /\ UNCHANGED <<used, loaded, held>>

TryReserveMemory(t) ==
  /\ pc[t] = "idle"
  /\ \E n \in Sizes : Reserve(t, n)

(* Plausible mistakes in budget.rs; the runs must tell each from the code. *)

\* >= instead of >: the last byte is never given out
LoadOffByOne(t) ==
  /\ pc[t] = "load"
  /\ loaded' = [loaded EXCEPT ![t] = used]
  /\ IF used + req[t] >= MaxBytes
     THEN /\ pc' = [pc EXCEPT ![t] = "idle"]
          /\ result' = [result EXCEPT ![t] = "err"]
     ELSE /\ pc' = [pc EXCEPT ![t] = "cas"]
          /\ UNCHANGED result
  /\ UNCHANGED <<used, req, held>>

\* a plain store instead of compare_exchange
StoreWithoutCompare(t) ==
  /\ pc[t] = "cas"
  /\ used' = loaded[t] + req[t]
  /\ held' = [held EXCEPT ![t] = held[t] + req[t]]
  /\ pc' = [pc EXCEPT ![t] = "idle"]
  /\ result' = [result EXCEPT ![t] = "ok"]
  /\ UNCHANGED <<req, loaded>>

\* load, and the test that the request fits what was loaded
Load(t) ==
  /\ pc[t] = "load"
  /\ loaded' = [loaded EXCEPT ![t] = used]
  /\ IF used + req[t] > MaxBytes
     THEN /\ pc' = [pc EXCEPT ![t] = "idle"]
          /\ result' = [result EXCEPT ![t] = "err"]
     ELSE /\ pc' = [pc EXCEPT ![t] = "cas"]
          /\ UNCHANGED result
  /\ UNCHANGED <<used, req, held>>

\* compare_exchange; on failure try_reserve_memory calls itself
CompareExchange(t) ==
  /\ pc[t] = "cas"
  /\ IF used = loaded[t]
     THEN /\ used' = loaded[t] + req[t]
          /\ held' = [held EXCEPT ![t] = held[t] + req[t]]
          /\ pc' = [pc EXCEPT ![t] = "idle"]
          /\ result' = [result EXCEPT ![t] = "ok"]
     ELSE /\ pc' = [pc EXCEPT ![t] = "load"]
          /\ UNCHANGED <<used, held, result>>
  /\ UNCHANGED <<req, loaded>>

\* try_update_memory_usage(held, new): grow by reserving the difference, shrink
\* at once.
TryUpdateMemoryUsage(t) ==
  /\ pc[t] = "idle"
  /\ \E new \in Sizes :
       \/ /\ held[t] < new
          /\ Reserve(t, new - held[t])
       \/ /\ ~(held[t] < new)
          /\ used' = used - (held[t] - new)
          /\ held' = [held EXCEPT ![t] = new]
          /\ result' = [result EXCEPT ![t] = "ok"]
          /\ UNCHANGED <<pc, req, loaded>>

\* reset_usage, called while the cache is not in use
ResetUsage ==
  /\ \A t \in Threads : pc[t] = "idle"
  /\ used' = 0
  /\ held' = [t \in Threads |-> 0]
  /\ UNCHANGED <<pc, req, loaded, result>>

Next ==
  \/ ResetUsage
  \/ \E t \in Threads : TryReserveMemory(t) \/ Load(t) \/ CompareExchange(t)
                        \/ TryUpdateMemoryUsage(t)

Spec == Init /\ [][Next]_vars

-----------------------------------------------------------------------------
\* The assertions of test_concurrent_memory_budget, at every instant: the
\* usage is the sum of what the callers hold, whatever CAS failures and
\* releases come between a load and its compare_exchange ...
UsageIsHeld == used = Total(held)

\* ... and never more than max_memory_bytes.
UsageBounded == used <= MaxBytes

\* The retry loop is linearizable: it implements the budget that decides
\* every request at one instant.
Atomic == INSTANCE AtomicBudget WITH busy <- {t \in Threads : pc[t] # "idle"}

ImplementsAtomicBudget == Atomic!ASpec
=============================================================================
