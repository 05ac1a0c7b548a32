---------------------------- MODULE BudgetProofs ----------------------------
(***************************************************************************)
(* The budget is exact and bounded for any number of callers, and its      *)
(* retry loop is linearizable.                                             *)
(***************************************************************************)
EXTENDS BudgetAccounting, NumberTheorems

\* A caller about to compare_exchange has checked its request against the
\* value it loaded.
Checked == \A t \in Threads : pc[t] = "cas" => loaded[t] + req[t] <= MaxBytes

Inv == TypeOK /\ Checked /\ UsageIsHeld /\ UsageBounded

\* Before any call nothing is held and nothing is used.
LEMMA InvInit == Init => Inv
<1> SUFFICES ASSUME Init PROVE Inv
  OBVIOUS
<1>1. TypeOK /\ Checked /\ UsageBounded
  BY BudgetAssumption DEF Init, TypeOK, Checked, UsageBounded
<1>2. UsageIsHeld
  BY TotalZero DEF Init, UsageIsHeld
<1> QED BY <1>1, <1>2 DEF Inv

\* A successful compare_exchange adds the request to the caller's share and
\* to the usage alike.
LEMMA ExchangeStep ==
  ASSUME Inv, NEW t \in Threads, CompareExchange(t), used = loaded[t]
  PROVE  Inv'
<1> USE DEF Inv, TypeOK
<1>1. /\ used' = used + req[t] /\ held' = [held EXCEPT ![t] = held[t] + req[t]]
      /\ pc' = [pc EXCEPT ![t] = "idle"] /\ UNCHANGED <<req, loaded>>
      /\ result' = [result EXCEPT ![t] = "ok"]
      /\ pc[t] = "cas"
  BY DEF CompareExchange
<1>2. TypeOK'
  BY <1>1
<1>3. Total(held') = Total(held) - held[t] + (held[t] + req[t]) /\ Total(held) \in Nat
  <2>1. PICK n \in Nat : n = held[t] + req[t]
    OBVIOUS
  <2>2. /\ Total(held) \in Nat
        /\ Total([held EXCEPT ![t] = n]) = Total(held) - held[t] + n
    BY BudgetAssumption, TotalUpdate
  <2> QED BY <1>1, <2>1, <2>2
<1>4. UsageIsHeld'
  BY <1>1, <1>3 DEF UsageIsHeld
<1>5. Checked' /\ UsageBounded'
  BY <1>1, BudgetAssumption DEF Checked, UsageBounded
<1> QED BY <1>2, <1>4, <1>5

\* A shrinking try_update_memory_usage takes the same number of bytes from
\* the caller's share and from the usage, and never more than are used.
LEMMA UpdateStep ==
  ASSUME Inv, NEW t \in Threads, TryUpdateMemoryUsage(t)
  PROVE  Inv'
<1> USE DEF Inv, TypeOK
<1>1. PICK new \in Sizes :
       \/ held[t] < new /\ Reserve(t, new - held[t])
       \/ /\ ~(held[t] < new)
          /\ used' = used - (held[t] - new)
          /\ held' = [held EXCEPT ![t] = new]
          /\ result' = [result EXCEPT ![t] = "ok"]
          /\ UNCHANGED <<pc, req, loaded>>
  BY DEF TryUpdateMemoryUsage
<1>2. new \in Nat
  BY BudgetAssumption
<1>3. CASE held[t] < new /\ Reserve(t, new - held[t])
  BY <1>2, <1>3 DEF Reserve, Checked, UsageIsHeld, UsageBounded
<1>4. CASE /\ ~(held[t] < new)
           /\ used' = used - (held[t] - new)
           /\ held' = [held EXCEPT ![t] = new]
           /\ result' = [result EXCEPT ![t] = "ok"]
           /\ UNCHANGED <<pc, req, loaded>>
  <2>1. /\ Total(held) \in Nat /\ held[t] <= Total(held)
        /\ Total(held') = Total(held) - held[t] + new
    <3>1. /\ Total(held) \in Nat /\ held[t] <= Total(held)
          /\ Total([held EXCEPT ![t] = new]) = Total(held) - held[t] + new
      BY <1>2, TotalUpdate, BudgetAssumption
    <3> QED BY <1>4, <3>1
  <2>2. used' \in Nat /\ used' <= used
    BY <1>2, <1>4, <2>1 DEF UsageIsHeld
  <2>3. TypeOK'
    BY <1>2, <1>4, <2>2
  <2>4. UsageIsHeld'
    BY <1>2, <1>4, <2>1 DEF UsageIsHeld
  <2>5. Checked' /\ UsageBounded'
    BY <1>4, <2>2, BudgetAssumption DEF Checked, UsageBounded
  <2> QED BY <2>3, <2>4, <2>5
<1> QED BY <1>1, <1>3, <1>4

\* Every step of every caller keeps the invariant.
LEMMA InvStep == Inv /\ [Next]_vars => Inv'
<1> SUFFICES ASSUME Inv, [Next]_vars PROVE Inv'
  OBVIOUS
<1> USE DEF Inv, TypeOK, Checked, UsageIsHeld, UsageBounded
<1>1. ASSUME NEW t \in Threads, TryReserveMemory(t) PROVE Inv'
  BY <1>1, BudgetAssumption DEF TryReserveMemory, Reserve
<1>2. ASSUME NEW t \in Threads, Load(t) PROVE Inv'
  <2>1. CASE used + req[t] > MaxBytes
    BY <1>2, <2>1 DEF Load
  <2>2. CASE ~(used + req[t] > MaxBytes)
    BY <1>2, <2>2, BudgetAssumption DEF Load
  <2> QED BY <2>1, <2>2
<1>3. ASSUME NEW t \in Threads, CompareExchange(t) PROVE Inv'
  <2>1. CASE used = loaded[t]
    BY <1>3, <2>1, ExchangeStep
  <2>2. CASE used # loaded[t]
    BY <1>3, <2>2 DEF CompareExchange
  <2> QED BY <2>1, <2>2
<1>4. ASSUME NEW t \in Threads, TryUpdateMemoryUsage(t) PROVE Inv'
  BY <1>4, UpdateStep
<1>5. CASE ResetUsage
  <2>1. Total(held') = 0
    BY <1>5, TotalZero DEF ResetUsage
  <2> QED BY <1>5, <2>1, BudgetAssumption DEF ResetUsage
<1>6. CASE UNCHANGED vars
  BY <1>6 DEF vars
<1> QED BY <1>1, <1>2, <1>3, <1>4, <1>5, <1>6 DEF Next

\* For every number of callers and every mix of reservations, growths and
\* releases, used_memory_bytes is at every instant the sum of what they hold
\* and at most max_memory_bytes: the CAS loop never loses an update.
THEOREM BudgetSafety == Spec => [](TypeOK /\ UsageIsHeld /\ UsageBounded)
<1>1. Inv => TypeOK /\ UsageIsHeld /\ UsageBounded
  BY DEF Inv
<1> QED BY <1>1, InvInit, InvStep, PTL DEF Spec

-----------------------------------------------------------------------------
\* A step of the retry loop is a decision of the atomic budget or no step of
\* it at all.
LEMMA StepRefines == Inv /\ [Next]_vars => [Atomic!ANext]_(Atomic!avars)
<1> SUFFICES ASSUME Inv, [Next]_vars PROVE [Atomic!ANext]_(Atomic!avars)
  OBVIOUS
<1> USE DEF Inv, TypeOK
<1>1. ASSUME NEW t \in Threads, TryReserveMemory(t) PROVE Atomic!Request(t)
  BY <1>1, BudgetAssumption DEF TryReserveMemory, Reserve, Atomic!Request
<1>2. ASSUME NEW t \in Threads, Load(t)
      PROVE  Atomic!Refuse(t) \/ UNCHANGED Atomic!avars
  <2>1. CASE used + req[t] > MaxBytes
    BY <1>2, <2>1 DEF Load, Atomic!Refuse
  <2>2. CASE ~(used + req[t] > MaxBytes)
    BY <1>2, <2>2 DEF Load, Atomic!avars
  <2> QED BY <2>1, <2>2
<1>3. ASSUME NEW t \in Threads, CompareExchange(t)
      PROVE  Atomic!Grant(t) \/ UNCHANGED Atomic!avars
  <2>1. CASE used = loaded[t]
    BY <1>3, <2>1, BudgetAssumption DEF CompareExchange, Checked, Atomic!Grant
  <2>2. CASE used # loaded[t]
    BY <1>3, <2>2 DEF CompareExchange, Atomic!avars
  <2> QED BY <2>1, <2>2
<1>4. ASSUME NEW t \in Threads, TryUpdateMemoryUsage(t)
      PROVE  Atomic!Request(t) \/ Atomic!Release(t)
  <2>1. PICK new \in Sizes :
         \/ held[t] < new /\ Reserve(t, new - held[t])
         \/ /\ ~(held[t] < new)
            /\ used' = used - (held[t] - new)
            /\ held' = [held EXCEPT ![t] = new]
            /\ result' = [result EXCEPT ![t] = "ok"]
            /\ UNCHANGED <<pc, req, loaded>>
    BY <1>4 DEF TryUpdateMemoryUsage
  <2>2. new \in Nat /\ pc[t] = "idle"
    BY <1>4, BudgetAssumption DEF TryUpdateMemoryUsage
  <2>3. CASE held[t] < new /\ Reserve(t, new - held[t])
    BY <2>2, <2>3 DEF Reserve, Atomic!Request
  <2>4. CASE /\ ~(held[t] < new)
             /\ used' = used - (held[t] - new)
             /\ held' = [held EXCEPT ![t] = new]
             /\ result' = [result EXCEPT ![t] = "ok"]
             /\ UNCHANGED <<pc, req, loaded>>
    <3>1. held[t] - new \in 0..held[t] /\ held[t] - (held[t] - new) = new
      BY <2>2, <2>4
    <3> QED BY <2>2, <2>4, <3>1 DEF Atomic!Release
  <2> QED BY <2>1, <2>3, <2>4
<1>5. CASE ResetUsage
  <2>1. {t \in Threads : pc[t] # "idle"} = {} /\ pc' = pc
    BY <1>5 DEF ResetUsage
  <2>2. {t \in Threads : pc[t] # "idle"}' = {t \in Threads : pc[t] # "idle"}
    BY <2>1
  <2> QED BY <1>5, <2>1, <2>2 DEF ResetUsage, Atomic!Clear, Atomic!ANext
<1>6. CASE UNCHANGED vars
  BY <1>6 DEF vars, Atomic!avars
<1> QED BY <1>1, <1>2, <1>3, <1>4, <1>5, <1>6 DEF Next, Atomic!ANext

\* The lock-free budget implements the atomic one: every call decides at one
\* instant between its invocation and its return, so LiquidCache.tla may take
\* each budget call as one step.
THEOREM BudgetIsAtomic == Spec => ImplementsAtomicBudget
<1>1. Init => Atomic!AInit
  BY DEF Init, Atomic!AInit
<1> QED
  BY <1>1, InvInit, InvStep, StepRefines, PTL DEF Spec, ImplementsAtomicBudget, Atomic!ASpec
=============================================================================
