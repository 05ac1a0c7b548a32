---------------------------- MODULE AtomicBudget ----------------------------
(***************************************************************************)
(* What BudgetAccounting promises its callers: a request is decided at one *)
(* instant, granted exactly when it fits then, and a release takes effect  *)
(* at once.                                                                *)
(***************************************************************************)
EXTENDS Naturals

CONSTANTS Threads, MaxBytes

VARIABLES used,       \* bytes reserved
          held,       \* [Threads -> Nat], bytes each thread has reserved
          req,        \* [Threads -> Nat], bytes a thread asks for
          busy,       \* threads with an undecided request
          result      \* [Threads -> {"none", "ok", "err"}], last decision

avars == <<used, held, req, busy, result>>

AInit ==
  /\ used = 0
  /\ held = [t \in Threads |-> 0]
  /\ req = [t \in Threads |-> 0]
  /\ busy = {}
  /\ result = [t \in Threads |-> "none"]

Request(t) ==
  /\ t \notin busy
  /\ req'[t] \in Nat /\ req' = [req EXCEPT ![t] = req'[t]]
  /\ busy' = busy \cup {t}
  /\ result' = [result EXCEPT ![t] = "none"]
  /\ UNCHANGED <<used, held>>

Grant(t) ==
  /\ t \in busy
  /\ used + req[t] <= MaxBytes
  /\ used' = used + req[t]
  /\ held' = [held EXCEPT ![t] = held[t] + req[t]]
  /\ busy' = busy \ {t}
  /\ result' = [result EXCEPT ![t] = "ok"]
  /\ UNCHANGED req

Refuse(t) ==
  /\ t \in busy
  /\ used + req[t] > MaxBytes
  /\ busy' = busy \ {t}
  /\ result' = [result EXCEPT ![t] = "err"]
  /\ UNCHANGED <<used, held, req>>

Release(t) ==
  /\ t \notin busy
  /\ \E n \in 0..held[t] :
       /\ used' = used - n
       /\ held' = [held EXCEPT ![t] = held[t] - n]
  /\ result' = [result EXCEPT ![t] = "ok"]
  /\ UNCHANGED <<req, busy>>

Clear ==
  /\ busy = {}
  /\ used' = 0
  /\ held' = [t \in Threads |-> 0]
  /\ UNCHANGED <<req, busy, result>>

ANext == Clear \/ \E t \in Threads : Request(t) \/ Grant(t) \/ Refuse(t) \/ Release(t)

ASpec == AInit /\ [][ANext]_avars
=============================================================================
