---------------------------- MODULE RemoteQuery ----------------------------
(***************************************************************************)
(* A query of the client whose scans run on the cache server: the          *)
(* partitions of a LiquidCacheClientExec race to register its plan, wait   *)
(* for the one that does, and then each fetches its own results.  Calls    *)
(* fail, the consumer drops streams, and the server restarts.              *)
(***************************************************************************)
EXTENDS Integers, Sequences, SequencesExt, FiniteSets

CONSTANTS Queries,          \* the client's execs, by the uuid of their plan
          Partitions,       \* the partitions of a plan
          Stores,           \* a sequence: the object stores of the client
          Batches,          \* the row counts of the batches of each partition
          TargetBatchSize,
          MaxFaults         \* bounds failed calls, dropped streams and restarts

ASSUME RemoteAssumption ==
  /\ TargetBatchSize \in Nat \ {0} /\ MaxFaults \in Nat
  /\ Batches \in [Partitions -> Seq(Nat)]

VARIABLES registered,       \* plan_registered of each exec
          stream,           \* where each partition's FlightStream is
          storeNext,        \* the next object store the registering partition sends
          stores, plans,    \* what the server has registered
          unread, buffered, \* batches the plan has yet to yield, and those FinalStream holds
          delivered,        \* batches that the consumer has got
          faults, lost      \* faults so far; execs whose registration was given up

vars == <<registered, stream, storeNext, stores, plans, unread, buffered, delivered, faults, lost>>

Tasks == Queries \X Partitions
Registering == {"stores", "plan"}
Ended == {"done", "panicked", "dropped"}

\* The batches of partition p hold the rows 1, 2, ... in this order.
RowsBefore(p, n) == FoldLeft(LAMBDA a, b : a + b, 0, SubSeq(Batches[p], 1, n))
PlanBatches(p) == [n \in DOMAIN Batches[p] |-> [i \in 1 .. Batches[p][n] |-> RowsBefore(p, n - 1) + i]]

Init ==
  /\ registered = [q \in Queries |-> "NotRegistered"]
  /\ stream = [t \in Tasks |-> "init"]
  /\ storeNext = [q \in Queries |-> 1]
  /\ stores = {} /\ plans = {}
  /\ unread = [t \in Tasks |-> <<>>] /\ buffered = [t \in Tasks |-> <<>>]
  /\ delivered = [t \in Tasks |-> <<>>]
  /\ faults = 0 /\ lost = {}

At(t, places) == stream[t] \in places
Goto(t, place) == stream' = [stream EXCEPT ![t] = place]
serverVars == <<stores, plans, unread, buffered>>
resultVars == <<delivered, faults, lost>>

-----------------------------------------------------------------------------
\* The channel is connected, and plan_registered compared and exchanged.
Connect(t) ==
  LET q == t[1]
  IN  /\ At(t, {"init"})
      /\ IF registered[q] = "NotRegistered"
         THEN registered' = [registered EXCEPT ![q] = "InProgress"] /\ Goto(t, "stores")
         ELSE Goto(t, "waiting") /\ UNCHANGED registered
      /\ UNCHANGED <<storeNext, serverVars, resultVars>>

\* RegisterObjectStore, one call for each; a registered one is left as it is.
RegisterObjectStore(t) ==
  LET q == t[1]
  IN  /\ At(t, {"stores"})
      /\ IF storeNext[q] > Len(Stores)
         THEN Goto(t, "plan") /\ UNCHANGED <<storeNext, stores>>
         ELSE /\ stores' = stores \union {Stores[storeNext[q]]}
              /\ storeNext' = [storeNext EXCEPT ![q] = @ + 1]
              /\ UNCHANGED stream
      /\ UNCHANGED <<registered, plans, unread, buffered, resultVars>>

\* RegisterPlan, and Registered is stored once the server has answered.
RegisterPlan(t) ==
  /\ At(t, {"plan"})
  /\ plans' = plans \union {t[1]}
  /\ registered' = [registered EXCEPT ![t[1]] = "Registered"]
  /\ Goto(t, "get")
  /\ UNCHANGED <<storeNext, stores, unread, buffered, resultVars>>

\* A partition that goes on when another one has begun to register.
StopWaitingEarly(t) ==
  /\ At(t, {"waiting"}) /\ registered[t[1]] # "NotRegistered"
  /\ Goto(t, "get")
  /\ UNCHANGED <<registered, storeNext, serverVars, resultVars>>

\* The sleep in the loop ends and Registered is seen.
StopWaiting(t) ==
  /\ At(t, {"waiting"}) /\ registered[t[1]] = "Registered"
  /\ Goto(t, "get")
  /\ UNCHANGED <<registered, storeNext, serverVars, resultVars>>

\* do_get: execute_plan starts the partition; an unknown plan or a missing store
\* is an error, which FlightStream unwraps.
CanExecute(t) == t[1] \in plans /\ ToSet(Stores) \subseteq stores
DoGet(t) ==
  /\ At(t, {"get"})
  /\ IF CanExecute(t)
     THEN unread' = [unread EXCEPT ![t] = PlanBatches(t[2])] /\ Goto(t, "processing")
     ELSE Goto(t, "panicked") /\ UNCHANGED unread
  /\ UNCHANGED <<registered, storeNext, stores, plans, buffered, resultVars>>

-----------------------------------------------------------------------------
\* FinalStream::poll_next, one turn of its loop.
Threshold == (TargetBatchSize * 3) \div 4
Emit(t) ==
  /\ delivered' = [delivered EXCEPT ![t] = Append(@, FlattenSeq(buffered[t]))]
  /\ buffered' = [buffered EXCEPT ![t] = <<>>]
  /\ UNCHANGED <<stream, unread>>
Finish(t) == Goto(t, "done") /\ UNCHANGED <<delivered, buffered, unread>>
Buffer(t) ==
  /\ buffered' = [buffered EXCEPT ![t] = Append(@, Head(unread[t]))]
  /\ unread' = [unread EXCEPT ![t] = Tail(@)]
  /\ UNCHANGED <<stream, delivered>>

\* A stream that ends with its input.
PollNextUnflushed(t) ==
  /\ At(t, {"processing"})
  /\ IF Len(FlattenSeq(buffered[t])) > Threshold THEN Emit(t)
     ELSE IF unread[t] # <<>> THEN Buffer(t) ELSE Finish(t)
  /\ UNCHANGED <<registered, storeNext, stores, plans, faults, lost>>

PollNext(t) ==
  /\ At(t, {"processing"})
  /\ IF Len(FlattenSeq(buffered[t])) > Threshold THEN Emit(t)
     ELSE IF unread[t] # <<>> THEN Buffer(t)
     ELSE IF buffered[t] # <<>> THEN Emit(t)
     ELSE Finish(t)
  /\ UNCHANGED <<registered, storeNext, stores, plans, faults, lost>>

-----------------------------------------------------------------------------
Fault == faults < MaxFaults /\ faults' = faults + 1

\* The end of a partition that has not finished; who registers gives up for all.
GiveUp(t, place) ==
  /\ Goto(t, place)
  /\ lost' = IF At(t, Registering) THEN lost \union {t[1]} ELSE lost
  /\ unread' = [unread EXCEPT ![t] = <<>>] /\ buffered' = [buffered EXCEPT ![t] = <<>>]
  /\ UNCHANGED <<registered, storeNext, delivered>>

\* A call fails, before or after the server has done it, or a batch does not
\* arrive: an error is unwrapped or panics in FlightStream::poll_next.
CallFails(t) ==
  /\ Fault /\ At(t, {"init", "get", "processing"} \union Registering)
  /\ GiveUp(t, "panicked")
  /\ \/ UNCHANGED <<stores, plans>>
     \/ At(t, {"stores"}) /\ storeNext[t[1]] <= Len(Stores)
        /\ stores' = stores \union {Stores[storeNext[t[1]]]} /\ UNCHANGED plans
     \/ At(t, {"plan"}) /\ plans' = plans \union {t[1]} /\ UNCHANGED stores

\* The consumer has enough rows, or the query is cancelled.
DropStream(t) ==
  /\ Fault /\ ~At(t, Ended)
  /\ GiveUp(t, "dropped")
  /\ UNCHANGED <<stores, plans>>

\* The server loses its maps; streams under way break.
RestartServer ==
  /\ Fault
  /\ stores' = {} /\ plans' = {}
  /\ stream' = [t \in Tasks |-> IF At(t, {"processing"}) THEN "panicked" ELSE stream[t]]
  /\ unread' = [t \in Tasks |-> <<>>] /\ buffered' = [t \in Tasks |-> <<>>]
  /\ UNCHANGED <<registered, storeNext, delivered, lost>>

Step(t) ==
  \/ Connect(t) \/ RegisterObjectStore(t) \/ RegisterPlan(t)
  \/ StopWaiting(t) \/ DoGet(t) \/ PollNext(t)
Next == RestartServer \/ \E t \in Tasks : Step(t) \/ CallFails(t) \/ DropStream(t)

\* tokio polls every partition, and timers fire.
Fairness == \A t \in Tasks : WF_vars(Step(t))
RemoteSpec == Init /\ [][Next]_vars

-----------------------------------------------------------------------------
\* Merging small batches on the server loses, repeats and reorders no row: what
\* the consumer has got is a prefix of the partition, all of it at the end, in
\* batches of more than three quarters of the target size but for the last.
DeliveredExact ==
  \A t \in Tasks :
    LET rows == FlattenSeq(PlanBatches(t[2]))
    IN  /\ IsPrefix(FlattenSeq(delivered[t]), rows)
        /\ At(t, {"done"}) => FlattenSeq(delivered[t]) = rows
        /\ At(t, {"processing"}) => FlattenSeq(delivered[t] \o buffered[t] \o unread[t]) = rows
        /\ \A n \in 1 .. Len(delivered[t]) - 1 : Len(delivered[t][n]) > Threshold
=============================================================================
