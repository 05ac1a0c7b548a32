----------------------------- MODULE MCService -----------------------------
(***************************************************************************)
(* The server and its client, and the byte cache below the server's object *)
(* stores, side by side: a behaviour exercises one and the other rests.    *)
(***************************************************************************)
EXTENDS RemoteQuery, ByteCache

CONSTANT Exercised      \* of {"remote", "bytes"}

VARIABLE part

allVars == <<part, vars, cacheVars>>

MCBatches == [p \in Partitions |-> IF p = "p1" THEN <<1, 2, 0, 3, 1>> ELSE <<0, 1>>]
MCStores == <<"s1", "s2">>
MCRequests == [kind : {"Bounded"}, from : {1}, to : {3}] \union {[kind |-> "None"]}
  \union {[kind |-> "Suffix", from |-> 1], [kind |-> "Offset", from |-> 2], [kind |-> "Bounded", from |-> 2, to |-> 5]}
MCLocations == {<<"a", "/", "b">>, <<"a", "b">>}

MCInit == part \in Exercised /\ Init /\ CacheInit
RemoteNext == part = "remote" /\ Next /\ UNCHANGED <<part, cacheVars>>
BytesNext == part = "bytes" /\ CacheNext /\ UNCHANGED <<part, vars>>

\* Every partition has ended or waits for a registration that was given up.
Over == part = "remote" /\ \A t \in Tasks : At(t, Ended) \/ (At(t, {"waiting"}) /\ t[1] \in lost)
Rest == Over /\ UNCHANGED allVars

MCNext == RemoteNext \/ BytesNext \/ Rest
Spec == MCInit /\ [][MCNext]_allVars /\ (part = "remote" => Fairness)

-----------------------------------------------------------------------------
\* Every partition comes to its end with all its rows, whoever registers the
\* plan, unless a call failed, a stream was dropped or the server restarted; and
\* then it ends too, unless the partition that was registering the plan was hit.
StreamsEnd ==
  \A t \in Tasks :
    <>[](\/ part = "bytes" \/ At(t, {"done"})
         \/ faults > 0 /\ (At(t, Ended) \/ t[1] \in lost))
=============================================================================
