----------------------------- MODULE SharedRing -----------------------------
(***************************************************************************)
(* One ring for all threads (io_uring/single_uring.rs).  Submitting,       *)
(* draining and abandoning hold the ring's mutex; the queue of free tokens *)
(* and the completion slots are accessed without it.  A step is one such   *)
(* access.  A future is polled again and again until it is ready, or is    *)
(* dropped between two polls.                                              *)
(***************************************************************************)
EXTENDS IoConstants

VARIABLES pc,         \* [Futures -> where its poll (or its drop) stands]
          token,      \* [Futures -> Tokens \cup {None}]
          free,       \* free_tokens
          store,      \* completions: [Tokens -> Futures \cup {None}]
          inflight,   \* operations in the kernel
          cq,         \* completion queue
          abandoned,  \* SharedRingInner::abandoned
          lock,       \* the future whose thread holds the mutex, or None
          batch,      \* entries that the drain under way has still to move
          got         \* ghost: whose completion each future was given

vars == <<pc, token, free, store, inflight, cq, abandoned, lock, batch, got>>

PC == {"created", "acquire", "repop", "retry", "submit", "pending", "try", "retake",
       "release", "dropping", "giveup", "done", "dropped"}

Init ==
  /\ pc = [f \in Futures |-> "created"]
  /\ token = [f \in Futures |-> None]
  /\ free = InOrder
  /\ store = [t \in Tokens |-> None]
  /\ inflight = {} /\ cq = <<>> /\ abandoned = {}
  /\ lock = None /\ batch = 0
  /\ got = [f \in Futures |-> None]

Goto(f, where) == pc' = [pc EXCEPT ![f] = where]

-----------------------------------------------------------------------------
(* poll in State::Created                                                  *)

\* acquire_token: free_tokens.pop, before and after a drain
Pop(f) ==
  /\ pc[f] \in {"created", "repop"}
  /\ IF free # <<>>
     THEN /\ token' = [token EXCEPT ![f] = Head(free)]
          /\ free' = Tail(free)
          /\ Goto(f, "submit")
     ELSE /\ Goto(f, IF pc[f] = "created" THEN "acquire" ELSE "retry")
          /\ UNCHANGED <<token, free>>
  /\ UNCHANGED <<store, inflight, cq, abandoned, lock, batch, got>>

\* submit_task under the mutex
Submit(f) ==
  /\ pc[f] = "submit" /\ lock = None
  /\ inflight' = inflight \cup {[token |-> token[f], of |-> f]}
  /\ Goto(f, "pending")
  /\ UNCHANGED <<token, free, store, cq, abandoned, lock, batch, got>>

-----------------------------------------------------------------------------
(* poll in State::Pending: take_completion                                 *)

\* Mistake: the token is back in the queue, but its completion stays.
TakeKeepsSlot(f, found, missing) ==
  LET c == store[token[f]] IN
  IF c # None
  THEN /\ got' = [got EXCEPT ![f] = c]
       /\ Goto(f, found)
       /\ UNCHANGED store
  ELSE Goto(f, missing) /\ UNCHANGED <<store, got>>

\* completions.take: go on at found, or at missing
Take(f, found, missing) ==
  LET c == store[token[f]] IN
  IF c # None
  THEN /\ store' = [store EXCEPT ![token[f]] = None]
       /\ got' = [got EXCEPT ![f] = c]
       /\ Goto(f, found)
  ELSE Goto(f, missing) /\ UNCHANGED <<store, got>>

TakeCompletion(f) ==
  /\ \/ pc[f] = "pending" /\ Take(f, "release", "try")
     \/ pc[f] = "retake" /\ Take(f, "release", "pending")
  /\ UNCHANGED <<token, free, inflight, cq, abandoned, lock, batch>>

\* free_tokens.push, and the poll is ready (or the drop is over)
ReleaseToken(f) ==
  /\ pc[f] \in {"release", "dropping"}
  /\ free' = Append(free, token[f])
  /\ token' = [token EXCEPT ![f] = None]
  /\ Goto(f, IF pc[f] = "release" THEN "done" ELSE "dropped")
  /\ UNCHANGED <<store, inflight, cq, abandoned, lock, batch, got>>

\* try_lock fails: the future is polled again
WouldBlock(f) ==
  /\ pc[f] = "try" /\ lock \notin {None, f}
  /\ Goto(f, "pending")
  /\ UNCHANGED <<token, free, store, inflight, cq, abandoned, lock, batch, got>>

-----------------------------------------------------------------------------
(* drain_completions, one entry at a time under the mutex                  *)

\* lock or try_lock; cq.sync() fixes the entries this drain will see
BeginDrain(f) ==
  /\ pc[f] \in {"acquire", "retry", "try"} /\ lock = None
  /\ lock' = f
  /\ batch' = Len(cq)
  /\ UNCHANGED <<pc, token, free, store, inflight, cq, abandoned, got>>

\* Mistake: the token of an abandoned submission is free although it is marked.
DrainKeepsMark(f) ==
  LET c == Head(cq) IN
  /\ lock = f /\ batch > 0
  /\ IF c.token \in abandoned
     THEN free' = Append(free, c.token) /\ UNCHANGED <<store, abandoned>>
     ELSE store' = [store EXCEPT ![c.token] = c.of] /\ UNCHANGED <<abandoned, free>>
  /\ cq' = Tail(cq)
  /\ batch' = batch - 1
  /\ UNCHANGED <<pc, token, inflight, lock, got>>

DrainOne(f) ==
  LET c == Head(cq) IN
  /\ lock = f /\ batch > 0
  /\ IF c.token \in abandoned
     THEN /\ abandoned' = abandoned \ {c.token}
          /\ free' = Append(free, c.token)
          /\ UNCHANGED store
     ELSE /\ store' = [store EXCEPT ![c.token] = c.of]
          /\ UNCHANGED <<abandoned, free>>
  /\ cq' = Tail(cq)
  /\ batch' = batch - 1
  /\ UNCHANGED <<pc, token, inflight, lock, got>>

EndDrain(f) ==
  /\ lock = f /\ batch = 0
  /\ lock' = None
  /\ Goto(f, CASE pc[f] = "acquire" -> "repop" [] pc[f] = "retry" -> "created"
               [] OTHER -> "retake")
  /\ UNCHANGED <<token, free, store, inflight, cq, abandoned, batch, got>>

-----------------------------------------------------------------------------
(* Drop between two polls: abandon_submission takes the completion if it   *)
(* is there, and otherwise, in another step, marks the token.              *)

DropFuture(f) ==
  /\ \/ /\ pc[f] = "created"
        /\ Goto(f, "dropped") /\ UNCHANGED <<store, got>>
     \/ /\ pc[f] = "pending"
        /\ Take(f, "dropping", "giveup")
  /\ UNCHANGED <<token, free, inflight, cq, abandoned, lock, batch>>

MarkAbandoned(f) ==
  /\ pc[f] = "giveup" /\ lock = None
  /\ abandoned' = abandoned \cup {token[f]}
  /\ token' = [token EXCEPT ![f] = None]
  /\ Goto(f, "dropped")
  /\ UNCHANGED <<free, store, inflight, cq, lock, batch, got>>

\* The kernel finishes an operation.
Kernel ==
  /\ \E c \in inflight : inflight' = inflight \ {c} /\ cq' = Append(cq, c)
  /\ UNCHANGED <<pc, token, free, store, abandoned, lock, batch, got>>

Step(f) ==
  \/ Pop(f) \/ Submit(f) \/ TakeCompletion(f) \/ ReleaseToken(f) \/ WouldBlock(f)
  \/ BeginDrain(f) \/ DrainOne(f) \/ EndDrain(f) \/ MarkAbandoned(f)

Next == Kernel \/ \E f \in Futures : Step(f) \/ DropFuture(f)

\* A thread that waits for the mutex gets it although others take it again and
\* again.
Fairness ==
  /\ WF_vars(Kernel)
  /\ \A f \in Futures : WF_vars(Step(f)) /\ SF_vars(Submit(f)) /\ SF_vars(MarkAbandoned(f))

-----------------------------------------------------------------------------
Holds(f) == token[f] # None

TypeOK ==
  /\ pc \in [Futures -> PC]
  /\ token \in [Futures -> Tokens \cup {None}]
  /\ Elements(free) \subseteq Tokens
  /\ store \in [Tokens -> Futures \cup {None}]
  /\ inflight \subseteq Cqe /\ Elements(cq) \subseteq Cqe
  /\ abandoned \subseteq Tokens
  /\ lock \in Futures \cup {None} /\ batch \in 0..Len(cq)
  /\ got \in [Futures -> Futures \cup {None}]

\* abandon_submission found no completion, and a drain stored it before the token
\* was marked: nothing will ever return this token.
Leaked(t) == t \in abandoned /\ store[t] # None

\* A token is in one place only, and free only when nothing of its last use is
\* left: the queue never exceeds its capacity, and a completion slot is empty
\* when it is filled.  A token that no future holds is free, or will be when its
\* completion is drained, or has leaked.
Busy(t) == \E c \in inflight \cup Elements(cq) : c.token = t
TokenOnce ==
  /\ TypeOK
  /\ Len(free) = Cardinality(Elements(free))
  /\ \A t \in Elements(free) : t \notin abandoned /\ store[t] = None /\ ~Busy(t)
  /\ \A f, g \in Futures : Holds(f) /\ token[f] = token[g] => f = g
  /\ \A f \in Futures : Holds(f) => token[f] \notin Elements(free) \cup abandoned
  /\ \A t \in Tokens : store[t] # None => ~Busy(t)
  /\ \A t \in Tokens :
       \/ t \in Elements(free) \/ (\E f \in Futures : token[f] = t)
       \/ (t \in abandoned /\ Busy(t)) \/ Leaked(t)
  /\ Len(cq) + Cardinality(inflight) = Cardinality({t \in Tokens : Busy(t)})
=============================================================================
