---------------------------- MODULE UringWorker ----------------------------
(***************************************************************************)
(* One worker thread owns the ring (io_uring/thread_pool_uring.rs).        *)
(* Futures send their task through an unbounded channel and wait for it on *)
(* a oneshot channel; the worker alternates between drain_submissions and  *)
(* poll_completions.  The pool lives in a static, so it is never shut down.*)
(***************************************************************************)
EXTENDS IoConstants

VARIABLES state,      \* [Futures -> "created", "submitted", "done", "dropped", "panicked"]
          channel,    \* submissions not received yet
          worker,     \* "drain", "poll" or "dead"
          tokens,     \* UringWorker::tokens
          submitted,  \* submitted_tasks: [Tokens -> Futures \cup {None}]
          sq,         \* entries pushed and not yet submitted
          inflight,   \* operations in the kernel
          cq,         \* completion queue
          reply       \* oneshot: [Futures -> whose completion was recorded]

vars == <<state, channel, worker, tokens, submitted, sq, inflight, cq, reply>>

Init ==
  /\ state = [f \in Futures |-> "created"]
  /\ channel = <<>>
  /\ worker = "drain"
  /\ tokens = InOrder
  /\ submitted = [t \in Tokens |-> None]
  /\ sq = {} /\ inflight = {} /\ cq = <<>>
  /\ reply = [f \in Futures |-> None]

-----------------------------------------------------------------------------
(* UringFuture::poll                                                       *)

\* "Failed to submit task through channel" if the worker is gone
SubmitTask(f) ==
  /\ state[f] = "created"
  /\ IF worker = "dead"
     THEN state' = [state EXCEPT ![f] = "panicked"] /\ UNCHANGED channel
     ELSE /\ state' = [state EXCEPT ![f] = "submitted"]
          /\ channel' = Append(channel, f)
  /\ UNCHANGED <<worker, tokens, submitted, sq, inflight, cq, reply>>

\* "io-uring worker dropped completion channel" if there will be no reply
Receive(f) ==
  /\ state[f] = "submitted"
  /\ reply[f] # None \/ worker = "dead"
  /\ state' = [state EXCEPT ![f] = IF reply[f] # None THEN "done" ELSE "panicked"]
  /\ UNCHANGED <<channel, worker, tokens, submitted, sq, inflight, cq, reply>>

\* The caller drops the future, and with it the receiver.
DropFuture(f) ==
  /\ state[f] \in {"created", "submitted"}
  /\ state' = [state EXCEPT ![f] = "dropped"]
  /\ UNCHANGED <<channel, worker, tokens, submitted, sq, inflight, cq, reply>>

-----------------------------------------------------------------------------
(* UringWorker::thread_loop                                                *)

\* one turn of drain_submissions
DrainSubmission ==
  /\ worker = "drain" /\ channel # <<>> /\ tokens # <<>>
  /\ channel' = Tail(channel)
  /\ tokens' = Tail(tokens)
  /\ sq' = sq \cup {[token |-> Head(tokens), of |-> Head(channel)]}
  /\ submitted' = [submitted EXCEPT ![Head(tokens)] = Head(channel)]
  /\ UNCHANGED <<state, worker, inflight, cq, reply>>

\* Mistake: entries pushed in the last turn wait for the next submission.
SubmitOnlyIfMore ==
  /\ worker = "drain" /\ (channel = <<>> \/ tokens = <<>>)
  /\ inflight' = IF channel # <<>> THEN inflight \cup sq ELSE inflight
  /\ sq' = IF channel # <<>> THEN {} ELSE sq
  /\ worker' = "poll"
  /\ UNCHANGED <<state, channel, tokens, submitted, cq, reply>>

\* ring.submit()
SubmitRing ==
  /\ worker = "drain" /\ (channel = <<>> \/ tokens = <<>>)
  /\ inflight' = inflight \cup sq
  /\ sq' = {}
  /\ worker' = "poll"
  /\ UNCHANGED <<state, channel, tokens, submitted, cq, reply>>

\* one turn of poll_completions; send_back panics if the receiver is gone
\* ("Failed to send task back to caller"), and the thread is over
PollCompletion ==
  LET c == Head(cq)
      f == submitted[c.token]
  IN
  /\ worker = "poll" /\ cq # <<>>
  /\ cq' = Tail(cq)
  /\ submitted' = [submitted EXCEPT ![c.token] = None]
  /\ IF state[f] = "dropped"
     THEN worker' = "dead" /\ UNCHANGED <<tokens, reply>>
     ELSE /\ reply' = [reply EXCEPT ![f] = c.of]
          /\ tokens' = Append(tokens, c.token)
          /\ UNCHANGED worker
  /\ UNCHANGED <<state, channel, sq, inflight>>

PollEnd ==
  /\ worker = "poll" /\ cq = <<>>
  /\ worker' = "drain"
  /\ UNCHANGED <<state, channel, tokens, submitted, sq, inflight, cq, reply>>

Kernel ==
  /\ \E c \in inflight : inflight' = inflight \ {c} /\ cq' = Append(cq, c)
  /\ UNCHANGED <<state, channel, worker, tokens, submitted, sq, reply>>

Worker == DrainSubmission \/ SubmitRing \/ PollCompletion \/ PollEnd
Step(f) == SubmitTask(f) \/ Receive(f)

Next == Kernel \/ Worker \/ \E f \in Futures : Step(f) \/ DropFuture(f)

Fairness == WF_vars(Kernel) /\ WF_vars(Worker) /\ \A f \in Futures : WF_vars(Step(f))

-----------------------------------------------------------------------------
TypeOK ==
  /\ state \in [Futures -> {"created", "submitted", "done", "dropped", "panicked"}]
  /\ worker \in {"drain", "poll", "dead"}
  /\ Elements(channel) \subseteq Futures /\ Elements(tokens) \subseteq Tokens
  /\ submitted \in [Tokens -> Futures \cup {None}]
  /\ sq \subseteq Cqe /\ inflight \subseteq Cqe /\ Elements(cq) \subseteq Cqe
  /\ reply \in [Futures -> Futures \cup {None}]

\* While the worker runs a token is either free or stands for the one operation
\* whose task is kept in its slot: no slot is overwritten, and every completion
\* finds its task ("Task not found in submitted tasks").
TokenOnce ==
  /\ TypeOK
  /\ worker # "dead" =>
       /\ Len(tokens) = Cardinality(Elements(tokens))
       /\ \A t \in Tokens :
            LET ops == {c \in sq \cup inflight \cup Elements(cq) : c.token = t} IN
            IF t \in Elements(tokens) THEN ops = {} /\ submitted[t] = None
            ELSE ops = {[token |-> t, of |-> submitted[t]]}
=============================================================================
