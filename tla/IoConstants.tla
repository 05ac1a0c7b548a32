---------------------------- MODULE IoConstants ----------------------------
(***************************************************************************)
(* What the io_uring runtimes have in common.  A future stands for one     *)
(* IoTask; a completion is identified by the future it belongs to.         *)
(***************************************************************************)
EXTENDS Naturals, Sequences, FiniteSets

CONSTANTS Futures,      \* I/O tasks
          Tokens,       \* user_data values of a ring (256 in the code)
          Rings,        \* rings that the pools may come to own
          None          \* Option::None

ASSUME IoAssumption ==
  /\ IsFiniteSet(Futures) /\ IsFiniteSet(Tokens) /\ IsFiniteSet(Rings)
  /\ Rings # {} /\ None \notin Futures \cup Tokens \cup Rings

\* The kernel owns the operation; the entry it posts carries the token back.
Cqe == [token : Tokens, of : Futures]

\* The tokens in the order in which a queue is filled at the start.
InOrder == CHOOSE s \in [1..Cardinality(Tokens) -> Tokens] :
             \A i, j \in DOMAIN s : s[i] = s[j] => i = j

Elements(s) == {s[i] : i \in DOMAIN s}
=============================================================================
