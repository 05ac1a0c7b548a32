------------------------------ MODULE NodeList ------------------------------
(***************************************************************************)
(* What the intrusive list promises the policies: it is a sequence of      *)
(* distinct nodes, of which any may be taken out or moved to an end.       *)
(***************************************************************************)
EXTENDS PolicyConstants, SequencesExt

VARIABLE list

LInit == list = <<>>

Push(n) == n \notin ToSet(list) /\ (list' = <<n>> \o list \/ list' = Append(list, n))
Move(i) ==
  \/ list' = <<list[i]>> \o RemoveAt(list, i)
  \/ list' = Append(RemoveAt(list, i), list[i])
Take(i) == list' = RemoveAt(list, i)

LNext ==
  \/ \E n \in Entries : Push(n)
  \/ \E i \in DOMAIN list : Move(i) \/ Take(i)

LSpec == LInit /\ [][LNext]_list
=============================================================================
