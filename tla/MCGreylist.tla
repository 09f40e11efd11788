----------------------------- MODULE MCGreylist -----------------------------
(* Greylist on small instances. *)
EXTENDS Greylist, TLC

\* greylist delay 0 attempts 1 deadline 1 visa 1 and the empty rule.
FullRule == [flags |-> Property, deadline |-> 1, delay |-> 0, attempts |-> 1, visa |-> 1]
EmptyRule == [flags |-> {}, deadline |-> 0, delay |-> 0, attempts |-> 0, visa |-> 0]

MCTwoRules == {FullRule, EmptyRule}

\* One tuple per recipient.
MCRcptOf == [t \in Tuples |-> t]

Symmetry == Permutations(Conns)
=============================================================================
