---------------------------- MODULE MCSettlement ----------------------------
(***************************************************************************)
(* Settlement with one student: one or two orders of price 1, top-ups of 1, *)
(* one owner whose account may collect instead of the platform's.          *)
(***************************************************************************)
EXTENDS Settlement, TLC

CONSTANT u1

MCBuyer == [o \in Orders |-> u1]
MCTotal == [o \in Orders |-> 1]

Symmetry == Permutations(Sessions)
=============================================================================
