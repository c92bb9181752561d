------------------------------- MODULE Recent -------------------------------
(* What a bounded log keeps: the last n elements of a sequence. *)
EXTENDS Naturals, Sequences

KeepLast(s, n) ==
    IF Len(s) <= n THEN s ELSE [i \in 1..n |-> s[Len(s) - n + i]]
=============================================================================
