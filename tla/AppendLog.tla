----------------------------- MODULE AppendLog -----------------------------
(***************************************************************************)
(* What a numbered stream promises its readers: the numbers written so far *)
(* are 1, 2, ... up to some n, and writing goes on from n + 1.  No number  *)
(* is skipped, and no batch is written in part.                            *)
(***************************************************************************)
EXTENDS Naturals

CONSTANT Last   \* the highest number there can be

VARIABLE log   \* the numbers written so far

Init == log = {}

\* From 1 .. n to 1 .. m: a batch is the numbers after n, all of them.
Append == \E n, m \in 0 .. Last : n <= m /\ log = 1 .. n /\ log' = 1 .. m

Spec == Init /\ [][Append]_log
==============================================================================
