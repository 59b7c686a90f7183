---------------------------- MODULE MCMobileWrites ----------------------------
(***************************************************************************)
(* Instances of MobileDesk: batches with a blocked and a closed action, an *)
(* action without a key, one that fails before it is stored and one that   *)
(* fails after.                                                            *)
(***************************************************************************)
EXTENDS MobileDesk, TLC

CONSTANTS t1, t2, k1, k2

Plain(k) == [key |-> k, blocked |-> FALSE, closed |-> FALSE, lacks |-> {}]

Alike == Permutations({t1, t2})

SomeBatches == {
    <<Plain(k1), [Plain(k2) EXCEPT !.lacks = {"content"}]>>,
    <<[Plain(k2) EXCEPT !.blocked = TRUE], Plain(NoKey)>>,
    <<[Plain(k1) EXCEPT !.closed = TRUE], [Plain(k2) EXCEPT !.lacks = {"local_action_id"}]>> }
==============================================================================
