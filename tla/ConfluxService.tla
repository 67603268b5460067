--------------------------- MODULE ConfluxService ---------------------------
(***************************************************************************)
(* What a conflux set promises to the streams it carries, legs and         *)
(* sequence numbers forgotten: two ends, and in each direction a reliable  *)
(* ordered flow of cells.  Cell n is the n-th cell its sender sent.  The   *)
(* set may stop delivering at any time (a teardown); it never delivers a   *)
(* cell twice, skips one, or delivers one out of turn.                     *)
(***************************************************************************)
EXTENDS Naturals, Sequences

VARIABLES
  sent,   \* sent[e]: how many cells end e has sent
  got     \* got[e]: the cells handed to the streams of end e

End == {"client", "exit"}
Peer(e) == IF e = "client" THEN "exit" ELSE "client"

Init == /\ sent = [e \in End |-> 0]
        /\ got = [e \in End |-> <<>>]

Send(e) == /\ sent' = [sent EXCEPT ![e] = @ + 1]
           /\ UNCHANGED got

\* A run of cells becomes deliverable at once when a hole is filled.
Deliver(e) ==
  \E n \in 1 .. sent[Peer(e)] :
    /\ Len(got[e]) + n <= sent[Peer(e)]
    /\ got' = [got EXCEPT ![e] = @ \o [k \in 1 .. n |-> Len(got[e]) + k]]
    /\ UNCHANGED sent

Next == \E e \in End : Send(e) \/ Deliver(e)

Spec == Init /\ [][Next]_<<sent, got>>
=============================================================================
