-------------------------------- MODULE Pipe --------------------------------
(***************************************************************************)
(* What the two parties of a run are promised by whatever connects them:   *)
(* while the run lasts, every batch of protocol bytes that one party sends *)
(* reaches the other once and in order.  Nothing is promised to a party    *)
(* whose run has ended.                                                    *)
(***************************************************************************)
EXTENDS Integers

CONSTANT Batches    \* how many batches each party sends in a run

VARIABLES
    run,    \* the run the parties are in, 0 for none
    sent,   \* per party: the batches it has sent in this run
    got     \* per party: the last batch it has received in this run

vars == <<run, sent, got>>

Parties == {"prover", "verifier"}
Peer(party) == IF party = "prover" THEN "verifier" ELSE "prover"
Nothing == [party \in Parties |-> 0]

Init == run = 0 /\ sent = Nothing /\ got = Nothing

Start ==
    /\ run = 0
    /\ run' \in Nat \ {0}
    /\ sent' = Nothing /\ got' = Nothing

SendBatch(party) ==
    /\ run # 0 /\ sent[party] < Batches
    /\ sent' = [sent EXCEPT ![party] = @ + 1]
    /\ UNCHANGED <<run, got>>

\* The next batch in order, never one that has not been sent.
GetBatch(party) ==
    /\ run # 0 /\ got[party] < sent[Peer(party)]
    /\ got' = [got EXCEPT ![party] = @ + 1]
    /\ UNCHANGED <<run, sent>>

Stop ==
    /\ run # 0
    /\ run' = 0
    /\ sent' = Nothing /\ got' = Nothing

Next ==
    \/ Start
    \/ \E party \in Parties : SendBatch(party) \/ GetBatch(party)
    \/ Stop

Spec == Init /\ [][Next]_vars
=============================================================================
