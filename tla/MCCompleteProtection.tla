------------------------ MODULE MCCompleteProtection ------------------------
(***************************************************************************)
(* Instances of CompleteProtection for TLC.  The votes hold a double vote, *)
(* an attestation inside another, and targets far enough apart for pruning.*)
(***************************************************************************)
EXTENDS CompleteProtection, TLC

CONSTANTS k1, k2, r1, r2

MCEpochs == 0..3
Vote(s, t, r) == [source |-> s, target |-> t, root |-> r]
\* What k1 is asked to sign holds the conflicts; k2 fills the batches.
MCVotes == (k1 :> {Vote(0, 1, r1), Vote(0, 1, r2), Vote(0, 3, r1), Vote(1, 2, r1)})
             @@ (k2 :> {Vote(0, 1, r1)})
RisingVotes == [k \in {k1, k2} |-> {Vote(0, t, r1) : t \in 1..3}]

=============================================================================
