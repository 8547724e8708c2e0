------------------------ MODULE MCMinimalProtection ------------------------
(***************************************************************************)
(* Instances of MinimalProtection for TLC.  Epochs 0 to 3 are the least    *)
(* that hold one attestation inside another.                               *)
(***************************************************************************)
EXTENDS MinimalProtection

MCEpochs == 0..3
MCSlots == 1..2
Vote(s, t) == [source |-> s, target |-> t, root |-> CHOOSE r \in SigningRoots : TRUE]

\* An imported history whose highest source and highest target are of different attestations.
MCImports == {{Vote(1, 2)}, {Vote(0, 3), Vote(1, 2)}}
NoImports == {}

=============================================================================
