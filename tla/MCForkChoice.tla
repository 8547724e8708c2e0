--------------------------- MODULE MCForkChoice ---------------------------
(***************************************************************************)
(* Instances of ForkChoice for TLC.                                        *)
(***************************************************************************)
EXTENDS ForkChoice

\* Two validators, whose balances change when the justified block does.
MCBalances == [r \in Roots |-> IF r % 2 = 1 THEN <<20, 30>> ELSE <<30, 30>>]
MCRank == [r \in Roots |-> 10 - r]
MCRoots == 1..4

\* Imports and engine verdicts.
OptimisticNext ==
    \/ ImportBlock \/ ImportPayload \/ MarkFull
    \/ EngineValid \/ EngineInvalid
OptimisticSpec == Init /\ [][OptimisticNext]_vars

\* The clock, imports and finality.
FinalityNext == Tick \/ NewSlot \/ ImportBlock
FinalitySpec == Init /\ [][FinalityNext]_vars
MCRoots5 == 1..5
FinalitySlots == {14, 15, 17, 20}

MCRoots3 == 1..3
VotesVotes == {14, 15}

\* Votes, slashings, boosts, heads and blocks that come twice, with justified balances that
\* change.
BoostNext ==
    \/ ImportBlock \/ ReimportBlock \/ Attest \/ Slash \/ UpdateHead
    \/ Tick \/ NewSlot
BoostSpec == Init /\ [][BoostNext]_vars
BoostSlots == {14, 17}

\* Votes and heads with payloads.
PayloadNext == ImportBlock \/ ImportPayload \/ Attest \/ UpdateHead
PayloadSpec == Init /\ [][PayloadNext]_vars

\* The same with the payload timeliness committee and equivocating proposers.
TimelinessNext == PayloadNext \/ PayloadAttest \/ Equivocate
TimelinessSpec == Init /\ [][TimelinessNext]_vars
PayloadSlots == {14, 15}
LatePayloadSlots == {15, 16}
PayloadVoteSlots == {14, 15}

\* Batches of the initial sync and live blocks.
SyncNext == Tick \/ NewSlot \/ ImportBlock \/ ImportChain
SyncSpec == Init /\ [][SyncNext]_vars

\* Batches alone.
BatchNext == Tick \/ NewSlot \/ ImportChain
BatchSpec == Init /\ [][BatchNext]_vars
SyncSlots == {14, 17, 20}
BatchSlots == {14, 17, 20, 21}

\* Payloads that arrive after the votes for them, with slashings.
SlashNext == ImportPayload \/ Attest \/ Slash \/ UpdateHead
SlashSpec == Init /\ [][SlashNext]_vars

\* A full node made for a missing block, after votes.
MarkNext == ImportBlock \/ MarkFull \/ Attest \/ UpdateHead
MarkSpec == Init /\ [][MarkNext]_vars

GenesisSlots == {2, 6, 11}
=============================================================================
