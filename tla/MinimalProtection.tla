------------------------- MODULE MinimalProtection -------------------------
(***************************************************************************)
(* The minimal slashing protection of the validator client                 *)
(* (validator/db/filesystem): one small file per key holds the slot of the *)
(* last block and the source and target of the last attestation that the   *)
(* key signed (EIP-3076, minimal database).                                *)
(*                                                                         *)
(* Three goroutines of one key use the file: the attester and the proposer *)
(* (client/attest.go, client/propose.go), which hold different locks, and  *)
(* an import of another client's history (filesystem/import.go), which     *)
(* holds none.  Each reads the file, checks, and writes it back; the mutex *)
(* of the file covers each read and each write, not the two together.      *)
(***************************************************************************)
EXTENDS Integers

CONSTANTS
    Epochs, Slots,      \* of attestations, and of blocks
    SigningRoots,       \* what tells two attestations, or two blocks, apart
    Imports,            \* the sets of attestations an imported file may hold
    MaxDuties,          \* bound on the signatures and imports of a behaviour
    MaxFailures         \* bound on the crashes and the failing writes

None == -1                                    \* a nil pointer of the record
Attestations == [source : Epochs, target : Epochs, root : SigningRoots]
Blocks == [slot : Slots, root : SigningRoots]

ASSUME EpochsAssumption == Epochs \subseteq Nat /\ Slots \subseteq Nat /\ 0 \in Epochs
ASSUME ImportsAssumption ==
    \A S \in Imports : /\ S \subseteq Attestations
                       /\ \E a \in S : \A b \in S : b.source <= a.source
                       /\ \E a \in S : \A b \in S : b.target <= a.target
ASSUME BoundsAssumption == MaxDuties \in Nat /\ MaxFailures \in Nat

Roles == {"attester", "proposer", "importer"}
ValidatorSlashingProtection ==
    [slot : Slots \cup {None}, source : Epochs, target : Epochs \cup {None}]
\* A missing file, an empty file and the file of a new key all read as this.
Unwritten == [slot |-> None, source |-> 0, target |-> None]

VARIABLES
    file,          \* the record on disk
    pc,            \* what each role is about to do
    update,        \* the record each role is about to write
    duty,          \* what each role signs, or imports
    history,       \* what has been handed to the beacon node, or imported
    contradicted,  \* the kinds of messages that contradicted the history
    overlapped,    \* whether one role read the file between another's read and write
    torn,          \* whether a write was cut short
    duties, failures

vars == <<file, pc, update, duty, history, contradicted, overlapped, torn, duties, failures>>

Histories == [atts : SUBSET Attestations, blocks : SUBSET Blocks]
Nothing == [atts |-> {}, blocks |-> {}]

\* Two attestations a validator is slashed for: a double vote, or one surrounds the other.
SlashableAttestations(a, b) ==
    \/ a.target = b.target /\ a # b
    \/ a.source < b.source /\ b.target < a.target
    \/ b.source < a.source /\ a.target < b.target

\* Two blocks a validator is slashed for.
SlashableBlocks(a, b) == a.slot = b.slot /\ a # b

TypeOK ==
    /\ file \in ValidatorSlashingProtection
    /\ pc \in [Roles -> {"idle", "save", "fill", "submit"}]
    /\ update \in [Roles -> ValidatorSlashingProtection]
    /\ duty \in [Roles -> Histories]
    /\ history \in Histories
    /\ contradicted \subseteq {"attestation", "block"}
    /\ overlapped \in BOOLEAN /\ torn \in BOOLEAN
    /\ duties \in Nat /\ failures \in Nat

Init ==
    /\ file = Unwritten
    /\ pc = [r \in Roles |-> "idle"]
    /\ update = [r \in Roles |-> Unwritten]
    /\ duty = [r \in Roles |-> Nothing]
    /\ history = Nothing
    /\ contradicted = {} /\ overlapped = FALSE /\ torn = FALSE
    /\ duties = 0 /\ failures = 0
-----------------------------------------------------------------------------
(* The checks, and what they write.                                        *)

\* The mutex of the file: nobody reads or writes while a write is under way.
unlocked == \A r \in Roles : pc[r] # "fill"

\* Whether SaveAttestationForPubKey accepts the attestation.
allowsAttestation(rec, a) == a.source >= rec.source /\ a.target > rec.target

\* MUTANT: a second block for the recorded slot is let through.
allowsSameSlot(rec, b) == b.slot >= rec.slot

\* Whether SaveProposalHistoryForSlot accepts the block.
allowsBlock(rec, b) == b.slot > rec.slot

withAttestation(rec, a) == [slot |-> rec.slot, source |-> a.source, target |-> a.target]
withBlock(rec, b) == [slot |-> b.slot, source |-> rec.source, target |-> rec.target]

\* The highest of the recorded and the imported epochs.
withAttestations(rec, S) ==
    [slot   |-> rec.slot,
     source |-> CHOOSE e \in {rec.source} \cup {a.source : a \in S} :
                  e >= rec.source /\ \A a \in S : e >= a.source,
     target |-> CHOOSE e \in {rec.target} \cup {a.target : a \in S} :
                  e >= rec.target /\ \A a \in S : e >= a.target]

\* What role r does once it has read the file and accepted its duty.
accept(r, new, d) ==
    /\ pc' = [pc EXCEPT ![r] = "save"]
    /\ update' = [update EXCEPT ![r] = new]
    /\ duty' = [duty EXCEPT ![r] = d]
    /\ UNCHANGED <<file, history, contradicted, torn, failures>>

\* Role r starts on a new duty: it reads the file.
read(r) ==
    /\ pc[r] = "idle" /\ unlocked
    /\ duties < MaxDuties
    /\ duties' = duties + 1
    /\ overlapped' = (overlapped \/ \E q \in Roles \ {r} :
                        pc[q] \in {"save", "fill"} \/ (pc[q] = "submit" /\ r = "importer"))
-----------------------------------------------------------------------------
(* The actions.  A refused attestation or block changes nothing.           *)

\* SlashableAttestationCheck, up to the write of the file.
SaveAttestationForPubKey(a) ==
    /\ read("attester")
    /\ allowsAttestation(file, a)
    /\ accept("attester", withAttestation(file, a), [atts |-> {a}, blocks |-> {}])

\* SlashableProposalCheck, up to the write of the file.
SaveProposalHistoryForSlot(b) ==
    /\ read("proposer")
    /\ allowsBlock(file, b)
    /\ accept("proposer", withBlock(file, b), [atts |-> {}, blocks |-> {b}])

\* An imported block that is above the recorded slot.
importBlockProposal(b) ==
    /\ read("importer")
    /\ allowsBlock(file, b)
    /\ accept("importer", withBlock(file, b), [atts |-> {}, blocks |-> {b}])

\* An imported block the record covers already: the refusal is ignored.
importCoveredProposal(b) ==
    /\ read("importer")
    /\ ~allowsBlock(file, b)
    /\ history' = [atts |-> history.atts, blocks |-> history.blocks \cup {b}]
    /\ UNCHANGED <<file, pc, update, duty, contradicted, torn, failures>>

\* MUTANT: imported attestations replace the record instead of raising it.
importLatestAttestations(S) ==
    /\ read("importer")
    /\ \E a \in S : accept("importer", withAttestation(file, a), [atts |-> S, blocks |-> {}])

\* SaveAttestationsForPubKey, up to the write of the file.
SaveAttestationsForPubKey(S) ==
    /\ read("importer")
    /\ accept("importer", withAttestations(file, S), [atts |-> S, blocks |-> {}])

\* saveValidatorSlashingProtection takes the mutex, and os.WriteFile empties the file.
Truncate(r) ==
    /\ pc[r] = "save" /\ unlocked
    /\ pc' = [pc EXCEPT ![r] = "fill"]
    /\ file' = Unwritten
    /\ UNCHANGED <<update, duty, history, contradicted, overlapped, torn, duties, failures>>

\* The write ends: a signer goes on to submit, an imported history is in force.
Fill(r) ==
    /\ pc[r] = "fill"
    /\ file' = update[r]
    /\ IF r = "importer"
         THEN /\ pc' = [pc EXCEPT ![r] = "idle"]
              /\ history' = [atts |-> history.atts \cup duty[r].atts,
                             blocks |-> history.blocks \cup duty[r].blocks]
         ELSE /\ pc' = [pc EXCEPT ![r] = "submit"]
              /\ UNCHANGED history
    /\ UNCHANGED <<update, duty, contradicted, overlapped, torn, duties, failures>>

\* The write fails: the duty is given up and the file is left empty.
WriteFails(r) ==
    /\ pc[r] = "fill" /\ failures < MaxFailures
    /\ pc' = [pc EXCEPT ![r] = "idle"]
    /\ torn' = TRUE
    /\ failures' = failures + 1
    /\ UNCHANGED <<file, update, duty, history, contradicted, overlapped, duties>>

\* The signed message is handed to the beacon node.
Submit(r) ==
    /\ pc[r] = "submit"
    /\ pc' = [pc EXCEPT ![r] = "idle"]
    /\ history' = [atts |-> history.atts \cup duty[r].atts,
                   blocks |-> history.blocks \cup duty[r].blocks]
    /\ contradicted' = contradicted
         \cup {k \in {"attestation"} :
                 \E a \in duty[r].atts, h \in history.atts : SlashableAttestations(a, h)}
         \cup {k \in {"block"} :
                 \E b \in duty[r].blocks, h \in history.blocks : SlashableBlocks(b, h)}
    /\ UNCHANGED <<file, update, duty, overlapped, torn, duties, failures>>

\* The beacon node cannot be reached: the message is never sent.
SubmitFails(r) ==
    /\ pc[r] = "submit" /\ failures < MaxFailures
    /\ pc' = [pc EXCEPT ![r] = "idle"]
    /\ failures' = failures + 1
    /\ UNCHANGED <<file, update, duty, history, contradicted, overlapped, torn, duties>>

\* The validator client stops and starts again: only the file survives.
Crash ==
    /\ failures < MaxFailures
    /\ pc' = [r \in Roles |-> "idle"]
    /\ torn' = (torn \/ ~unlocked)
    /\ failures' = failures + 1
    /\ UNCHANGED <<file, update, duty, history, contradicted, overlapped, duties>>

Next ==
    \/ \E a \in Attestations : a.source <= a.target /\ SaveAttestationForPubKey(a)
    \/ \E b \in Blocks : \/ SaveProposalHistoryForSlot(b)
                         \/ importBlockProposal(b)
                         \/ importCoveredProposal(b)
    \/ \E S \in Imports : SaveAttestationsForPubKey(S)
    \/ \E r \in Roles : Truncate(r) \/ Fill(r) \/ WriteFails(r) \/ Submit(r) \/ SubmitFails(r)
    \/ Crash

Spec == Init /\ [][Next]_vars
-----------------------------------------------------------------------------
(* Properties.                                                             *)

\* No attestation that SlashableAttestationCheck lets through contradicts one that was
\* submitted or imported before it, unless a role read the file between the read and the
\* write of another, or a write of the file was cut short.
AttestationsSafe == overlapped \/ torn \/ "attestation" \notin contradicted

\* The same of the blocks that SlashableProposalCheck lets through.
BlocksSafe == overlapped \/ torn \/ "block" \notin contradicted

\* Without failing writes, no attestation that SlashableAttestationCheck lets through
\* contradicts an earlier one, whatever the attester, the proposer and an import do at once.
NeverContradicted == torn \/ "attestation" \notin contradicted

=============================================================================
