----------------------- MODULE MinimalProtectionProofs -----------------------
(***************************************************************************)
(* Proofs about MinimalProtection, for every number of epochs, slots,      *)
(* duties, failures and imported histories.                                *)
(*                                                                         *)
(* The argument: as long as no role reads the file between another's read  *)
(* and write, and no write is cut short, one role at most is between its   *)
(* read and the end of its write; the record on disk is at or above all    *)
(* that was signed, and what a role has accepted is above all of it.       *)
(***************************************************************************)
EXTENDS MinimalProtection, TLAPS

\* The record is at or above everything in H.
Covers(rec, H) ==
    /\ \A a \in H.atts : rec.source >= a.source /\ rec.target >= a.target
    /\ \A b \in H.blocks : rec.slot >= b.slot

\* It covers the history and the signed messages that wait to be submitted.
CoversAll(rec) ==
    /\ Covers(rec, history)
    /\ \A r \in Roles : pc[r] = "submit" => Covers(rec, duty[r])

writing(r) == pc[r] \in {"save", "fill"}

\* One role at most is between its read and the end of its write, and while that is
\* an import nothing waits to be submitted.
OneWriter ==
    /\ \A q, r \in Roles : writing(q) /\ writing(r) => q = r
    /\ pc["importer"] # "submit"
    /\ writing("importer") => \A r \in Roles : pc[r] # "submit"

\* The attester signs no blocks, the proposer no attestations.
Shape == duty["attester"].blocks = {} /\ duty["proposer"].atts = {}

FileCovers == unlocked => CoversAll(file)

\* The record a role is about to write covers its own duty too.
UpdateCovers ==
    \A r \in Roles : writing(r) => CoversAll(update[r]) /\ Covers(update[r], duty[r])

\* What a signer has accepted is above all that was submitted or imported.
Ahead ==
    /\ pc["attester"] # "idle" =>
         \A a \in duty["attester"].atts, h \in history.atts :
            a.target > h.target /\ a.source >= h.source
    /\ pc["proposer"] # "idle" =>
         \A b \in duty["proposer"].blocks, h \in history.blocks : b.slot > h.slot

Good == OneWriter /\ Shape /\ FileCovers /\ UpdateCovers /\ Ahead /\ contradicted = {}

IInv == TypeOK /\ (overlapped \/ torn \/ Good)

-----------------------------------------------------------------------------
(* Records and duties.                                                     *)

AtLeast(new, rec) ==
    new.slot >= rec.slot /\ new.source >= rec.source /\ new.target >= rec.target

\* What a role has accepted is above the record it has read.
Above(r, d, rec) ==
    /\ r = "attester" =>
         d.blocks = {} /\ \A a \in d.atts : a.source >= rec.source /\ a.target > rec.target
    /\ r = "proposer" => d.atts = {} /\ \A b \in d.blocks : b.slot > rec.slot

\* The fields of records, attestations and blocks are numbers.
LEMMA Numbers ==
    /\ \A rec \in ValidatorSlashingProtection :
          rec.slot \in Int /\ rec.source \in Int /\ rec.target \in Int
    /\ \A a \in Attestations : a.source \in Int /\ a.target \in Int
    /\ \A b \in Blocks : b.slot \in Int
    /\ \A H \in Histories : H.atts \subseteq Attestations /\ H.blocks \subseteq Blocks
<1>1. None \in Int /\ Epochs \subseteq Int /\ Slots \subseteq Int
  BY EpochsAssumption DEF None
<1>2. \A rec \in ValidatorSlashingProtection :
         rec.slot \in Int /\ rec.source \in Int /\ rec.target \in Int
  BY <1>1 DEF ValidatorSlashingProtection
<1>3. \A a \in Attestations : a.source \in Int /\ a.target \in Int
  BY <1>1 DEF Attestations
<1>4. \A b \in Blocks : b.slot \in Int
  BY <1>1 DEF Blocks
<1>5. \A H \in Histories : H.atts \subseteq Attestations /\ H.blocks \subseteq Blocks
  BY DEF Histories
<1> QED
  BY <1>2, <1>3, <1>4, <1>5

\* A record at least as high covers as much.
LEMMA CoversUp ==
    ASSUME NEW rec \in ValidatorSlashingProtection, NEW new \in ValidatorSlashingProtection,
           NEW H \in Histories, Covers(rec, H), AtLeast(new, rec)
    PROVE  Covers(new, H)
BY Numbers DEF Covers, AtLeast

\* What two histories hold is covered when each is.
LEMMA CoversBoth ==
    ASSUME NEW rec, NEW G, NEW H, Covers(rec, G), Covers(rec, H)
    PROVE  Covers(rec, [atts |-> G.atts \cup H.atts, blocks |-> G.blocks \cup H.blocks])
BY DEF Covers

\* withAttestations raises the record to the highest imported epochs.
LEMMA Raised ==
    ASSUME NEW rec \in ValidatorSlashingProtection, NEW S \in Imports
    PROVE  /\ withAttestations(rec, S) \in ValidatorSlashingProtection
           /\ AtLeast(withAttestations(rec, S), rec)
           /\ Covers(withAttestations(rec, S), [atts |-> S, blocks |-> {}])
<1>1. S \subseteq Attestations
  BY ImportsAssumption
<1>2. PICK a \in S : \A b \in S : b.source <= a.source
  BY ImportsAssumption
<1>3. PICK c \in S : \A b \in S : b.target <= c.target
  BY ImportsAssumption
<1> DEFINE A == {rec.source} \cup {x.source : x \in S}
           B == {rec.target} \cup {x.target : x \in S}
           topSource == CHOOSE e \in A : e >= rec.source /\ \A x \in S : e >= x.source
           topTarget == CHOOSE e \in B : e >= rec.target /\ \A x \in S : e >= x.target
<1>4. \E e \in A : e >= rec.source /\ \A x \in S : e >= x.source
  <2>1. CASE a.source >= rec.source
    BY <1>1, <1>2, <2>1, Numbers
  <2>2. CASE ~(a.source >= rec.source)
    <3>1. a.source < rec.source /\ \A x \in S : rec.source >= x.source
      BY <1>1, <1>2, <2>2, Numbers
    <3> QED
      BY <3>1, Numbers
  <2> QED
    BY <2>1, <2>2
<1>5. \E e \in B : e >= rec.target /\ \A x \in S : e >= x.target
  <2>1. CASE c.target >= rec.target
    BY <1>1, <1>3, <2>1, Numbers
  <2>2. CASE ~(c.target >= rec.target)
    <3>1. c.target < rec.target /\ \A x \in S : rec.target >= x.target
      BY <1>1, <1>3, <2>2, Numbers
    <3> QED
      BY <3>1, Numbers
  <2> QED
    BY <2>1, <2>2
<1>6. topSource \in A /\ topSource >= rec.source /\ \A x \in S : topSource >= x.source
  BY <1>4
<1>7. topTarget \in B /\ topTarget >= rec.target /\ \A x \in S : topTarget >= x.target
  BY <1>5
<1>8. A \subseteq Epochs /\ B \subseteq Epochs \cup {None}
  BY <1>1 DEF Attestations, ValidatorSlashingProtection
<1>9. withAttestations(rec, S) = [slot |-> rec.slot, source |-> topSource, target |-> topTarget]
  BY DEF withAttestations
<1> HIDE DEF topSource, topTarget, A, B
<1>10. topSource \in Epochs /\ topTarget \in Epochs \cup {None}
  BY <1>6, <1>7, <1>8
<1> QED
  BY <1>6, <1>7, <1>9, <1>10, Numbers DEF AtLeast, Covers, ValidatorSlashingProtection

-----------------------------------------------------------------------------
(* The steps.                                                              *)

\* A role that reads the file while nobody writes it and no import meets a message that
\* waits to be submitted, and that accepts a duty above the record, keeps the invariant.
LEMMA AcceptKeeps ==
    ASSUME IInv, NEW r \in Roles, NEW new \in ValidatorSlashingProtection, NEW d \in Histories,
           read(r), accept(r, new, d), AtLeast(new, file), Covers(new, d), Above(r, d, file)
    PROVE  IInv'
<1>0. TypeOK
  BY DEF IInv
<1>1. TypeOK'
  <2>1. overlapped' \in BOOLEAN /\ torn' \in BOOLEAN
    BY <1>0, Zenon DEF TypeOK, read, accept
  <2> QED
    BY <1>0, <2>1, BoundsAssumption DEF TypeOK, read, accept
<1>2. SUFFICES ASSUME ~overlapped', ~torn'
               PROVE  Good'
  BY <1>1, Zenon DEF IInv
<1>3. /\ ~overlapped /\ ~torn
      /\ \A q \in Roles \ {r} : ~writing(q) /\ ~(pc[q] = "submit" /\ r = "importer")
  BY <1>2, Zenon DEF read, accept, writing
<1>4. Good
  BY <1>3 DEF IInv
<1>5. /\ \A q \in Roles : pc'[q] = IF q = r THEN "save" ELSE pc[q]
      /\ \A q \in Roles : update'[q] = IF q = r THEN new ELSE update[q]
      /\ \A q \in Roles : duty'[q] = IF q = r THEN d ELSE duty[q]
      /\ pc[r] = "idle" /\ unlocked
      /\ file' = file /\ history' = history /\ contradicted' = contradicted
  BY <1>0 DEF TypeOK, read, accept
<1>6. "attester" \in Roles /\ "proposer" \in Roles /\ "importer" \in Roles
  BY DEF Roles
<1>7. OneWriter'
  BY <1>3, <1>4, <1>5, <1>6 DEF Good, OneWriter, writing
<1>8. Shape'
  BY <1>4, <1>5, <1>6 DEF Good, Shape, Above
<1>9. CoversAll(file)
  BY <1>4, <1>5 DEF Good, FileCovers
<1>10. FileCovers'
  BY <1>5, <1>9 DEF FileCovers, CoversAll, Covers
<1>11. UpdateCovers'
  <2> SUFFICES ASSUME NEW q \in Roles, writing(q)'
               PROVE  CoversAll(update[q])' /\ Covers(update[q], duty[q])'
    BY DEF UpdateCovers
  <2>1. q = r
    BY <1>3, <1>5 DEF writing
  <2>2. Covers(new, history)
    BY <1>0, <1>9, CoversUp DEF CoversAll, TypeOK
  <2>3. \A s \in Roles : pc[s] = "submit" => Covers(new, duty[s])
    BY <1>0, <1>9, CoversUp DEF CoversAll, TypeOK
  <2>4. CoversAll(update[q])'
    BY <1>5, <2>1, <2>2, <2>3 DEF CoversAll, Covers
  <2>5. Covers(update[q], duty[q])'
    BY <1>5, <2>1 DEF Covers
  <2> QED
    BY <2>4, <2>5
<1>12. Ahead'
  <2>1. /\ \A h \in history.atts : file.source >= h.source /\ file.target >= h.target
        /\ \A h \in history.blocks : file.slot >= h.slot
    BY <1>9 DEF CoversAll, Covers
  <2>2. /\ file \in ValidatorSlashingProtection
        /\ history.atts \subseteq Attestations /\ history.blocks \subseteq Blocks
        /\ d.atts \subseteq Attestations /\ d.blocks \subseteq Blocks
    BY <1>0, Numbers DEF TypeOK
  <2>3. r = "attester" => \A a \in d.atts, h \in history.atts :
                             a.target > h.target /\ a.source >= h.source
    BY <2>1, <2>2, Numbers DEF Above
  <2>4. r = "proposer" => \A b \in d.blocks, h \in history.blocks : b.slot > h.slot
    BY <2>1, <2>2, Numbers DEF Above
  <2> QED
    BY <1>4, <1>5, <1>6, <2>3, <2>4 DEF Good, Ahead
<1> QED
  BY <1>4, <1>5, <1>7, <1>8, <1>10, <1>11, <1>12 DEF Good

\* The three reads that accept: the attester's, the proposer's and the import's.
LEMMA ReadKeeps ==
    ASSUME IInv,
           \/ \E a \in Attestations : SaveAttestationForPubKey(a)
           \/ \E b \in Blocks : SaveProposalHistoryForSlot(b) \/ importBlockProposal(b)
           \/ \E S \in Imports : SaveAttestationsForPubKey(S)
    PROVE  IInv'
<1>0. file \in ValidatorSlashingProtection /\ "attester" \in Roles /\ "proposer" \in Roles /\ "importer" \in Roles
  BY DEF IInv, TypeOK, Roles
<1>1. ASSUME NEW a \in Attestations, SaveAttestationForPubKey(a)
      PROVE  IInv'
  <2> DEFINE new == withAttestation(file, a)
             d == [atts |-> {a}, blocks |-> {}]
  <2>1. new \in ValidatorSlashingProtection /\ d \in Histories
    BY <1>0 DEF withAttestation, ValidatorSlashingProtection, Attestations, Histories
  <2>2. AtLeast(new, file) /\ Covers(new, d) /\ Above("attester", d, file)
    BY <1>0, <1>1, Numbers
       DEF SaveAttestationForPubKey, allowsAttestation, withAttestation, AtLeast, Covers, Above
  <2>3. read("attester") /\ accept("attester", new, d)
    BY <1>1 DEF SaveAttestationForPubKey
  <2> HIDE DEF new, d
  <2> QED
    BY <1>0, <2>1, <2>2, <2>3, AcceptKeeps
<1>2. ASSUME NEW b \in Blocks, NEW r \in {"proposer", "importer"},
             read(r), allowsBlock(file, b),
             accept(r, withBlock(file, b), [atts |-> {}, blocks |-> {b}])
      PROVE  IInv'
  <2> DEFINE new == withBlock(file, b)
             d == [atts |-> {}, blocks |-> {b}]
  <2>1. new \in ValidatorSlashingProtection /\ d \in Histories
    BY <1>0 DEF withBlock, ValidatorSlashingProtection, Blocks, Histories
  <2>2. AtLeast(new, file) /\ Covers(new, d) /\ Above(r, d, file)
    BY <1>0, <1>2, Numbers DEF allowsBlock, withBlock, AtLeast, Covers, Above
  <2>3. accept(r, new, d)
    BY <1>2
  <2> HIDE DEF new, d
  <2> QED
    BY <1>0, <1>2, <2>1, <2>2, <2>3, AcceptKeeps
<1>3. ASSUME NEW S \in Imports, SaveAttestationsForPubKey(S)
      PROVE  IInv'
  <2> DEFINE new == withAttestations(file, S)
             d == [atts |-> S, blocks |-> {}]
  <2>1. d \in Histories
    BY ImportsAssumption DEF Histories
  <2>2. new \in ValidatorSlashingProtection /\ AtLeast(new, file) /\ Covers(new, d)
    BY <1>0, Raised
  <2>3. Above("importer", d, file)
    BY DEF Above
  <2>4. read("importer") /\ accept("importer", new, d)
    BY <1>3 DEF SaveAttestationsForPubKey
  <2> HIDE DEF new, d
  <2> QED
    BY <1>0, <2>1, <2>2, <2>3, <2>4, AcceptKeeps
<1> QED
  BY <1>1, <1>2, <1>3 DEF SaveProposalHistoryForSlot, importBlockProposal

\* An imported block that the record covers joins the history: no signer is at work.
LEMMA CoveredKeeps ==
    ASSUME IInv, NEW b \in Blocks, importCoveredProposal(b)
    PROVE  IInv'
<1>0. TypeOK
  BY DEF IInv
<1> DEFINE H == [atts |-> history.atts, blocks |-> history.blocks \cup {b}]
<1>1. TypeOK'
  <2>1. overlapped' \in BOOLEAN /\ torn' \in BOOLEAN
    BY <1>0, Zenon DEF TypeOK, read, importCoveredProposal
  <2>2. H \in Histories
    BY <1>0 DEF TypeOK, Histories
  <2> QED
    BY <1>0, <2>1, <2>2, BoundsAssumption DEF TypeOK, read, importCoveredProposal
<1>2. SUFFICES ASSUME ~overlapped', ~torn'
               PROVE  Good'
  BY <1>1, Zenon DEF IInv
<1>3. /\ ~overlapped /\ ~torn
      /\ \A q \in Roles \ {"importer"} : ~writing(q) /\ pc[q] # "submit"
  BY <1>2, Zenon DEF read, importCoveredProposal, writing
<1>4. Good
  BY <1>3 DEF IInv
<1>5. /\ pc["importer"] = "idle" /\ unlocked /\ ~allowsBlock(file, b)
      /\ history' = H
      /\ UNCHANGED <<file, pc, update, duty, contradicted>>
  BY DEF read, importCoveredProposal
<1>6. \A q \in Roles : pc[q] = "idle"
  BY <1>0, <1>3, <1>5 DEF TypeOK, writing
<1>7. CoversAll(file) /\ file.slot >= b.slot
  BY <1>0, <1>4, <1>5, Numbers DEF Good, FileCovers, allowsBlock, TypeOK
<1>8. FileCovers'
  BY <1>5, <1>6, <1>7 DEF FileCovers, CoversAll, Covers
<1>9. OneWriter' /\ Shape' /\ UpdateCovers' /\ Ahead'
  BY <1>4, <1>5, <1>6 DEF Good, OneWriter, Shape, UpdateCovers, Ahead, writing, Roles
<1> QED
  BY <1>4, <1>5, <1>8, <1>9 DEF Good

\* While the file is empty the role that writes it holds the mutex.
LEMMA TruncateKeeps ==
    ASSUME IInv, NEW r \in Roles, Truncate(r)
    PROVE  IInv'
<1>0. TypeOK
  BY DEF IInv
<1>1. Unwritten \in ValidatorSlashingProtection
  BY EpochsAssumption DEF Unwritten, ValidatorSlashingProtection
<1>2. TypeOK'
  BY <1>0, <1>1 DEF TypeOK, Truncate
<1>3. /\ \A q \in Roles : pc'[q] = IF q = r THEN "fill" ELSE pc[q]
      /\ pc[r] = "save"
      /\ UNCHANGED <<update, duty, history, contradicted>>
  BY <1>0 DEF TypeOK, Truncate
<1>4. UNCHANGED <<overlapped, torn>>
  BY DEF Truncate
<1>5. ASSUME Good
      PROVE  Good'
  <2>1. \A q \in Roles : (writing(q)' <=> writing(q)) /\ (pc'[q] = "submit" <=> pc[q] = "submit")
                         /\ (pc'[q] = "idle" <=> pc[q] = "idle")
    BY <1>3 DEF writing
  <2>2. OneWriter' /\ Shape' /\ Ahead'
    BY <1>3, <1>5, <2>1 DEF Good, OneWriter, Shape, Ahead, Roles
  <2>3. FileCovers'
    BY <1>3 DEF FileCovers, unlocked
  <2>4. UpdateCovers'
    BY <1>3, <1>5, <2>1 DEF Good, UpdateCovers, CoversAll, Covers
  <2> QED
    BY <1>3, <1>5, <2>2, <2>3, <2>4 DEF Good
<1> QED
  BY <1>2, <1>4, <1>5, Zenon DEF IInv

\* The end of the write: the file covers the duty that is now signed or imported.
LEMMA FillKeeps ==
    ASSUME IInv, NEW r \in Roles, Fill(r)
    PROVE  IInv'
<1>0. TypeOK
  BY DEF IInv
<1> DEFINE H == [atts |-> history.atts \cup duty[r].atts, blocks |-> history.blocks \cup duty[r].blocks]
<1>1. H \in Histories
  BY <1>0 DEF TypeOK, Histories
<1>2. /\ \A q \in Roles : pc'[q] = IF q # r THEN pc[q] ELSE IF r = "importer" THEN "idle" ELSE "submit"
      /\ pc[r] = "fill" /\ file' = update[r]
      /\ r = "importer" => history' = H
      /\ r # "importer" => history' = history
      /\ UNCHANGED <<update, duty, contradicted>>
  BY <1>0 DEF TypeOK, Fill
<1> HIDE DEF H
<1>3. TypeOK'
  BY <1>0, <1>1, <1>2 DEF TypeOK, Fill
<1>4. UNCHANGED <<overlapped, torn>>
  BY DEF Fill
<1>5. ASSUME Good
      PROVE  Good'
  <2>1. writing(r) /\ \A q \in Roles : q # r => ~writing(q)
    BY <1>2, <1>5 DEF Good, OneWriter, writing
  <2>2. \A q \in Roles : ~writing(q)'
    BY <1>2, <2>1 DEF writing
  <2>3. CoversAll(update[r]) /\ Covers(update[r], duty[r])
    BY <1>5, <2>1 DEF Good, UpdateCovers
  <2>4. r = "importer" => \A q \in Roles : pc'[q] = "idle"
    BY <1>0, <1>2, <1>5, <2>1 DEF Good, OneWriter, writing, TypeOK
  <2>5. OneWriter'
    BY <1>2, <1>5, <2>2 DEF Good, OneWriter, Roles
  <2>6. Shape' /\ UpdateCovers'
    BY <1>2, <1>5, <2>2 DEF Good, Shape, UpdateCovers
  <2>7. FileCovers'
    <3>1. CASE r = "importer"
      <4>1. Covers(update[r], H)
        BY <2>3, CoversBoth DEF CoversAll, H
      <4> QED
        BY <1>2, <2>4, <3>1, <4>1 DEF FileCovers, CoversAll, Covers
    <3>2. CASE r # "importer"
      BY <1>2, <2>3, <3>2 DEF FileCovers, CoversAll, Covers
    <3> QED
      BY <3>1, <3>2
  <2>8. Ahead'
    BY <1>2, <1>5, <2>4 DEF Good, Ahead, Roles
  <2> QED
    BY <1>2, <1>5, <2>5, <2>6, <2>7, <2>8 DEF Good
<1> QED
  BY <1>3, <1>4, <1>5, Zenon DEF IInv

\* An accepted attestation contradicts none below it.
LEMMA NotSlashable ==
    ASSUME NEW a \in Attestations, NEW h \in Attestations, a.target > h.target, a.source >= h.source
    PROVE  ~SlashableAttestations(a, h)
BY Numbers DEF SlashableAttestations

\* What is submitted contradicts nothing, and the record covers it already.
LEMMA SubmitKeeps ==
    ASSUME IInv, NEW r \in Roles, Submit(r)
    PROVE  IInv'
<1>0. TypeOK
  BY DEF IInv
<1> DEFINE H == [atts |-> history.atts \cup duty[r].atts, blocks |-> history.blocks \cup duty[r].blocks]
<1>1. H \in Histories
  BY <1>0 DEF TypeOK, Histories
<1>2. /\ \A q \in Roles : pc'[q] = IF q = r THEN "idle" ELSE pc[q]
      /\ pc[r] = "submit" /\ history' = H
      /\ UNCHANGED <<file, update, duty>>
  BY <1>0 DEF TypeOK, Submit
<1>3. contradicted' = contradicted
         \cup {k \in {"attestation"} :
                 \E a \in duty[r].atts, h \in history.atts : SlashableAttestations(a, h)}
         \cup {k \in {"block"} :
                 \E b \in duty[r].blocks, h \in history.blocks : SlashableBlocks(b, h)}
  BY DEF Submit
<1>4. TypeOK'
  <2>1. contradicted' \subseteq {"attestation", "block"}
    BY <1>0, <1>3 DEF TypeOK
  <2> QED
    BY <1>0, <1>1, <1>2, <2>1 DEF TypeOK, Submit
<1>5. H.atts = history.atts \cup duty[r].atts /\ H.blocks = history.blocks \cup duty[r].blocks
  OBVIOUS
<1> HIDE DEF H
<1>6. UNCHANGED <<overlapped, torn>>
  BY DEF Submit
<1>7. ASSUME Good
      PROVE  Good'
  <2>1. r # "importer" /\ (r = "attester" \/ r = "proposer")
    BY <1>2, <1>7 DEF Good, OneWriter, Roles
  <2>2. history.atts \subseteq Attestations /\ history.blocks \subseteq Blocks
        /\ duty[r].atts \subseteq Attestations /\ duty[r].blocks \subseteq Blocks
    BY <1>0, Numbers DEF TypeOK
  <2>3. \A a \in duty[r].atts, h \in history.atts : a.target > h.target /\ a.source >= h.source
    BY <1>2, <1>7, <2>1 DEF Good, Ahead, Shape
  <2>4. \A b \in duty[r].blocks, h \in history.blocks : b.slot > h.slot
    BY <1>2, <1>7, <2>1 DEF Good, Ahead, Shape
  <2>5. \A a \in duty[r].atts, h \in history.atts : ~SlashableAttestations(a, h)
    BY <2>2, <2>3, NotSlashable
  <2>6. \A b \in duty[r].blocks, h \in history.blocks : ~SlashableBlocks(b, h)
    BY <2>2, <2>4, Numbers DEF SlashableBlocks
  <2>7. contradicted' = {}
    BY <1>3, <1>7, <2>5, <2>6 DEF Good
  <2>8. OneWriter' /\ Shape'
    BY <1>2, <1>7 DEF Good, OneWriter, Shape, writing, Roles
  <2>9. \A rec : CoversAll(rec) => Covers(rec, H)
    BY <1>2, CoversBoth DEF CoversAll, H
  <2>10. FileCovers'
    BY <1>2, <1>7, <2>9 DEF Good, FileCovers, CoversAll, Covers, unlocked
  <2>11. UpdateCovers'
    BY <1>2, <1>7, <2>9 DEF Good, UpdateCovers, CoversAll, Covers, writing
  <2>12. Ahead'
    <3>1. CASE r = "attester"
      BY <1>2, <1>5, <1>7, <3>1 DEF Good, Ahead, Shape, Roles
    <3>2. CASE r = "proposer"
      BY <1>2, <1>5, <1>7, <3>2 DEF Good, Ahead, Shape, Roles
    <3> QED
      BY <2>1, <3>1, <3>2
  <2> QED
    BY <2>7, <2>8, <2>10, <2>11, <2>12 DEF Good
<1> QED
  BY <1>4, <1>6, <1>7, Zenon DEF IInv

\* A failure gives up duties; one that cuts a write short is remembered as torn.
LEMMA FailuresKeep ==
    ASSUME IInv, Crash \/ \E r \in Roles : WriteFails(r) \/ SubmitFails(r)
    PROVE  IInv'
<1>0. TypeOK
  BY DEF IInv
<1>1. ASSUME NEW r \in Roles, WriteFails(r)
      PROVE  IInv'
  <2>1. TypeOK'
    BY <1>0, <1>1, BoundsAssumption DEF TypeOK, WriteFails
  <2>2. torn'
    BY <1>1 DEF WriteFails
  <2> QED
    BY <2>1, <2>2 DEF IInv
<1>2. ASSUME UNCHANGED <<file, update, duty, history, contradicted>>,
             \A q \in Roles : pc'[q] = pc[q] \/ (pc'[q] = "idle" /\ pc[q] # "fill"),
             Good
      PROVE  Good'
  <2>1. \A q \in Roles : (writing(q)' => writing(q)) /\ (pc'[q] = "submit" => pc[q] = "submit")
                         /\ (pc'[q] # "idle" => pc[q] # "idle")
    BY <1>2 DEF writing
  <2>2. unlocked' => unlocked
    BY <1>2 DEF unlocked
  <2>3. \A rec : CoversAll(rec) => CoversAll(rec)'
    BY <1>2, <2>1 DEF CoversAll, Covers
  <2>4. OneWriter' /\ Shape' /\ Ahead'
    BY <1>2, <2>1 DEF Good, OneWriter, Shape, Ahead, Roles
  <2>5. FileCovers'
    BY <1>2, <2>2, <2>3 DEF Good, FileCovers
  <2>6. UpdateCovers'
    BY <1>2, <2>1, <2>3 DEF Good, UpdateCovers, Covers
  <2> QED
    BY <1>2, <2>4, <2>5, <2>6 DEF Good
<1>3. ASSUME NEW r \in Roles, SubmitFails(r)
      PROVE  IInv'
  <2>1. TypeOK'
    BY <1>0, <1>3, BoundsAssumption DEF TypeOK, SubmitFails
  <2>2. /\ UNCHANGED <<file, update, duty, history, contradicted>>
        /\ \A q \in Roles : pc'[q] = pc[q] \/ (pc'[q] = "idle" /\ pc[q] # "fill")
    BY <1>0, <1>3 DEF SubmitFails, TypeOK
  <2>3. UNCHANGED <<overlapped, torn>>
    BY <1>3 DEF SubmitFails
  <2> QED
    BY <1>2, <2>1, <2>2, <2>3, Zenon DEF IInv
<1>4. ASSUME Crash
      PROVE  IInv'
  <2>1. TypeOK'
    <3>1. torn' \in BOOLEAN
      BY <1>4, Zenon DEF Crash
    <3> QED
      BY <1>0, <1>4, <3>1, BoundsAssumption DEF TypeOK, Crash
  <2>2. overlapped' = overlapped /\ (~torn' => ~torn /\ unlocked)
    BY <1>4, Zenon DEF Crash
  <2>3. /\ UNCHANGED <<file, update, duty, history, contradicted>>
        /\ unlocked => \A q \in Roles : pc'[q] = pc[q] \/ (pc'[q] = "idle" /\ pc[q] # "fill")
    BY <1>4 DEF Crash, unlocked
  <2> QED
    BY <1>2, <2>1, <2>2, <2>3, Zenon DEF IInv
<1> QED
  BY <1>1, <1>3, <1>4

-----------------------------------------------------------------------------
(* The theorems.                                                           *)

\* The invariant holds in every state of every execution.
LEMMA AlwaysInv == Spec => []IInv
<1>1. Init => IInv
  <2> SUFFICES ASSUME Init PROVE IInv
    OBVIOUS
  <2>1. Unwritten \in ValidatorSlashingProtection /\ Nothing \in Histories
    BY EpochsAssumption DEF Unwritten, ValidatorSlashingProtection, Nothing, Histories
  <2>2. TypeOK
    BY <2>1 DEF Init, TypeOK
  <2>3. OneWriter /\ Shape /\ FileCovers /\ UpdateCovers /\ Ahead
    BY DEF Init, OneWriter, Shape, FileCovers, UpdateCovers, Ahead, CoversAll, Covers,
           writing, Nothing, Roles
  <2> QED
    BY <2>2, <2>3 DEF IInv, Good, Init
<1>2. IInv /\ Next => IInv'
  BY ReadKeeps, CoveredKeeps, TruncateKeeps, FillKeeps, SubmitKeeps, FailuresKeep DEF Next
<1>3. IInv /\ UNCHANGED vars => IInv'
  <2> SUFFICES ASSUME IInv, UNCHANGED vars PROVE IInv'
    OBVIOUS
  <2>1. TypeOK'
    BY DEF IInv, TypeOK, vars
  <2>2. Good => OneWriter' /\ Shape' /\ Ahead'
    BY DEF Good, OneWriter, Shape, Ahead, writing, vars
  <2>3. Good => FileCovers'
    BY DEF Good, FileCovers, CoversAll, Covers, unlocked, vars
  <2>4. Good => UpdateCovers'
    BY DEF Good, UpdateCovers, CoversAll, Covers, writing, vars
  <2>5. Good => Good'
    BY <2>2, <2>3, <2>4 DEF Good, vars
  <2>6. UNCHANGED <<overlapped, torn>>
    BY DEF vars
  <2> QED
    BY <2>1, <2>5, <2>6, Zenon DEF IInv
<1> QED
  BY <1>1, <1>2, <1>3, PTL DEF Spec

\* What SlashableAttestationCheck lets through never contradicts an earlier attestation,
\* up to overlapping reads and torn writes, for any epochs and any number of duties.
THEOREM AttestationsAlwaysSafe == Spec => []AttestationsSafe
<1>1. IInv => AttestationsSafe
  BY Zenon DEF IInv, Good, AttestationsSafe
<1> QED
  BY <1>1, AlwaysInv, PTL

\* The same of the blocks that SlashableProposalCheck lets through.
THEOREM BlocksAlwaysSafe == Spec => []BlocksSafe
<1>1. IInv => BlocksSafe
  BY Zenon DEF IInv, Good, BlocksSafe
<1> QED
  BY <1>1, AlwaysInv, PTL
=============================================================================
