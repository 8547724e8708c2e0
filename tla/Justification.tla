--------------------------- MODULE Justification ---------------------------
(***************************************************************************)
(* Justification and finalization in the beacon state, core/epoch/         *)
(* precompute/justification_finalization.go.                               *)
(*                                                                         *)
(* Of a state st the operators use                                         *)
(*   previous, current, finalized   the three checkpoints                  *)
(*   bits                           the justification bits 0..3            *)
(*   roots                          BlockRoot(state, epoch) of each epoch  *)
(*   prevTarget, currTarget         do the attestations included in the    *)
(*                                  chain for the target of the previous   *)
(*                                  and of the current epoch hold two      *)
(*                                  thirds of the active balance           *)
(***************************************************************************)
EXTENDS Naturals

Checkpoint(epoch, root) == [epoch |-> epoch, root |-> root]

BeaconStates(epochs, roots) ==
    [previous : [epoch : epochs, root : roots], current : [epoch : epochs, root : roots],
     finalized : [epoch : epochs, root : roots], roots : [epochs -> roots],
     bits : [0..3 -> BOOLEAN], prevTarget : BOOLEAN, currTarget : BOOLEAN]

PrevEpoch(epoch) == IF epoch = 0 THEN 0 ELSE epoch - 1

processJustificationBits(st) ==
    [i \in 0..3 |-> \/ i > 0 /\ st.bits[i - 1]
                    \/ i = 1 /\ st.prevTarget
                    \/ i = 0 /\ st.currTarget]

\* The two results of computeCheckpoints.
justifiedBy(st, bits, epoch) ==
    IF bits[0] /\ epoch >= st.current.epoch THEN Checkpoint(epoch, st.roots[epoch])
    ELSE IF bits[1] /\ PrevEpoch(epoch) >= st.current.epoch
    THEN Checkpoint(PrevEpoch(epoch), st.roots[PrevEpoch(epoch)])
    ELSE st.current

finalizedBy(st, bits, epoch) ==
    IF bits[0] /\ bits[1] /\ st.current.epoch + 1 = epoch THEN st.current
    ELSE IF bits[0] /\ bits[1] /\ bits[2] /\ st.current.epoch + 2 = epoch THEN st.current
    ELSE IF bits[1] /\ bits[2] /\ st.previous.epoch + 2 = epoch THEN st.previous
    ELSE IF bits[1] /\ bits[2] /\ bits[3] /\ st.previous.epoch + 3 = epoch THEN st.previous
    ELSE st.finalized

\* The checkpoints of a state of the epoch as if it was progressed with empty
\* slots until the next one.
UnrealizedCheckpoints(st, epoch) ==
    LET bits == processJustificationBits(st)
    IN  IF epoch <= 1 THEN [jc |-> st.current, fc |-> st.finalized]
        ELSE [jc |-> justifiedBy(st, bits, epoch), fc |-> finalizedBy(st, bits, epoch)]

\* Epoch processing of a state at the last slot of the epoch.  The
\* participation of the current epoch becomes that of the previous one.
ProcessJustificationAndFinalization(st, epoch) ==
    LET bits == processJustificationBits(st)
        weighed == [st EXCEPT !.previous = st.current,
                              !.current = justifiedBy(st, bits, epoch),
                              !.finalized = finalizedBy(st, bits, epoch),
                              !.bits = bits]
    IN  [(IF epoch <= 1 THEN st ELSE weighed) EXCEPT
            !.prevTarget = st.currTarget, !.currTarget = FALSE]

-----------------------------------------------------------------------------
(* Slashing.  An attestation is included only when its source is what the  *)
(* state has justified, so a block shows by its two participation flags    *)
(* the votes of two thirds of the validators.                              *)

Votes(st, epoch) ==
    (IF st.prevTarget
     THEN {[source |-> st.previous, target |-> Checkpoint(PrevEpoch(epoch), st.roots[PrevEpoch(epoch)])]}
     ELSE {}) \cup
    (IF st.currTarget
     THEN {[source |-> st.current, target |-> Checkpoint(epoch, st.roots[epoch])]} ELSE {})

\* Two such majorities share a third of the validators, who have not voted
\* twice for one epoch nor around another vote of theirs.
NobodySlashable(votes) ==
    \A v, w \in votes :
        /\ v.target.epoch = w.target.epoch => v = w
        /\ ~(v.source.epoch < w.source.epoch /\ w.target.epoch < v.target.epoch)

=============================================================================
