----------------------------- MODULE KeyLocks -----------------------------
(***************************************************************************)
(* What a Multilock promises: each process asks for a set of keys, takes   *)
(* them one at a time from the least to the greatest, and nobody else has  *)
(* a key while it does.  Multilock is shown to implement it.               *)
(***************************************************************************)
EXTENDS Naturals

CONSTANTS Procs, Keys

VARIABLES
    wanted,     \* wanted[p]: the keys p has asked for
    has,       \* has[p]: those it has
    releasing   \* the processes that give their keys back

kvars == <<wanted, has, releasing>>

Init ==
    /\ wanted = [p \in Procs |-> {}]
    /\ has = [p \in Procs |-> {}]
    /\ releasing = {}

Ask(p) ==
    /\ wanted[p] = {}
    /\ \E ks \in (SUBSET Keys) \ {{}} : wanted' = [wanted EXCEPT ![p] = ks]
    /\ UNCHANGED <<has, releasing>>

Take(p, k) ==
    /\ p \notin releasing
    /\ k \in wanted[p] \ has[p]
    /\ \A j \in wanted[p] \ has[p] : k <= j
    /\ \A q \in Procs : k \notin has[q]
    /\ has' = [has EXCEPT ![p] = @ \cup {k}]
    /\ UNCHANGED <<wanted, releasing>>

Release(p) ==
    /\ wanted[p] # {} /\ has[p] = wanted[p]
    /\ releasing' = releasing \cup {p}
    /\ UNCHANGED <<wanted, has>>

Give(p, k) ==
    /\ p \in releasing
    /\ k \in has[p]
    /\ has' = [has EXCEPT ![p] = @ \ {k}]
    /\ UNCHANGED <<wanted, releasing>>

Finish(p) ==
    /\ p \in releasing
    /\ has[p] = {}
    /\ wanted' = [wanted EXCEPT ![p] = {}]
    /\ releasing' = releasing \ {p}
    /\ UNCHANGED has

Next ==
    \E p \in Procs :
        \/ Ask(p) \/ Release(p) \/ Finish(p)
        \/ \E k \in Keys : Take(p, k) \/ Give(p, k)

Spec == Init /\ [][Next]_kvars
=============================================================================
