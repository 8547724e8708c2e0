----------------------------- MODULE Multilock -----------------------------
(***************************************************************************)
(* The locks by key of async/multilock.go.                                 *)
(*                                                                         *)
(* A key is locked by receiving the one token of the key's channel, and    *)
(* unlocked by sending it back.  The channels are made on demand and       *)
(* listed by key; every Unlock ends with a Clean, which takes the token of *)
(* each channel nobody holds, closes the channel and unlists it.  A Lock   *)
(* that waits on a channel when it is closed asks for the key's channel    *)
(* again.  The list is under the lock locks.lock, the tokens are not.      *)
(*                                                                         *)
(* Each caller makes its own Lock object, so the channels lk.lock and      *)
(* lk.unlock, which order the calls on one object, are never waited for.   *)
(***************************************************************************)
EXTENDS Naturals, FiniteSets

CONSTANTS
    Procs,      \* the goroutines
    Keys,       \* the keys, numbered in the order of their strings
    Chans,      \* the identities a channel may have
    Nil,
    MaxCalls    \* bound: the calls of Lock by one goroutine

ASSUME KeysAssumption == Keys \subseteq Nat
ASSUME CallsAssumption == MaxCalls \in Nat
ASSUME NilAssumption == Nil \notin Chans /\ Nil \notin Procs

VARIABLES
    pc,         \* where each goroutine is
    calls,      \* calls[p]: the calls of Lock that p has made
    keys,       \* keys[p]: the keys of the Lock of p, {} when it has none
    chans,      \* chans[p][k]: the channel whose token p has for k
    ch,         \* ch[p]: the channel p is about to receive from
    list,       \* list[k]: the channel listed for k
    token,      \* the channels that hold their token
    closed,     \* the channels that have been closed
    mutex,      \* who has locks.lock, in the middle of Clean
    toVisit,    \* the keys that this Clean has yet to look at
    toDelete    \* the keys whose channels it has closed

vars == <<pc, calls, keys, chans, ch, list, token, closed, mutex, toVisit, toDelete>>

-----------------------------------------------------------------------------
NoChans == [k \in Keys |-> Nil]

held(p) == {k \in Keys : chans[p][k] # Nil}

\* The keys of p that Lock has not acquired yet.
missing(p) == keys[p] \ held(p)

\* Each caller by an order of its own.
isFirstUnsorted(k, ks) == k \in ks

\* k is the next key of ks in sorted order.
isFirst(k, ks) == k \in ks /\ \A j \in ks : k <= j

\* The channels somebody still has a reference to.
inUse == {c \in Chans : \/ \E k \in Keys : list[k] = c
                        \/ \E p \in Procs : ch[p] = c
                        \/ \E p \in Procs, k \in Keys : chans[p][k] = c}

\* What make returns.
made == CHOOSE c \in Chans : c \notin inUse

Init ==
    /\ pc = [p \in Procs |-> "idle"]
    /\ calls = [p \in Procs |-> 0]
    /\ keys = [p \in Procs |-> {}]
    /\ chans = [p \in Procs |-> NoChans]
    /\ ch = [p \in Procs |-> Nil]
    /\ list = NoChans
    /\ token = {} /\ closed = {}
    /\ mutex = Nil /\ toVisit = {} /\ toDelete = {}

goTo(p, where) == pc' = [pc EXCEPT ![p] = where]

-----------------------------------------------------------------------------
(* Lock.                                                                   *)

\* NewMultilock of some keys, and the call of Lock.
Lock(p) ==
    /\ pc[p] = "idle"
    /\ calls[p] < MaxCalls
    /\ \E ks \in (SUBSET Keys) \ {{}} : keys' = [keys EXCEPT ![p] = ks]
    /\ calls' = [calls EXCEPT ![p] = @ + 1]
    /\ goTo(p, "get")
    /\ UNCHANGED <<chans, ch, list, token, closed, mutex, toVisit, toDelete>>

\* getChan of the next key when its channel is listed,
getListed(p, k) ==
    /\ list[k] # Nil
    /\ ch' = [ch EXCEPT ![p] = list[k]]
    /\ UNCHANGED <<list, token, closed>>

\* and when it is not: a new channel, with its token.
getNew(p, k) ==
    /\ list[k] = Nil
    /\ Chans \ inUse # {}
    /\ ch' = [ch EXCEPT ![p] = made]
    /\ list' = [list EXCEPT ![k] = made]
    /\ token' = token \cup {made}
    /\ closed' = closed \ {made}

getChan(p) ==
    /\ pc[p] = "get"
    /\ mutex = Nil
    /\ \E k \in Keys :
          /\ isFirst(k, missing(p))
          /\ getListed(p, k) \/ getNew(p, k)
    /\ goTo(p, "receive")
    /\ UNCHANGED <<calls, keys, chans, mutex, toVisit, toDelete>>

\* <-ch with ok: the key is acquired.
receive(p) ==
    /\ pc[p] = "receive"
    /\ ch[p] \in token
    /\ token' = token \ {ch[p]}
    /\ \E k \in Keys :
          /\ isFirst(k, missing(p))
          /\ chans' = [chans EXCEPT ![p] = [chans[p] EXCEPT ![k] = ch[p]]]
          /\ goTo(p, IF missing(p) = {k} THEN "locked" ELSE "get")
    /\ ch' = [ch EXCEPT ![p] = Nil]
    /\ UNCHANGED <<calls, keys, list, closed, mutex, toVisit, toDelete>>

\* A receive that does not look at ok.
receiveAnyway(p) ==
    /\ pc[p] = "receive"
    /\ ch[p] \in closed \ token
    /\ \E k \in Keys :
          /\ isFirst(k, missing(p))
          /\ chans' = [chans EXCEPT ![p] = [chans[p] EXCEPT ![k] = ch[p]]]
          /\ goTo(p, IF missing(p) = {k} THEN "locked" ELSE "get")
    /\ ch' = [ch EXCEPT ![p] = Nil]
    /\ UNCHANGED <<calls, keys, list, token, closed, mutex, toVisit, toDelete>>

\* <-ch without ok: the channel has been closed, the same key is tried again.
receiveClosed(p) ==
    /\ pc[p] = "receive"
    /\ ch[p] \in closed \ token
    /\ ch' = [ch EXCEPT ![p] = Nil]
    /\ goTo(p, "get")
    /\ UNCHANGED <<calls, keys, chans, list, token, closed, mutex, toVisit, toDelete>>

-----------------------------------------------------------------------------
(* Unlock.                                                                 *)

Unlock(p) ==
    /\ pc[p] = "locked"
    /\ goTo(p, "send")
    /\ UNCHANGED <<calls, keys, chans, ch, list, token, closed, mutex, toVisit, toDelete>>

\* ch <- 1, which waits while the channel already has a token.
send(p) ==
    /\ pc[p] = "send"
    /\ \E k \in Keys :
          /\ isFirst(k, held(p))
          /\ chans[p][k] \notin token
          /\ token' = token \cup {chans[p][k]}
          /\ chans' = [chans EXCEPT ![p] = [chans[p] EXCEPT ![k] = Nil]]
    /\ UNCHANGED <<pc, calls, keys, ch, list, closed, mutex, toVisit, toDelete>>

\* A Clean whose loop misses the first key.
CleanButFirst(p) ==
    /\ pc[p] = "send"
    /\ held(p) = {}
    /\ mutex = Nil
    /\ mutex' = p
    /\ toVisit' = {k \in Keys : list[k] # Nil /\ ~isFirst(k, Keys)}
    /\ goTo(p, "clean")
    /\ UNCHANGED <<calls, keys, chans, ch, list, token, closed, toDelete>>

\* Clean takes locks.lock,
Clean(p) ==
    /\ pc[p] = "send"
    /\ held(p) = {}
    /\ mutex = Nil
    /\ mutex' = p
    /\ toVisit' = {k \in Keys : list[k] # Nil}
    /\ goTo(p, "clean")
    /\ UNCHANGED <<calls, keys, chans, ch, list, token, closed, toDelete>>

\* A Clean that does not look whether the channel has its token.
drainAny(p) ==
    /\ pc[p] = "clean"
    /\ \E k \in toVisit :
          /\ token' = token \ {list[k]}
          /\ toVisit' = toVisit \ {k}
          /\ toDelete' = toDelete \cup {k}
    /\ goTo(p, "close")
    /\ UNCHANGED <<calls, keys, chans, ch, list, closed, mutex>>

\* looks at the listed channels in any order, and takes the token of one that
\* has it,
drain(p) ==
    /\ pc[p] = "clean"
    /\ \E k \in toVisit :
          /\ list[k] \in token
          /\ token' = token \ {list[k]}
          /\ toVisit' = toVisit \ {k}
          /\ toDelete' = toDelete \cup {k}
    /\ goTo(p, "close")
    /\ UNCHANGED <<calls, keys, chans, ch, list, closed, mutex>>

skip(p) ==
    /\ pc[p] = "clean"
    /\ \E k \in toVisit : list[k] \notin token /\ toVisit' = toVisit \ {k}
    /\ UNCHANGED <<pc, calls, keys, chans, ch, list, token, closed, mutex, toDelete>>

\* closes it,
closeDrained(p) ==
    /\ pc[p] = "close"
    /\ closed' = closed \cup {list[k] : k \in toDelete}
    /\ goTo(p, "clean")
    /\ UNCHANGED <<calls, keys, chans, ch, list, token, mutex, toVisit, toDelete>>

\* A Clean that unlists every channel it has seen.
unlistAll(p) ==
    /\ pc[p] = "clean"
    /\ toVisit = {}
    /\ list' = NoChans
    /\ toDelete' = {}
    /\ mutex' = Nil
    /\ keys' = [keys EXCEPT ![p] = {}]
    /\ goTo(p, "idle")
    /\ UNCHANGED <<calls, chans, ch, token, closed, toVisit>>

\* and unlists the channels it has closed.
unlist(p) ==
    /\ pc[p] = "clean"
    /\ toVisit = {}
    /\ list' = [k \in Keys |-> IF k \in toDelete THEN Nil ELSE list[k]]
    /\ toDelete' = {}
    /\ mutex' = Nil
    /\ keys' = [keys EXCEPT ![p] = {}]
    /\ goTo(p, "idle")
    /\ UNCHANGED <<calls, chans, ch, token, closed, toVisit>>

-----------------------------------------------------------------------------
Step(p) ==
    \/ Lock(p) \/ getChan(p) \/ receive(p) \/ receiveClosed(p)
    \/ Unlock(p) \/ send(p)
    \/ Clean(p) \/ drain(p) \/ skip(p) \/ closeDrained(p) \/ unlist(p)

Next == \E p \in Procs : Step(p)

Spec == Init /\ [][Next]_vars

\* A goroutine that can run, runs.  The bound on the calls makes the contention
\* for a key finite; nothing in the code orders those who wait across a Clean.
FairSpec == Spec /\ \A p \in Procs : WF_vars(Step(p))

-----------------------------------------------------------------------------
(* What the locks promise.                                                 *)

TypeOK ==
    /\ pc \in [Procs -> {"idle", "get", "receive", "locked", "send", "clean", "close"}]
    /\ calls \in [Procs -> 0..MaxCalls]
    /\ keys \in [Procs -> SUBSET Keys]
    /\ chans \in [Procs -> [Keys -> Chans \cup {Nil}]]
    /\ ch \in [Procs -> Chans \cup {Nil}]
    /\ list \in [Keys -> Chans \cup {Nil}]
    /\ token \subseteq Chans /\ closed \subseteq Chans
    /\ mutex \in Procs \cup {Nil}
    /\ toVisit \subseteq Keys /\ toDelete \subseteq Keys

\* No two goroutines hold one key, however their Locks, Unlocks and the Cleans
\* at the end of every Unlock interleave: a key's channel is never replaced
\* while somebody has its token.
MutualExclusion == \A p, q \in Procs : p # q => held(p) \cap held(q) = {}

\* The send of an Unlock never waits and never panics: the channel of a held key
\* is open and has no token, and it is the one that others are waiting on.
UnlockNeverBlocks ==
    \A p \in Procs : \A k \in held(p) :
        list[k] = chans[p][k] /\ chans[p][k] \notin token \cup closed

\* Clean leaves nothing behind: when no call is in progress no channel is listed,
\* so the global list does not grow with the keys ever used.
NothingListed == (\A p \in Procs : pc[p] = "idle") => list = NoChans

\* Every Lock returns, although the holders of some of its keys may wait for
\* others: the keys are acquired in sorted order, and a Clean that closes a
\* channel under a waiting Lock sends it back to a channel it can receive from.
LockReturns == \A p \in Procs : pc[p] = "get" ~> pc[p] = "locked"

\* The locks by key, which hold a key from the receive to the send.
Abstract == INSTANCE KeyLocks WITH
    wanted <- keys,
    has <- [p \in Procs |-> held(p)],
    releasing <- {p \in Procs : pc[p] \in {"send", "clean", "close"}}

\* The channels, their closing and their replacement implement plain locks.
ImplementsKeyLocks == Abstract!Spec
=============================================================================
