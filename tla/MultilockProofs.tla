-------------------------- MODULE MultilockProofs --------------------------
(***************************************************************************)
(* Mutual exclusion, the safety of Unlock and the refinement of KeyLocks,  *)
(* for any number of goroutines and keys.                                  *)
(***************************************************************************)
EXTENDS Multilock, TLAPS

-----------------------------------------------------------------------------
(* The inductive invariant.                                                *)

\* Who has locks.lock is in Clean, and only Clean has something to unlist.
MutexInv ==
    /\ \A p \in Procs : pc[p] \in {"clean", "close"} <=> mutex = p
    /\ mutex = Nil => toDelete = {}

\* The channel of a held key is the listed one, open and without its token; Clean
\* has not drained it.
HeldInv ==
    \A p \in Procs, k \in Keys : chans[p][k] # Nil =>
        list[k] = chans[p][k] /\ chans[p][k] \notin token \cup closed /\ k \notin toDelete

\* One holder per key.
OneHolder ==
    \A p, q \in Procs, k \in Keys : chans[p][k] # Nil /\ chans[q][k] # Nil => p = q

\* No channel is listed twice.
Injective == \A j, k \in Keys : list[j] # Nil /\ list[j] = list[k] => j = k

\* A listed channel is open unless this Clean has drained it; then it has no token.
OpenListed ==
    \A k \in Keys :
        /\ list[k] # Nil /\ k \notin toDelete => list[k] \notin closed
        /\ k \in toDelete => list[k] # Nil /\ list[k] \notin token

\* Between two channels Clean has closed those it drained.
DrainedClosed == \A p \in Procs : pc[p] = "clean" => \A k \in toDelete : list[k] \in closed

\* Who waits, waits for the listed channel of its next key, or for a closed one.
Waiting ==
    \A p \in Procs : pc[p] = "receive" =>
        /\ ch[p] \in Chans
        /\ \A k \in Keys : isFirst(k, missing(p)) => list[k] = ch[p] \/ ch[p] \in closed \ token

\* How far a goroutine is and which keys it holds.
Progress ==
    \A p \in Procs :
        /\ held(p) \subseteq keys[p]
        /\ pc[p] = "idle" => keys[p] = {}
        /\ pc[p] = "locked" => held(p) = keys[p] /\ keys[p] # {}
        /\ pc[p] \in {"clean", "close"} => held(p) = {}

IInv ==
    /\ TypeOK /\ MutexInv /\ HeldInv /\ OneHolder /\ Injective
    /\ OpenListed /\ DrainedClosed /\ Waiting /\ Progress

-----------------------------------------------------------------------------
(* Facts about keys and channels.                                          *)

\* The next key of a sorted list is unique.
LEMMA FirstUnique ==
    ASSUME NEW ks \in SUBSET Keys, NEW j \in Keys, NEW k \in Keys, isFirst(j, ks), isFirst(k, ks)
    PROVE  j = k
BY KeysAssumption DEF isFirst

\* make returns a channel that nobody refers to.
LEMMA MadeFresh ==
    ASSUME Chans \ inUse # {}
    PROVE  made \in Chans /\ made \notin inUse
BY DEF made

\* Init establishes the invariant: no channel is listed yet.
LEMMA InitInv == Init => IInv
<1> SUFFICES ASSUME Init PROVE IInv
  OBVIOUS
<1>1. TypeOK
  BY CallsAssumption DEF Init, TypeOK, NoChans
<1>2. \A p \in Procs : held(p) = {}
  BY DEF Init, held, NoChans
<1>3. \A p \in Procs : pc[p] = "idle" /\ p # Nil
  BY NilAssumption DEF Init
<1>4. MutexInv
  BY <1>3 DEF Init, MutexInv
<1>5. DrainedClosed
  BY <1>3 DEF DrainedClosed
<1>6. Waiting
  BY <1>3 DEF Waiting
<1>7. HeldInv /\ OneHolder /\ Injective /\ OpenListed
  BY DEF Init, HeldInv, OneHolder, Injective, OpenListed, NoChans
<1>8. Progress
  BY <1>2 DEF Init, Progress
<1> QED
  BY <1>1, <1>4, <1>5, <1>6, <1>7, <1>8 DEF IInv

-----------------------------------------------------------------------------
(* Lock.                                                                   *)

\* A new call of Lock touches no channel.
LEMMA LockKeeps ==
    ASSUME IInv, NEW p \in Procs, Lock(p)
    PROVE  IInv'
<1> USE DEF IInv
<1>1. TypeOK'
  <2>1. calls' \in [Procs -> 0..MaxCalls]
    BY CallsAssumption DEF TypeOK, Lock
  <2>2. keys' \in [Procs -> SUBSET Keys]
    BY DEF TypeOK, Lock
  <2> QED
    BY <2>1, <2>2 DEF TypeOK, Lock, goTo
<1>2. /\ \A q \in Procs : pc'[q] = IF q = p THEN "get" ELSE pc[q]
      /\ \A q \in Procs : q # p => keys'[q] = keys[q]
      /\ pc[p] = "idle" /\ keys[p] = {}
      /\ UNCHANGED <<chans, ch, list, token, closed, mutex, toVisit, toDelete>>
  BY DEF TypeOK, Lock, goTo, Progress
<1>3. /\ \A q \in Procs : held(q)' = held(q)
      /\ \A q \in Procs : q # p => missing(q)' = missing(q)
      /\ held(p) = {}
  BY <1>2 DEF held, missing, Progress
<1>4. MutexInv' /\ HeldInv' /\ OneHolder' /\ Injective' /\ OpenListed' /\ DrainedClosed'
  BY <1>2 DEF MutexInv, HeldInv, OneHolder, Injective, OpenListed, DrainedClosed
<1>5. Waiting'
  BY <1>2, <1>3 DEF Waiting, isFirst
<1>6. Progress'
  BY <1>2, <1>3 DEF Progress
<1> QED
  BY <1>1, <1>4, <1>5, <1>6

\* getChan of a listed channel: what the goroutine waits for is listed.
LEMMA GetListedKeeps ==
    ASSUME IInv, NEW p \in Procs, NEW k \in Keys, pc[p] = "get",
           isFirst(k, missing(p)), getListed(p, k), goTo(p, "receive"),
           UNCHANGED <<calls, keys, chans, mutex, toVisit, toDelete>>
    PROVE  IInv'
<1> USE DEF IInv
<1>1. TypeOK'
  BY DEF TypeOK, getListed, goTo
<1>2. /\ \A q \in Procs : pc'[q] = IF q = p THEN "receive" ELSE pc[q]
      /\ \A q \in Procs : ch'[q] = IF q = p THEN list[k] ELSE ch[q]
      /\ list[k] \in Chans
      /\ UNCHANGED <<keys, chans, list, token, closed, mutex, toVisit, toDelete>>
  BY DEF TypeOK, getListed, goTo
<1>3. \A q \in Procs : held(q)' = held(q) /\ missing(q)' = missing(q)
  BY <1>2 DEF held, missing
<1>4. MutexInv' /\ HeldInv' /\ OneHolder' /\ Injective' /\ OpenListed' /\ DrainedClosed'
  BY <1>2 DEF MutexInv, HeldInv, OneHolder, Injective, OpenListed, DrainedClosed
<1>5. \A j \in Keys : isFirst(j, missing(p)) => j = k
  <2>1. missing(p) \in SUBSET Keys
    BY DEF TypeOK, missing
  <2> QED
    BY <2>1, FirstUnique
<1>6. Waiting'
  BY <1>2, <1>3, <1>5 DEF Waiting, isFirst
<1>7. Progress'
  BY <1>2, <1>3 DEF Progress
<1> QED
  BY <1>1, <1>4, <1>6, <1>7

\* getChan of a key without a channel: the new channel is nobody's.
LEMMA GetNewKeeps ==
    ASSUME IInv, NEW p \in Procs, NEW k \in Keys, pc[p] = "get", mutex = Nil,
           isFirst(k, missing(p)), getNew(p, k), goTo(p, "receive"),
           UNCHANGED <<calls, keys, chans, mutex, toVisit, toDelete>>
    PROVE  IInv'
<1> USE DEF IInv
<1> DEFINE m == made
<1>1. m \in Chans /\ m \notin inUse /\ m # Nil
  BY MadeFresh, NilAssumption DEF getNew
<1>2. /\ \A q \in Procs : pc'[q] = IF q = p THEN "receive" ELSE pc[q]
      /\ \A q \in Procs : ch'[q] = IF q = p THEN m ELSE ch[q]
      /\ \A j \in Keys : list'[j] = IF j = k THEN m ELSE list[j]
      /\ token' = token \cup {m} /\ closed' = closed \ {m}
      /\ list[k] = Nil
      /\ UNCHANGED <<keys, chans, mutex, toVisit, toDelete>>
  BY DEF TypeOK, getNew, goTo
<1>3. /\ \A j \in Keys : list[j] # m
      /\ \A q \in Procs : ch[q] # m
      /\ \A q \in Procs, j \in Keys : chans[q][j] # m
  BY <1>1 DEF inUse
<1>4. TypeOK'
  BY <1>1 DEF TypeOK, getNew, goTo
<1> HIDE DEF m
<1>5. \A q \in Procs : held(q)' = held(q) /\ missing(q)' = missing(q)
  BY <1>2 DEF held, missing
<1>6. toDelete = {}
  BY DEF MutexInv
<1>7. MutexInv' /\ OneHolder' /\ DrainedClosed'
  BY <1>2, <1>6 DEF MutexInv, OneHolder, DrainedClosed
<1>8. HeldInv'
  BY <1>2, <1>3 DEF HeldInv
<1>9. Injective' /\ OpenListed'
  BY <1>1, <1>2, <1>3, <1>6 DEF Injective, OpenListed
<1>10. \A j \in Keys : isFirst(j, missing(p)) => j = k
  <2>1. missing(p) \in SUBSET Keys
    BY DEF TypeOK, missing
  <2> QED
    BY <2>1, FirstUnique
<1>11. Waiting'
  <2> SUFFICES ASSUME NEW q \in Procs, pc'[q] = "receive"
               PROVE  /\ ch'[q] \in Chans
                      /\ \A j \in Keys : isFirst(j, missing(q)) =>
                            list'[j] = ch'[q] \/ ch'[q] \in closed' \ token'
    BY <1>5 DEF Waiting, isFirst
  <2>1. CASE q = p
    BY <2>1, <1>1, <1>2, <1>10
  <2>2. CASE q # p
    <3>1. /\ ch[q] \in Chans /\ ch'[q] = ch[q] /\ ch[q] # m /\ ch[q] # Nil
          /\ \A j \in Keys : isFirst(j, missing(q)) => list[j] = ch[q] \/ ch[q] \in closed \ token
      BY <2>2, <1>2, <1>3, NilAssumption DEF Waiting
    <3> QED
      BY <3>1, <1>2
  <2> QED
    BY <2>1, <2>2
<1>12. Progress'
  BY <1>2, <1>5 DEF Progress
<1> QED
  BY <1>4, <1>7, <1>8, <1>9, <1>11, <1>12

\* Receiving the token of a channel: it is the listed channel of the next key, and
\* nobody else has the token.
LEMMA ReceiveKeeps ==
    ASSUME IInv, NEW p \in Procs, receive(p)
    PROVE  IInv'
<1> USE DEF IInv
<1>1. PICK k \in Keys :
        /\ isFirst(k, missing(p))
        /\ chans' = [chans EXCEPT ![p] = [chans[p] EXCEPT ![k] = ch[p]]]
        /\ goTo(p, IF missing(p) = {k} THEN "locked" ELSE "get")
  BY DEF receive
<1> DEFINE c == ch[p]
<1>2. /\ pc[p] = "receive" /\ c \in token /\ c \in Chans /\ c # Nil
      /\ token' = token \ {c}
      /\ \A q \in Procs : pc'[q] = IF q = p THEN (IF missing(p) = {k} THEN "locked" ELSE "get") ELSE pc[q]
      /\ \A q \in Procs : ch'[q] = IF q = p THEN Nil ELSE ch[q]
      /\ \A q \in Procs, j \in Keys : chans'[q][j] = IF q = p /\ j = k THEN c ELSE chans[q][j]
      /\ UNCHANGED <<keys, list, closed, mutex, toVisit, toDelete>>
  BY <1>1, NilAssumption DEF TypeOK, receive, goTo
<1>3. TypeOK'
  BY <1>1, <1>2 DEF TypeOK, receive, goTo
<1>4. list[k] = c /\ k \notin toDelete /\ c \notin closed
  <2>1. \A j \in Keys : isFirst(j, missing(p)) => list[j] = ch[p] \/ ch[p] \in closed \ token
    BY <1>2 DEF Waiting
  <2>2. list[k] = c
    BY <1>1, <1>2, <2>1
  <2> QED
    BY <2>2, <1>2 DEF OpenListed
<1> HIDE DEF c
<1>5. \A q \in Procs : chans[q][k] = Nil
  BY <1>2, <1>4 DEF HeldInv
<1>6. /\ \A q \in Procs : q # p => held(q)' = held(q) /\ missing(q)' = missing(q)
      /\ held(p)' = held(p) \cup {k} /\ missing(p)' = missing(p) \ {k}
      /\ k \in keys[p]
  BY <1>1, <1>2 DEF held, missing, isFirst
<1>7. MutexInv' /\ DrainedClosed' /\ Injective' /\ OpenListed'
  BY <1>2 DEF MutexInv, DrainedClosed, Injective, OpenListed
<1>8. HeldInv'
  BY <1>2, <1>4 DEF HeldInv
<1>9. OneHolder'
  BY <1>2, <1>5 DEF OneHolder
<1>10. Waiting'
  BY <1>2, <1>6 DEF Waiting, isFirst
<1>11. Progress'
  <2>1. missing(p) = {k} => held(p)' = keys'[p] /\ keys'[p] # {}
    BY <1>2, <1>6 DEF Progress, missing
  <2> SUFFICES ASSUME NEW q \in Procs
               PROVE  /\ held(q)' \subseteq keys'[q]
                      /\ pc'[q] = "idle" => keys'[q] = {}
                      /\ pc'[q] = "locked" => held(q)' = keys'[q] /\ keys'[q] # {}
                      /\ pc'[q] \in {"clean", "close"} => held(q)' = {}
    BY DEF Progress
  <2>2. CASE q # p
    BY <2>2, <1>2, <1>6 DEF Progress
  <2>3. CASE q = p
    <3>1. held(q)' \subseteq keys'[q]
      BY <2>3, <1>2, <1>6 DEF Progress
    <3>2. pc'[q] = IF missing(p) = {k} THEN "locked" ELSE "get"
      BY <2>3, <1>2
    <3> QED
      BY <2>1, <2>3, <3>1, <3>2
  <2> QED
    BY <2>2, <2>3
<1> QED
  BY <1>3, <1>7, <1>8, <1>9, <1>10, <1>11

\* A closed channel sends the goroutine back for the key's channel.
LEMMA ReceiveClosedKeeps ==
    ASSUME IInv, NEW p \in Procs, receiveClosed(p)
    PROVE  IInv'
<1> USE DEF IInv
<1>1. TypeOK'
  BY DEF TypeOK, receiveClosed, goTo
<1>2. /\ pc[p] = "receive"
      /\ \A q \in Procs : pc'[q] = IF q = p THEN "get" ELSE pc[q]
      /\ \A q \in Procs : q # p => ch'[q] = ch[q]
      /\ UNCHANGED <<keys, chans, list, token, closed, mutex, toVisit, toDelete>>
  BY DEF TypeOK, receiveClosed, goTo
<1>3. \A q \in Procs : held(q)' = held(q) /\ missing(q)' = missing(q)
  BY <1>2 DEF held, missing
<1>4. MutexInv' /\ HeldInv' /\ OneHolder' /\ Injective' /\ OpenListed' /\ DrainedClosed'
  BY <1>2 DEF MutexInv, HeldInv, OneHolder, Injective, OpenListed, DrainedClosed
<1>5. Waiting'
  BY <1>2, <1>3 DEF Waiting, isFirst
<1>6. Progress'
  BY <1>2, <1>3 DEF Progress
<1> QED
  BY <1>1, <1>4, <1>5, <1>6

-----------------------------------------------------------------------------
(* Unlock.                                                                 *)

\* The start of Unlock touches no channel.
LEMMA UnlockKeeps ==
    ASSUME IInv, NEW p \in Procs, Unlock(p)
    PROVE  IInv'
<1> USE DEF IInv
<1>1. TypeOK'
  BY DEF TypeOK, Unlock, goTo
<1>2. /\ pc[p] = "locked"
      /\ \A q \in Procs : pc'[q] = IF q = p THEN "send" ELSE pc[q]
      /\ UNCHANGED <<keys, chans, ch, list, token, closed, mutex, toVisit, toDelete>>
  BY DEF TypeOK, Unlock, goTo
<1>3. \A q \in Procs : held(q)' = held(q) /\ missing(q)' = missing(q)
  BY <1>2 DEF held, missing
<1>4. MutexInv' /\ HeldInv' /\ OneHolder' /\ Injective' /\ OpenListed' /\ DrainedClosed'
  BY <1>2 DEF MutexInv, HeldInv, OneHolder, Injective, OpenListed, DrainedClosed
<1>5. Waiting'
  BY <1>2, <1>3 DEF Waiting, isFirst
<1>6. Progress'
  BY <1>2, <1>3 DEF Progress
<1> QED
  BY <1>1, <1>4, <1>5, <1>6

\* The token goes back to the channel it was taken from, which nobody else holds and
\* Clean has not drained.
LEMMA SendKeeps ==
    ASSUME IInv, NEW p \in Procs, send(p)
    PROVE  IInv'
<1> USE DEF IInv
<1>1. PICK k \in Keys :
        /\ isFirst(k, held(p))
        /\ token' = token \cup {chans[p][k]}
        /\ chans' = [chans EXCEPT ![p] = [chans[p] EXCEPT ![k] = Nil]]
  BY DEF send
<1> DEFINE c == chans[p][k]
<1>2. c # Nil /\ c \in Chans /\ list[k] = c /\ c \notin closed /\ k \notin toDelete
  BY <1>1 DEF isFirst, held, TypeOK, HeldInv
<1>3. /\ pc[p] = "send" /\ token' = token \cup {c}
      /\ \A q \in Procs, j \in Keys : chans'[q][j] = IF q = p /\ j = k THEN Nil ELSE chans[q][j]
      /\ UNCHANGED <<pc, calls, keys, ch, list, closed, mutex, toVisit, toDelete>>
  BY <1>1 DEF TypeOK, send
<1>4. TypeOK'
  BY <1>1, <1>2, <1>3 DEF TypeOK
<1>5. \A q \in Procs : chans[q][k] # Nil => q = p
  BY <1>2 DEF OneHolder, c
<1> HIDE DEF c
<1>6. /\ \A q \in Procs : q # p => held(q)' = held(q) /\ missing(q)' = missing(q)
      /\ held(p)' \subseteq held(p)
  BY <1>3 DEF held, missing
<1>7. MutexInv' /\ DrainedClosed' /\ Injective' /\ OneHolder'
  BY <1>3 DEF MutexInv, DrainedClosed, Injective, OneHolder
<1>8. HeldInv'
  <2> SUFFICES ASSUME NEW q \in Procs, NEW j \in Keys, chans'[q][j] # Nil
               PROVE  list'[j] = chans'[q][j] /\ chans'[q][j] \notin token' \cup closed' /\ j \notin toDelete'
    BY DEF HeldInv
  <2>1. /\ chans'[q][j] = chans[q][j] /\ ~(q = p /\ j = k)
        /\ list[j] = chans[q][j] /\ chans[q][j] \notin token \cup closed /\ j \notin toDelete
    BY <1>3 DEF HeldInv
  <2>2. chans[q][j] # c
    BY <2>1, <1>2, <1>3, <1>5 DEF Injective
  <2> QED
    BY <2>1, <2>2, <1>3
<1>9. OpenListed'
  BY <1>2, <1>3 DEF OpenListed, Injective
<1>10. Waiting'
  BY <1>2, <1>3, <1>6 DEF Waiting, isFirst
<1>11. Progress'
  BY <1>3, <1>6 DEF Progress
<1> QED
  BY <1>4, <1>7, <1>8, <1>9, <1>10, <1>11

\* Clean takes locks.lock when its goroutine holds no key any more.
LEMMA CleanKeeps ==
    ASSUME IInv, NEW p \in Procs, Clean(p)
    PROVE  IInv'
<1> USE DEF IInv
<1>1. TypeOK'
  BY DEF TypeOK, Clean, goTo
<1>2. /\ pc[p] = "send" /\ held(p) = {} /\ mutex = Nil /\ mutex' = p
      /\ \A q \in Procs : pc'[q] = IF q = p THEN "clean" ELSE pc[q]
      /\ UNCHANGED <<keys, chans, ch, list, token, closed, toDelete>>
  BY DEF TypeOK, Clean, goTo
<1>3. /\ \A q \in Procs : held(q)' = held(q) /\ missing(q)' = missing(q)
      /\ toDelete = {} /\ p # Nil /\ \A q \in Procs : q # Nil
  BY <1>2, NilAssumption DEF held, missing, MutexInv
<1>4. MutexInv'
  BY <1>2, <1>3 DEF MutexInv
<1>5. HeldInv' /\ OneHolder' /\ Injective' /\ OpenListed' /\ DrainedClosed'
  BY <1>2, <1>3 DEF HeldInv, OneHolder, Injective, OpenListed, DrainedClosed
<1>6. Waiting'
  BY <1>2, <1>3 DEF Waiting, isFirst
<1>7. Progress'
  BY <1>2, <1>3 DEF Progress
<1> QED
  BY <1>1, <1>4, <1>5, <1>6, <1>7

\* Clean takes the token of a channel: nobody holds its key, since the token of a
\* held key is with its holder.
LEMMA DrainKeeps ==
    ASSUME IInv, NEW p \in Procs, drain(p)
    PROVE  IInv'
<1> USE DEF IInv
<1>1. PICK k \in toVisit :
        /\ list[k] \in token
        /\ token' = token \ {list[k]}
        /\ toVisit' = toVisit \ {k}
        /\ toDelete' = toDelete \cup {k}
  BY DEF drain
<1> DEFINE c == list[k]
<1>2. /\ k \in Keys /\ c \in Chans /\ c # Nil /\ c \in token
      /\ pc[p] = "clean" /\ token' = token \ {c} /\ toDelete' = toDelete \cup {k}
      /\ \A q \in Procs : pc'[q] = IF q = p THEN "close" ELSE pc[q]
      /\ UNCHANGED <<keys, chans, ch, list, closed, mutex>>
  BY <1>1, NilAssumption DEF TypeOK, drain, goTo
<1>3. TypeOK'
  BY <1>1, <1>2 DEF TypeOK, drain, goTo
<1>4. list[k] = c
  OBVIOUS
<1> HIDE DEF c
<1>5. \A q \in Procs : held(q)' = held(q) /\ missing(q)' = missing(q)
  BY <1>2 DEF held, missing
<1>6. mutex = p /\ p # Nil /\ \A q \in Procs : pc[q] \in {"clean", "close"} => q = p
  BY <1>2, NilAssumption DEF MutexInv
<1>7. MutexInv'
  BY <1>2, <1>6 DEF MutexInv
<1>8. OneHolder' /\ Injective' /\ DrainedClosed'
  BY <1>2, <1>6 DEF OneHolder, Injective, DrainedClosed
<1>9. HeldInv'
  BY <1>2, <1>4 DEF HeldInv
<1>10. OpenListed'
  BY <1>2, <1>4 DEF OpenListed
<1>11. Waiting'
  BY <1>2, <1>5 DEF Waiting, isFirst
<1>12. Progress'
  BY <1>2, <1>5 DEF Progress
<1> QED
  BY <1>3, <1>7, <1>8, <1>9, <1>10, <1>11, <1>12

\* A channel without its token is left alone.
LEMMA SkipKeeps ==
    ASSUME IInv, NEW p \in Procs, skip(p)
    PROVE  IInv'
<1> USE DEF IInv
<1>1. UNCHANGED <<pc, calls, keys, chans, ch, list, token, closed, mutex, toDelete>>
  BY DEF skip
<1>2. TypeOK'
  BY <1>1 DEF TypeOK, skip
<1>3. \A q \in Procs : held(q)' = held(q) /\ missing(q)' = missing(q)
  BY <1>1 DEF held, missing
<1>4. MutexInv' /\ HeldInv' /\ OneHolder' /\ Injective' /\ OpenListed' /\ DrainedClosed'
  BY <1>1 DEF MutexInv, HeldInv, OneHolder, Injective, OpenListed, DrainedClosed
<1>5. Waiting'
  BY <1>1, <1>3 DEF Waiting, isFirst
<1>6. Progress'
  BY <1>1, <1>3 DEF Progress
<1> QED
  BY <1>2, <1>4, <1>5, <1>6

\* Clean closes what it has drained: no channel that is held or has its token.
LEMMA CloseKeeps ==
    ASSUME IInv, NEW p \in Procs, closeDrained(p)
    PROVE  IInv'
<1> USE DEF IInv
<1> DEFINE D == {list[k] : k \in toDelete}
<1>1. /\ pc[p] = "close" /\ closed' = closed \cup D
      /\ \A q \in Procs : pc'[q] = IF q = p THEN "clean" ELSE pc[q]
      /\ UNCHANGED <<keys, chans, ch, list, token, mutex, toVisit, toDelete>>
  BY DEF TypeOK, closeDrained, goTo
<1>2. /\ \A k \in toDelete : k \in Keys /\ list[k] # Nil /\ list[k] \in D
      /\ \A c \in D : c \in Chans /\ c \notin token /\ \E k \in toDelete : list[k] = c
  BY DEF TypeOK, OpenListed
<1> HIDE DEF D
<1>3. TypeOK'
  <2>1. closed' \subseteq Chans
    BY <1>1, <1>2 DEF TypeOK
  <2> QED
    BY <2>1 DEF TypeOK, closeDrained, goTo
<1>4. \A q \in Procs : held(q)' = held(q) /\ missing(q)' = missing(q)
  BY <1>1 DEF held, missing
<1>5. \A j \in Keys : list[j] # Nil /\ j \notin toDelete => list[j] \notin D
  BY <1>2 DEF Injective
<1>6. MutexInv' /\ OneHolder' /\ Injective'
  BY <1>1 DEF MutexInv, OneHolder, Injective
<1>7. OpenListed' /\ DrainedClosed'
  BY <1>1, <1>2, <1>5 DEF OpenListed, DrainedClosed, MutexInv
<1>8. HeldInv'
  BY <1>1, <1>5 DEF HeldInv
<1>9. Waiting'
  BY <1>1, <1>4 DEF Waiting, isFirst
<1>10. Progress'
  BY <1>1, <1>4 DEF Progress
<1> QED
  BY <1>3, <1>6, <1>7, <1>8, <1>9, <1>10

\* Clean unlists what it has closed: who waited for such a channel now waits for a
\* closed one.
LEMMA UnlistKeeps ==
    ASSUME IInv, NEW p \in Procs, unlist(p)
    PROVE  IInv'
<1> USE DEF IInv
<1>1. /\ pc[p] = "clean" /\ mutex' = Nil /\ toDelete' = {}
      /\ \A q \in Procs : pc'[q] = IF q = p THEN "idle" ELSE pc[q]
      /\ \A q \in Procs : keys'[q] = IF q = p THEN {} ELSE keys[q]
      /\ \A k \in Keys : list'[k] = IF k \in toDelete THEN Nil ELSE list[k]
      /\ UNCHANGED <<chans, ch, token, closed>>
  BY DEF TypeOK, unlist, goTo
<1>2. TypeOK'
  BY DEF TypeOK, unlist, goTo
<1>3. /\ \A q \in Procs : held(q)' = held(q)
      /\ \A q \in Procs : q # p => missing(q)' = missing(q)
      /\ held(p) = {}
  BY <1>1 DEF held, missing, Progress
<1>4. mutex = p /\ p # Nil /\ \A q \in Procs : pc[q] \in {"clean", "close"} => q = p
  BY <1>1, NilAssumption DEF MutexInv
<1>5. MutexInv'
  <2>1. \A q \in Procs : pc'[q] \notin {"clean", "close"} /\ mutex' # q
    BY <1>1, <1>4, NilAssumption
  <2> QED
    BY <2>1, <1>1 DEF MutexInv
<1>6. OneHolder' /\ Injective' /\ OpenListed' /\ DrainedClosed'
  BY <1>1 DEF OneHolder, Injective, OpenListed, DrainedClosed
<1>7. HeldInv'
  BY <1>1 DEF HeldInv
<1>8. \A k \in toDelete : k \in Keys /\ list[k] \in closed \ token
  BY <1>1 DEF TypeOK, OpenListed, DrainedClosed
<1>9. Waiting'
  BY <1>1, <1>3, <1>8 DEF Waiting, isFirst
<1>10. Progress'
  BY <1>1, <1>3 DEF Progress
<1> QED
  BY <1>2, <1>5, <1>6, <1>7, <1>9, <1>10

-----------------------------------------------------------------------------
(* The theorems.                                                           *)

\* Every step of a goroutine preserves the invariant.
LEMMA StepKeeps ==
    ASSUME IInv, NEW p \in Procs, Step(p)
    PROVE  IInv'
<1>1. CASE getChan(p)
  <2>1. PICK k \in Keys : isFirst(k, missing(p)) /\ (getListed(p, k) \/ getNew(p, k))
    BY <1>1 DEF getChan
  <2>2. /\ pc[p] = "get" /\ mutex = Nil /\ goTo(p, "receive")
        /\ UNCHANGED <<calls, keys, chans, mutex, toVisit, toDelete>>
    BY <1>1 DEF getChan
  <2> QED
    BY <2>1, <2>2, GetListedKeeps, GetNewKeeps
<1> QED
  BY <1>1, LockKeeps, ReceiveKeeps, ReceiveClosedKeeps, UnlockKeeps, SendKeeps,
     CleanKeeps, DrainKeeps, SkipKeeps, CloseKeeps, UnlistKeeps DEF Step

\* The invariant holds in every state of every execution.
LEMMA AlwaysInv == Spec => []IInv
<1>1. IInv /\ UNCHANGED vars => IInv'
  BY DEF IInv, TypeOK, MutexInv, HeldInv, OneHolder, Injective, OpenListed, DrainedClosed,
         Waiting, Progress, held, missing, isFirst, vars
<1>2. IInv /\ [Next]_vars => IInv'
  BY <1>1, StepKeeps DEF Next
<1> QED
  BY <1>2, InitInv, PTL DEF Spec

\* Lock excludes: no two goroutines ever hold one key, for any number of goroutines,
\* keys and channels.
THEOREM MutualExclusionAlways == Spec => []MutualExclusion
<1>1. IInv => MutualExclusion
  BY DEF IInv, OneHolder, MutualExclusion, held
<1> QED
  BY <1>1, AlwaysInv, PTL

\* The send in Unlock finds its channel open, listed and without a token.
THEOREM UnlockNeverBlocksAlways == Spec => []UnlockNeverBlocks
<1>1. IInv => UnlockNeverBlocks
  BY DEF IInv, HeldInv, UnlockNeverBlocks, held
<1> QED
  BY <1>1, AlwaysInv, PTL

-----------------------------------------------------------------------------
(* The refinement: a goroutine asks with Lock, takes a key with the receive, *)
(* gives it back with the send and finishes when its Clean ends.           *)

gone == {p \in Procs : pc[p] \in {"send", "clean", "close"}}
has == [p \in Procs |-> held(p)]

\* The steps that change neither the keys asked for nor those held are stutters.
LEMMA Stutters ==
    ASSUME IInv, NEW p \in Procs,
           getChan(p) \/ receiveClosed(p) \/ Clean(p) \/ drain(p) \/ skip(p) \/ closeDrained(p)
    PROVE  keys' = keys /\ has' = has /\ gone' = gone
<1>1. keys' = keys /\ chans' = chans
  BY DEF getChan, receiveClosed, Clean, drain, skip, closeDrained
<1>2. has' = has
  BY <1>1 DEF has, held
<1>3. /\ pc[p] \in {"send", "clean", "close"} <=> pc'[p] \in {"send", "clean", "close"}
      /\ \A q \in Procs : q # p => pc'[q] = pc[q]
  BY DEF IInv, TypeOK, getChan, receiveClosed, Clean, drain, skip, closeDrained, goTo
<1>4. gone' = gone
  BY <1>3 DEF gone
<1> QED
  BY <1>1, <1>2, <1>4

\* Lock asks for its keys.
LEMMA LockAsks ==
    ASSUME IInv, NEW p \in Procs, Lock(p)
    PROVE  Abstract!Ask(p)
<1>1. keys[p] = {} /\ \E ks \in (SUBSET Keys) \ {{}} : keys' = [keys EXCEPT ![p] = ks]
  BY DEF IInv, Progress, Lock
<1>2. has' = has
  BY DEF Lock, has, held
<1>3. gone' = gone
  BY DEF Lock, goTo, gone, IInv, TypeOK
<1> QED
  BY <1>1, <1>2, <1>3 DEF Abstract!Ask, has, gone

\* The receive takes the next key, which nobody has.
LEMMA ReceiveTakes ==
    ASSUME IInv, NEW p \in Procs, receive(p)
    PROVE  \E k \in Keys : Abstract!Take(p, k)
<1> USE DEF IInv
<1>1. PICK k \in Keys :
        /\ isFirst(k, missing(p))
        /\ chans' = [chans EXCEPT ![p] = [chans[p] EXCEPT ![k] = ch[p]]]
        /\ goTo(p, IF missing(p) = {k} THEN "locked" ELSE "get")
  BY DEF receive
<1>2. /\ pc[p] = "receive" /\ ch[p] \in token /\ ch[p] \in Chans /\ ch[p] # Nil
      /\ \A q \in Procs : q # p => pc'[q] = pc[q]
      /\ pc'[p] \in {"locked", "get"}
      /\ \A q \in Procs, j \in Keys : chans'[q][j] = IF q = p /\ j = k THEN ch[p] ELSE chans[q][j]
      /\ keys' = keys
  BY <1>1, NilAssumption DEF TypeOK, receive, goTo
<1>3. list[k] = ch[p]
  BY <1>1, <1>2 DEF Waiting
<1>4. \A q \in Procs : k \notin held(q)
  BY <1>2, <1>3 DEF HeldInv, held
<1>5. /\ \A q \in Procs : q # p => held(q)' = held(q)
      /\ held(p)' = held(p) \cup {k}
  BY <1>2 DEF held
<1>6. has' = [has EXCEPT ![p] = has[p] \cup {k}]
  BY <1>5 DEF has
<1>7. gone' = gone /\ p \notin gone
  BY <1>2 DEF gone
<1>8. k \in keys[p] \ has[p] /\ \A j \in keys[p] \ has[p] : k <= j
  BY <1>1 DEF isFirst, missing, has
<1>9. \A q \in Procs : k \notin has[q]
  BY <1>4 DEF has
<1>10. Abstract!Take(p, k)
  BY <1>2, <1>6, <1>7, <1>8, <1>9 DEF Abstract!Take, has, gone
<1> QED
  BY <1>10

\* Unlock starts to release when every key is held.
LEMMA UnlockReleases ==
    ASSUME IInv, NEW p \in Procs, Unlock(p)
    PROVE  Abstract!Release(p)
<1>1. keys[p] # {} /\ has[p] = keys[p]
  BY DEF IInv, Progress, Unlock, has
<1>2. keys' = keys /\ has' = has
  BY DEF Unlock, has, held
<1>3. gone' = gone \cup {p}
  BY DEF Unlock, goTo, gone, IInv, TypeOK
<1> QED
  BY <1>1, <1>2, <1>3 DEF Abstract!Release, has, gone

\* The send gives a key back.
LEMMA SendGives ==
    ASSUME IInv, NEW p \in Procs, send(p)
    PROVE  \E k \in Keys : Abstract!Give(p, k)
<1> USE DEF IInv
<1>1. PICK k \in Keys :
        /\ isFirst(k, held(p))
        /\ chans' = [chans EXCEPT ![p] = [chans[p] EXCEPT ![k] = Nil]]
  BY DEF send
<1>2. /\ pc[p] = "send" /\ UNCHANGED <<pc, keys>>
      /\ \A q \in Procs, j \in Keys : chans'[q][j] = IF q = p /\ j = k THEN Nil ELSE chans[q][j]
  BY <1>1 DEF TypeOK, send
<1>3. /\ \A q \in Procs : q # p => held(q)' = held(q)
      /\ held(p)' = held(p) \ {k}
  BY <1>2 DEF held
<1>4. has' = [has EXCEPT ![p] = has[p] \ {k}]
  BY <1>3 DEF has
<1>5. gone' = gone /\ p \in gone /\ k \in has[p]
  BY <1>1, <1>2 DEF gone, has, isFirst
<1>6. Abstract!Give(p, k)
  BY <1>2, <1>4, <1>5 DEF Abstract!Give, has, gone
<1> QED
  BY <1>6

\* The end of Clean is the end of the Unlock.
LEMMA UnlistFinishes ==
    ASSUME IInv, NEW p \in Procs, unlist(p)
    PROVE  Abstract!Finish(p)
<1>1. p \in gone /\ has[p] = {} /\ keys' = [keys EXCEPT ![p] = {}]
  BY DEF IInv, Progress, unlist, has, gone
<1>2. has' = has
  BY DEF unlist, has, held
<1>3. gone' = gone \ {p}
  BY DEF unlist, goTo, gone, IInv, TypeOK
<1> QED
  BY <1>1, <1>2, <1>3 DEF Abstract!Finish, has, gone

\* The channels, their closing and their replacement under waiting goroutines
\* implement plain locks by key.
THEOREM Implements == Spec => ImplementsKeyLocks
<1>1. Init => Abstract!Init
  BY DEF Init, Abstract!Init, held, NoChans
<1>2. IInv /\ [Next]_vars => [Abstract!Next]_(Abstract!kvars)
  <2>1. ASSUME IInv, NEW p \in Procs, Step(p)
        PROVE  Abstract!Next \/ UNCHANGED Abstract!kvars
    <3>1. CASE getChan(p) \/ receiveClosed(p) \/ Clean(p) \/ drain(p) \/ skip(p) \/ closeDrained(p)
      BY <2>1, <3>1, Stutters DEF Abstract!kvars, has, gone
    <3>2. CASE Lock(p) \/ receive(p) \/ Unlock(p) \/ send(p) \/ unlist(p)
      BY <2>1, <3>2, LockAsks, ReceiveTakes, UnlockReleases, SendGives, UnlistFinishes
         DEF Abstract!Next
    <3> QED
      BY <2>1, <3>1, <3>2 DEF Step
  <2>2. UNCHANGED vars => UNCHANGED Abstract!kvars
    BY DEF vars, Abstract!kvars, held
  <2> QED
    BY <2>1, <2>2 DEF Next
<1> QED
  BY <1>1, <1>2, AlwaysInv, PTL DEF Spec, ImplementsKeyLocks, Abstract!Spec

-----------------------------------------------------------------------------
(* Nothing stays listed.                                                   *)

\* The token of a listed channel is in the channel, with a holder of the key, or
\* with the Clean that deletes it.
TokenSomewhere ==
    \A k \in Keys : list[k] # Nil /\ k \notin toDelete =>
        list[k] \in token \/ \E q \in Procs : chans[q][k] # Nil

\* For every listed channel a Clean is to come: the present one has yet to visit it,
\* or somebody is in a call that ends with one.
CleanToCome ==
    \A k \in Keys : list[k] # Nil /\ k \notin toDelete \cup toVisit =>
        \E q \in Procs : pc[q] \in {"get", "receive", "locked", "send"}

ListInv == TokenSomewhere /\ CleanToCome /\ (mutex = Nil => toVisit = {})

\* A held key's goroutine still has its Clean ahead.
LEMMA HolderActive ==
    ASSUME IInv, NEW q \in Procs, NEW k \in Keys, chans[q][k] # Nil
    PROVE  pc[q] \in {"get", "receive", "locked", "send"}
<1>1. k \in held(q) /\ k \in keys[q]
  BY DEF held, IInv, Progress
<1> QED
  BY <1>1 DEF IInv, Progress, TypeOK

\* The calls of Lock and Unlock up to the Clean keep both.
LEMMA CallsKeepListed ==
    ASSUME IInv, ListInv, NEW p \in Procs,
           Lock(p) \/ getChan(p) \/ receive(p) \/ receiveClosed(p) \/ Unlock(p) \/ send(p)
    PROVE  ListInv'
<1> USE DEF ListInv
<1>1. pc'[p] \in {"get", "receive", "locked", "send"} /\ UNCHANGED <<toVisit, toDelete>>
  BY DEF Lock, getChan, receive, receiveClosed, Unlock, send, goTo, IInv, TypeOK
<1>2. CleanToCome'
  BY <1>1 DEF CleanToCome
<1>3. TokenSomewhere'
  <2>1. CASE Lock(p) \/ receiveClosed(p) \/ Unlock(p)
    BY <2>1 DEF Lock, receiveClosed, Unlock, TokenSomewhere
  <2>2. CASE getChan(p)
    <3>1. PICK k \in Keys : getListed(p, k) \/ getNew(p, k)
      BY <2>2 DEF getChan
    <3>2. chans' = chans
      BY <2>2 DEF getChan
    <3>3. CASE getListed(p, k)
      BY <1>1, <3>2, <3>3 DEF getListed, TokenSomewhere
    <3>4. CASE getNew(p, k)
      <4>1. /\ \A j \in Keys : list'[j] = IF j = k THEN made ELSE list[j]
            /\ token' = token \cup {made}
        BY <3>4 DEF getNew, IInv, TypeOK
      <4> QED
        BY <1>1, <3>2, <4>1 DEF TokenSomewhere
    <3> QED
      BY <3>1, <3>3, <3>4
  <2>3. CASE receive(p)
    <3>1. PICK k \in Keys :
            /\ isFirst(k, missing(p))
            /\ chans' = [chans EXCEPT ![p] = [chans[p] EXCEPT ![k] = ch[p]]]
      BY <2>3 DEF receive
    <3>2. /\ ch[p] # Nil /\ token' = token \ {ch[p]} /\ list' = list
          /\ pc[p] = "receive" /\ ch[p] \in token
          /\ \A q \in Procs, j \in Keys :
                chans'[q][j] = IF q = p /\ j = k THEN ch[p] ELSE chans[q][j]
      BY <2>3, <3>1, NilAssumption DEF receive, IInv, TypeOK
    <3>3. list[k] = ch[p]
      BY <3>1, <3>2 DEF IInv, Waiting
    <3>4. \A j \in Keys : list[j] = ch[p] => j = k
      BY <3>2, <3>3 DEF IInv, Injective
    <3> QED
      BY <1>1, <3>2, <3>3, <3>4 DEF TokenSomewhere
  <2>4. CASE send(p)
    <3>1. PICK k \in Keys :
            /\ isFirst(k, held(p))
            /\ token' = token \cup {chans[p][k]}
            /\ chans' = [chans EXCEPT ![p] = [chans[p] EXCEPT ![k] = Nil]]
      BY <2>4 DEF send
    <3>2. /\ list' = list /\ list[k] = chans[p][k]
          /\ \A q \in Procs, j \in Keys :
                chans'[q][j] = IF q = p /\ j = k THEN Nil ELSE chans[q][j]
      BY <2>4, <3>1 DEF send, IInv, TypeOK, HeldInv, isFirst, held
    <3> QED
      BY <1>1, <3>1, <3>2 DEF TokenSomewhere
  <2> QED
    BY <2>1, <2>2, <2>3, <2>4
<1>4. mutex' = mutex
  BY DEF Lock, getChan, receive, receiveClosed, Unlock, send
<1> QED
  BY <1>1, <1>2, <1>3, <1>4

\* Clean visits every listed channel; one it skips is held, and its holder cleans.
LEMMA CleanKeepsListed ==
    ASSUME IInv, ListInv, NEW p \in Procs,
           Clean(p) \/ drain(p) \/ skip(p) \/ closeDrained(p) \/ unlist(p)
    PROVE  ListInv'
<1> USE DEF ListInv
<1>0. mutex' = Nil => toVisit' = {}
  <2>1. CASE unlist(p)
    BY <2>1 DEF unlist
  <2>2. CASE Clean(p) \/ drain(p) \/ skip(p) \/ closeDrained(p)
    BY <2>2, NilAssumption DEF Clean, drain, skip, closeDrained, IInv, MutexInv
  <2> QED
    BY <2>1, <2>2
<1>1. CASE Clean(p)
  <2>1. /\ UNCHANGED <<chans, list, token, toDelete>>
        /\ toVisit' = {k \in Keys : list[k] # Nil}
    BY <1>1 DEF Clean
  <2> QED
    BY <1>0, <2>1 DEF TokenSomewhere, CleanToCome
<1>2. CASE drain(p)
  <2>1. PICK k \in toVisit : /\ token' = token \ {list[k]} /\ list[k] \in token
                             /\ toVisit' = toVisit \ {k} /\ toDelete' = toDelete \cup {k}
    BY <1>2 DEF drain
  <2>2. /\ UNCHANGED <<chans, list>> /\ k \in Keys /\ pc[p] = "clean"
        /\ list[k] # Nil
        /\ \A q \in Procs : q # p => pc'[q] = pc[q]
    BY <1>2, <2>1, NilAssumption DEF drain, goTo, IInv, TypeOK
  <2>3. \A j \in Keys : list[j] = list[k] => j = k
    BY <2>2 DEF IInv, Injective
  <2>4. TokenSomewhere'
    BY <2>1, <2>2, <2>3 DEF TokenSomewhere
  <2>5. CleanToCome'
    BY <2>1, <2>2 DEF CleanToCome
  <2> QED
    BY <1>0, <2>4, <2>5
<1>3. CASE skip(p)
  <2>1. PICK k \in toVisit : list[k] \notin token /\ toVisit' = toVisit \ {k}
    BY <1>3 DEF skip
  <2>2. k \in Keys /\ UNCHANGED <<pc, chans, list, token, toDelete>>
    BY <1>3 DEF skip, IInv, TypeOK
  <2>3. list[k] # Nil /\ k \notin toDelete => \E q \in Procs : pc[q] \in {"get", "receive", "locked", "send"}
    BY <2>1, <2>2, HolderActive DEF TokenSomewhere
  <2>4. TokenSomewhere'
    BY <2>2 DEF TokenSomewhere
  <2>5. CleanToCome'
    BY <2>1, <2>2, <2>3 DEF CleanToCome
  <2> QED
    BY <1>0, <2>4, <2>5
<1>4. CASE closeDrained(p)
  <2>1. /\ UNCHANGED <<chans, list, token, toDelete, toVisit>> /\ pc[p] = "close"
        /\ \A q \in Procs : q # p => pc'[q] = pc[q]
    BY <1>4 DEF closeDrained, goTo, IInv, TypeOK
  <2> QED
    BY <1>0, <2>1 DEF TokenSomewhere, CleanToCome
<1>5. CASE unlist(p)
  <2>1. /\ UNCHANGED <<chans, token, toVisit>> /\ pc[p] = "clean" /\ toDelete' = {}
        /\ \A k \in Keys : list'[k] = IF k \in toDelete THEN Nil ELSE list[k]
        /\ \A q \in Procs : q # p => pc'[q] = pc[q]
    BY <1>5 DEF unlist, goTo, IInv, TypeOK
  <2>2. TokenSomewhere'
    BY <2>1 DEF TokenSomewhere
  <2>3. CleanToCome'
    BY <2>1 DEF CleanToCome
  <2> QED
    BY <1>0, <2>2, <2>3
<1> QED
  BY <1>1, <1>2, <1>3, <1>4, <1>5

\* Clean leaves nothing behind: with no call in progress no channel is listed.
THEOREM NothingListedAlways == Spec => []NothingListed
<1>1. Init => ListInv
  BY DEF Init, ListInv, TokenSomewhere, CleanToCome, NoChans
<1>2. IInv /\ ListInv /\ [Next]_vars => ListInv'
  <2>1. ASSUME IInv, ListInv, NEW p \in Procs, Step(p)
        PROVE  ListInv'
    BY <2>1, CallsKeepListed, CleanKeepsListed DEF Step
  <2>2. ListInv /\ UNCHANGED vars => ListInv'
    BY DEF ListInv, TokenSomewhere, CleanToCome, vars
  <2> QED
    BY <2>1, <2>2 DEF Next
<1>3. IInv /\ ListInv => NothingListed
  <2> SUFFICES ASSUME IInv, ListInv, \A p \in Procs : pc[p] = "idle"
               PROVE  list = NoChans
    BY DEF NothingListed
  <2>1. mutex = Nil
    BY DEF IInv, MutexInv, TypeOK
  <2>2. toDelete = {} /\ toVisit = {}
    BY <2>1 DEF IInv, MutexInv, ListInv
  <2> QED
    BY <2>2 DEF ListInv, CleanToCome, IInv, TypeOK, NoChans
<1> QED
  BY <1>1, <1>2, <1>3, AlwaysInv, PTL DEF Spec
=============================================================================
