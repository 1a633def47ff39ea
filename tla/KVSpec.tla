------------------------------- MODULE KVSpec -------------------------------
(***************************************************************************)
(* What the key-value layer promises to the threads that call it, with no  *)
(* server, message, timestamp or counter.  The store adds up pushes: for   *)
(* each key, tally[k][id] says how often the push id was added.  A request *)
(* is asked, touches its keys in any portions, each portion in one step,   *)
(* and is over when it has touched them all; only then may the caller      *)
(* learn that it is done.  A pull returns for each key the tally of the    *)
(* moment at which it touched that key.                                    *)
(***************************************************************************)
EXTENDS Integers

CONSTANTS Id,      \* identities of requests
          Key,
          Request, \* what may be asked: [kind |-> "push" or "pull", keys |-> set]
          None     \* "not asked"

Tally == [Id -> Nat]

ConstantsOK ==
  /\ Request \subseteq [kind : {"push", "pull"}, keys : SUBSET Key]
  /\ None \notin Request

VARIABLES
  ask,    \* ask[id]: the request, or None
  left,   \* left[id]: the keys id has still to touch
  store,  \* store[k]: the tally of k
  read,   \* read[id]: tallies a pull returned; of a key it did not touch, all 0
  done,   \* requests whose callers have learnt that they are done
  must    \* history: must[id] is the value of done when id was asked

vars == <<ask, left, store, read, done, must>>

Zero == [i \in Id |-> 0]

Init ==
  /\ ask = [i \in Id |-> None]
  /\ left = [i \in Id |-> {}]
  /\ store = [k \in Key |-> Zero]
  /\ read = [i \in Id |-> [k \in Key |-> Zero]]
  /\ done = {}
  /\ must = [i \in Id |-> {}]

Ask(id, r) ==
  /\ ask[id] = None
  /\ ask' = [ask EXCEPT ![id] = r]
  /\ left' = [left EXCEPT ![id] = r.keys]
  /\ must' = [must EXCEPT ![id] = done]
  /\ UNCHANGED <<store, read, done>>

Add(id, K) ==
  /\ ask[id] # None /\ ask[id].kind = "push"
  /\ K # {} /\ K \subseteq left[id]
  /\ left' = [left EXCEPT ![id] = @ \ K]
  /\ store' = [k \in Key |-> IF k \in K THEN [store[k] EXCEPT ![id] = @ + 1] ELSE store[k]]
  /\ UNCHANGED <<ask, read, done, must>>

Read(id, K) ==
  /\ ask[id] # None /\ ask[id].kind = "pull"
  /\ K # {} /\ K \subseteq left[id]
  /\ left' = [left EXCEPT ![id] = @ \ K]
  /\ read' = [read EXCEPT ![id] = [k \in Key |-> IF k \in K THEN store[k] ELSE @[k]]]
  /\ UNCHANGED <<ask, store, done, must>>

Finish(id) ==
  /\ ask[id] # None /\ left[id] = {}
  /\ done' = done \cup {id}
  /\ UNCHANGED <<ask, left, store, read, must>>

Next ==
  \/ \E id \in Id, r \in Request : Ask(id, r)
  \/ \E id \in Id : \E K \in SUBSET Key : Add(id, K)
  \/ \E id \in Id : \E K \in SUBSET Key : Read(id, K)
  \/ \E id \in Id : Finish(id)

Spec == Init /\ [][Next]_vars

----------------------------------------------------------------------------
\* The push / pull id has been asked and has touched k
Pushed(id, k) == ask[id] # None /\ ask[id].kind = "push" /\ k \in ask[id].keys \ left[id]
Pulled(id, k) == ask[id] # None /\ ask[id].kind = "pull" /\ k \in ask[id].keys \ left[id]

(* The store counts each push once for each key it touched, and nothing     *)
(* else.                                                                    *)
AddedOnce ==
  \A k \in Key, id \in Id : store[k][id] = IF Pushed(id, k) THEN 1 ELSE 0

(* A pull returns every push that was known to be done when it was asked.   *)
ReadsSeeDone ==
  \A q \in Id : \A p \in must[q], k \in Key :
     Pushed(p, k) /\ Pulled(q, k) => read[q][k][p] = 1

(* Of two pulls of a key, one asked when the other was known to be done,    *)
(* the later one returns whatever the earlier one returned.                 *)
ReadsGrow ==
  \A q \in Id : \A p \in must[q], k \in Key :
     Pulled(p, k) /\ Pulled(q, k) => \A i \in Id : read[p][k][i] <= read[q][k][i]

----------------------------------------------------------------------------
TypeOK ==
  /\ ask \in [Id -> Request \cup {None}]
  /\ left \in [Id -> SUBSET Key]
  /\ store \in [Key -> Tally]
  /\ read \in [Id -> [Key -> Tally]]
  /\ done \subseteq Id
  /\ must \in [Id -> SUBSET Id]

(* Inductive: what is known to be done has nothing left to touch, and what  *)
(* was read is still in the store, which only grows.                        *)
StoreInv ==
  /\ TypeOK
  /\ \A id \in done : ask[id] # None /\ left[id] = {}
  /\ \A id \in Id : must[id] \subseteq done
  /\ \A id \in Id : ask[id] # None => left[id] \subseteq ask[id].keys
  /\ \A q, i \in Id, k \in Key : read[q][k][i] <= store[k][i]
  /\ AddedOnce /\ ReadsSeeDone /\ ReadsGrow

=============================================================================
