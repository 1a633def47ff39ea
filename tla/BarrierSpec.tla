---------------------------- MODULE BarrierSpec ----------------------------
(***************************************************************************)
(* What Postoffice::Barrier promises to its callers, with no message, no   *)
(* counter and no flag.  A thread calls the barrier of a group it belongs  *)
(* to and stays in the call; when every thread of the group is in the call *)
(* the group is set free as a whole; a free thread returns in its own time *)
(* and may call again at once.  begun and ended count, for each thread and *)
(* group, the calls entered and the calls that returned: they are history, *)
(* no guard but the bound reads them, and they say what a caller relies on.*)
(***************************************************************************)
EXTENDS Integers

CONSTANTS Thread,    \* the callers: one per logical node of the job
          Group,     \* the groups a barrier may be called on
          Member,    \* Member[g]: the threads of group g
          None,      \* "in no barrier"
          MaxCalls   \* how many calls of one thread on one group are explored

ConstantsOK ==
  /\ None \notin Group
  /\ Member \in [Group -> SUBSET Thread]
  /\ MaxCalls \in Nat

VARIABLES at,      \* the group whose barrier a thread is in, or None
          free,    \* the threads whose group has met but that have not returned
          begun,   \* begun[t][g]: calls of t on g that were entered
          ended    \* ended[t][g]: calls of t on g that returned

vars == <<at, free, begun, ended>>

Init ==
  /\ at = [t \in Thread |-> None]
  /\ free = {}
  /\ begun = [t \in Thread |-> [g \in Group |-> 0]]
  /\ ended = [t \in Thread |-> [g \in Group |-> 0]]

Enter(t, g) ==
  /\ at[t] = None
  /\ t \in Member[g]
  /\ begun[t][g] < MaxCalls
  /\ at' = [at EXCEPT ![t] = g]
  /\ begun' = [begun EXCEPT ![t][g] = @ + 1]
  /\ UNCHANGED <<free, ended>>

Release(g) ==
  /\ \A t \in Member[g] : at[t] = g /\ t \notin free
  /\ free' = free \cup Member[g]
  /\ UNCHANGED <<at, begun, ended>>

Leave(t) ==
  /\ t \in free
  /\ free' = free \ {t}
  /\ at' = [at EXCEPT ![t] = None]
  /\ ended' = [ended EXCEPT ![t][at[t]] = @ + 1]
  /\ UNCHANGED begun

Next ==
  \/ \E t \in Thread, g \in Group : Enter(t, g)
  \/ \E g \in Group : Release(g)
  \/ \E t \in Thread : Leave(t)

Spec == Init /\ [][Next]_vars

----------------------------------------------------------------------------
(* No thread returns from its k-th call on a group before every member of   *)
(* the group has entered its own k-th call: the promise of the barrier.     *)
NoEarlyReturn ==
  \A g \in Group : \A t, u \in Member[g] : ended[t][g] <= begun[u][g]

(* The calls of a group fall into rounds: a member may be inside call k + 1 *)
(* while a slow one has not yet returned from call k, and never further.    *)
RoundsApart ==
  \A g \in Group : \A t, u \in Member[g] : begun[t][g] <= ended[u][g] + 2

----------------------------------------------------------------------------
TypeOK ==
  /\ at \in [Thread -> Group \cup {None}]
  /\ free \subseteq Thread
  /\ begun \in [Thread -> [Group -> Nat]]
  /\ ended \in [Thread -> [Group -> Nat]]

\* The rounds of g that have met, as t has seen them
Met(t, g) == ended[t][g] + (IF at[t] = g /\ t \in free THEN 1 ELSE 0)

(* Inductive: a call that was entered and did not return is the one the     *)
(* thread is inside, and all members of a group have seen as many rounds.   *)
RoundInv ==
  /\ TypeOK
  /\ \A t \in free : at[t] \in Group
  /\ \A t \in Thread, g \in Group : at[t] = g => t \in Member[g]
  /\ \A t \in Thread, g \in Group :
       begun[t][g] = ended[t][g] + (IF at[t] = g THEN 1 ELSE 0)
  /\ \A g \in Group : \A t, u \in Member[g] : Met(t, g) = Met(u, g)

=============================================================================
