------------------------------ MODULE Barrier ------------------------------
(***************************************************************************)
(* The barrier of ps-lite: Postoffice::Barrier and Postoffice::Manage on   *)
(* every process, Van::ProcessBarrierCommand on the scheduler.             *)
(*                                                                         *)
(* A process runs one thread for each of its customers; the threads of a   *)
(* worker process share one Postoffice, one Van and one address, and each  *)
(* counts as one node of the job (shared_node_mapping_).  A thread that    *)
(* calls Barrier clears its entry of barrier_done_[0], sends a request to  *)
(* the scheduler and sleeps until the entry is true.  The scheduler counts *)
(* the requests of a group; the one that makes the count equal the size of *)
(* the group clears the count and sends one response to each process of    *)
(* the group.  Manage, on a response, sets the entries 0 .. size-1.        *)
(*                                                                         *)
(* The transport delivers: loss and retransmission are module Resender's.  *)
(* A message in flight is a member of a set, in no order: requests of two  *)
(* threads and responses to two processes travel on different sockets, and *)
(* no thread ever has two requests of one group, nor a process two         *)
(* responses, in flight (BarrierProofs: IInv).                             *)
(***************************************************************************)
EXTENDS Integers, FiniteSets

CONSTANTS Proc,       \* the processes
          Role,       \* Role[p]: "scheduler", "server" or "worker"
          Customers,  \* Customers[p]: the customer ids of p that call Barrier
          Group,      \* node groups: a group mask is the set of its roles
          None,       \* "in no barrier"
          MaxCalls    \* bound on the calls of one thread on one group

Roles == {"scheduler", "server", "worker"}

ASSUME RoleAssumption == Role \in [Proc -> Roles]
ASSUME CustomersAssumption ==
  Customers \in [Proc -> (SUBSET Nat) \ {{}}]
ASSUME GroupAssumption == Group \subseteq SUBSET Roles
ASSUME NoneAssumption == None \notin Group
ASSUME MaxCallsAssumption == MaxCalls \in Nat
(* The customer ids of a process are 0, 1, .., as the multi-worker test     *)
(* numbers them.  Nothing in the code requires it.                          *)
ContiguousIds ==
  \A p \in Proc : \E n \in Nat : Customers[p] = 0 .. n - 1

Thread == UNION {{p} \X Customers[p] : p \in Proc}

ASSUME FinitenessAssumption == IsFiniteSet(Thread)

Procs(g) == {p \in Proc : Role[p] \in g}

\* GetNodeIDs(g): one id for each thread of the group's processes
Member == [g \in Group |-> {t \in Thread : Role[t[1]] \in g}]

VARIABLES
  at,       \* at[t]: the group whose Barrier call t is inside, or None
  keys,     \* keys[p]: the customer ids that barrier_done_[0] of p holds
  done,     \* the <<process, customer id>> whose entry of barrier_done_[0] is true
  reqs,     \* BARRIER requests on the way to the scheduler, as <<thread, group>>
  resps,    \* processes with a BARRIER response on the way
  bcount,   \* barrier_count_ of the scheduler
  begun,    \* history: calls entered, per thread and group
  ended     \* history: calls that returned, per thread and group

netVars == <<reqs, resps>>
history == <<begun, ended>>
vars == <<at, keys, done, reqs, resps, bcount, begun, ended>>

Init ==
  /\ at = [t \in Thread |-> None]
  /\ keys = [p \in Proc |-> {}]
  /\ done = {}
  /\ reqs = {}
  /\ resps = {}
  /\ bcount = [g \in Group |-> 0]
  /\ begun = [t \in Thread |-> [g \in Group |-> 0]]
  /\ ended = [t \in Thread |-> [g \in Group |-> 0]]

----------------------------------------------------------------------------
\* Postoffice::AddCustomer, for app 0: insert leaves an entry that exists
AddCustomer(p, c) ==
  /\ c \in Customers[p] \ keys[p]
  /\ keys' = [keys EXCEPT ![p] = @ \cup {c}]
  /\ UNCHANGED <<at, done, netVars, bcount, history>>

\* Mutant: the entry keeps the value the last barrier left in it
EnterKeepsDone(t, g) ==
  /\ at[t] = None
  /\ t \in Member[g] /\ Cardinality(Member[g]) > 1
  /\ begun[t][g] < MaxCalls
  /\ at' = [at EXCEPT ![t] = g]
  /\ keys' = [keys EXCEPT ![t[1]] = @ \cup {t[2]}]
  /\ reqs' = reqs \cup {<<t, g>>}
  /\ begun' = [begun EXCEPT ![t][g] = @ + 1]
  /\ UNCHANGED <<done, resps, bcount, ended>>

\* Postoffice::Barrier up to the wait.  The entry is cleared and the request
\* sent under barrier_mu_, which Manage takes too, so no response falls
\* between them.  A group of one node returns at once: no step.
Enter(t, g) ==
  /\ at[t] = None
  /\ t \in Member[g] /\ Cardinality(Member[g]) > 1
  /\ begun[t][g] < MaxCalls
  /\ at' = [at EXCEPT ![t] = g]
  /\ keys' = [keys EXCEPT ![t[1]] = @ \cup {t[2]}]
  /\ done' = done \ {t}
  /\ reqs' = reqs \cup {<<t, g>>}
  /\ begun' = [begun EXCEPT ![t][g] = @ + 1]
  /\ UNCHANGED <<resps, bcount, ended>>

\* Mutant: the group is set free by the request before the last
CountAllButOne(t, g) ==
  /\ <<t, g>> \in reqs
  /\ reqs' = reqs \ {<<t, g>>}
  /\ IF bcount[g] + 2 = Cardinality(Member[g])
       THEN /\ bcount' = [bcount EXCEPT ![g] = 0]
            /\ resps' = resps \cup Procs(g)
       ELSE /\ bcount' = [bcount EXCEPT ![g] = @ + 1]
            /\ UNCHANGED resps
  /\ UNCHANGED <<at, keys, done, history>>

\* Mutant: the count of a group that met is not cleared
CountNoReset(t, g) ==
  /\ <<t, g>> \in reqs
  /\ reqs' = reqs \ {<<t, g>>}
  /\ bcount' = [bcount EXCEPT ![g] = @ + 1]
  /\ resps' = IF bcount'[g] = Cardinality(Member[g]) THEN resps \cup Procs(g) ELSE resps
  /\ UNCHANGED <<at, keys, done, history>>

\* Mutant: one counter for every group
CountAcrossGroups(t, g) ==
  /\ <<t, g>> \in reqs
  /\ reqs' = reqs \ {<<t, g>>}
  /\ IF bcount[g] + 1 = Cardinality(Member[g])
       THEN /\ bcount' = [h \in Group |-> 0]
            /\ resps' = resps \cup Procs(g)
       ELSE /\ bcount' = [h \in Group |-> bcount[h] + 1]
            /\ UNCHANGED resps
  /\ UNCHANGED <<at, keys, done, history>>

\* Mutant: the size of a group that met is taken off before its last request
\* is added
CountResetShort(t, g) ==
  /\ <<t, g>> \in reqs
  /\ reqs' = reqs \ {<<t, g>>}
  /\ IF bcount[g] + 1 = Cardinality(Member[g])
       THEN /\ bcount' = [bcount EXCEPT ![g] = @ - Cardinality(Member[g])]
            /\ resps' = resps \cup Procs(g)
       ELSE /\ bcount' = [bcount EXCEPT ![g] = @ + 1]
            /\ UNCHANGED resps
  /\ UNCHANGED <<at, keys, done, history>>

\* Van::ProcessBarrierCommand, a request, on the scheduler.  The responses
\* are sent one by one by the only thread that reads requests, so sending
\* them together leaves out no behaviour.
CountRequest(t, g) ==
  /\ <<t, g>> \in reqs
  /\ reqs' = reqs \ {<<t, g>>}
  /\ IF bcount[g] + 1 = Cardinality(Member[g])
       THEN /\ bcount' = [bcount EXCEPT ![g] = 0]
            /\ resps' = resps \cup Procs(g)
       ELSE /\ bcount' = [bcount EXCEPT ![g] = @ + 1]
            /\ UNCHANGED resps
  /\ UNCHANGED <<at, keys, done, history>>

\* Mutant: only the customer 0 of the process is woken
ManageCustomerZero(p) ==
  /\ p \in resps
  /\ resps' = resps \ {p}
  /\ keys' = [keys EXCEPT ![p] = @ \cup {0}]
  /\ done' = done \cup {<<p, 0>>}
  /\ UNCHANGED <<at, reqs, bcount, history>>

\* Postoffice::Manage on a BARRIER response: the loop runs over 0 .. size-1,
\* not over the keys, and creates the entries it does not find.
Manage(p) ==
  LET loop == 0 .. Cardinality(keys[p]) - 1
  IN /\ p \in resps
     /\ resps' = resps \ {p}
     /\ keys' = [keys EXCEPT ![p] = @ \cup loop]
     /\ done' = done \cup {<<p, c>> : c \in loop}
     /\ UNCHANGED <<at, reqs, bcount, history>>

\* The wait of Postoffice::Barrier ends; the entry stays true.
Leave(t) ==
  /\ at[t] # None
  /\ t \in done
  /\ at' = [at EXCEPT ![t] = None]
  /\ ended' = [ended EXCEPT ![t][at[t]] = @ + 1]
  /\ UNCHANGED <<keys, done, netVars, bcount, begun>>

Next ==
  \/ \E p \in Proc : \E c \in Customers[p] : AddCustomer(p, c)
  \/ \E t \in Thread, g \in Group : Enter(t, g)
  \/ \E t \in Thread, g \in Group : CountRequest(t, g)
  \/ \E p \in Proc : Manage(p)
  \/ \E t \in Thread : Leave(t)

Spec == Init /\ [][Next]_vars

(* The receiver threads loop on RecvMsg and a transport that does not lose  *)
(* hands them every message; a thread whose predicate holds is notified.    *)
(* No thread is obliged to call.                                            *)
FairSpec ==
  /\ Spec
  /\ \A t \in Thread, g \in Group : WF_vars(CountRequest(t, g))
  /\ \A p \in Proc : WF_vars(Manage(p))
  /\ \A t \in Thread : WF_vars(Leave(t))

----------------------------------------------------------------------------
TypeOK ==
  /\ at \in [Thread -> Group \cup {None}]
  /\ keys \in [Proc -> SUBSET Nat]
  /\ done \subseteq Proc \X Nat
  /\ reqs \subseteq Thread \X Group
  /\ resps \subseteq Proc
  /\ bcount \in [Group -> Nat]
  /\ begun \in [Thread -> [Group -> Nat]]
  /\ ended \in [Thread -> [Group -> Nat]]

(* A thread inside a call has been set free once a response is on its way   *)
(* to its process or has set its entry.                                     *)
Freed == {t \in Thread : at[t] # None /\ (t \in done \/ t[1] \in resps)}

\* The requests of the running round of g that the scheduler has counted
Counted(g) ==
  {t \in Member[g] : at[t] = g /\ <<t, g>> \notin reqs /\ t \notin Freed}

(* The scheduler's counter, which no process but it can read, is the number *)
(* of threads that wait in the group and whose request has arrived: a       *)
(* leftover or a lost count would make a later round meet one call early or *)
(* never.                                                                   *)
CountIsExact == \A g \in Group : bcount[g] = Cardinality(Counted(g))

(* A response finds every thread of its process asleep in one same barrier: *)
(* this is why Manage may set all the entries of a process without asking   *)
(* which group or which customer the response is for.                       *)
ResponseFindsAllWaiting ==
  \A p \in resps : \E g \in Group : \A c \in Customers[p] :
     at[<<p, c>>] = g /\ <<p, c>> \notin done

(* No thread returns from its k-th call on a group before every member has  *)
(* entered its own k-th call (postoffice.h:36: Start "will block until      *)
(* every nodes are started").                                               *)
NoEarlyReturn ==
  \A g \in Group : \A t, u \in Member[g] : ended[t][g] <= begun[u][g]

(* The barrier implements its abstract specification.                       *)
Abs == INSTANCE BarrierSpec WITH free <- Freed

AbsSpec == Abs!Spec

(* Once all the members of a group wait in one round of it, each of them    *)
(* returns, whatever barriers the others go on to call.                     *)
AllReturn ==
  \A g \in Group : \A t \in Member[g] :
     (\A u \in Member[g] : at[u] = g /\ u \notin Freed) ~> at[t] = None

=============================================================================
