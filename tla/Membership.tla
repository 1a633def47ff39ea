----------------------------- MODULE Membership -----------------------------
(***************************************************************************)
(* How the nodes of a job find each other: Van::Start, the ADD_NODE command *)
(* on the scheduler and on the nodes, and the replacement of dead nodes.    *)
(*                                                                         *)
(* Each customer thread of a process registers the address of the process. *)
(* When as many have registered as the job has nodes, the scheduler sorts  *)
(* them by address, gives each a rank of its role, connects to each address *)
(* once and sends everybody the list.  A second registration of an address *)
(* uses up a rank but shares the id of the first.  A registration that      *)
(* comes later takes the place of a node whose heartbeat has timed out.     *)
(*                                                                         *)
(* The list of the scheduler ends with the scheduler itself; that entry is  *)
(* left out, and so is the counter it makes larger than num_nodes.  Every   *)
(* incarnation of a node is a process of its own, with an address of its    *)
(* own.  Heartbeats are taken to be sent often enough that the time of an   *)
(* id runs out only when no process that runs sends it.                     *)
(***************************************************************************)
EXTENDS Integers, Sequences, FiniteSetsExt

CONSTANTS Proc,        \* server and worker processes, replacements included
          Late,        \* those that are started after a crash
          Role,        \* Role[p]: "server" or "worker"
          Addr,        \* Addr[p]: the place of p's host and port in the sort
          Threads,     \* Threads[p]: the number of p's customers
          NumServers, NumWorkers,
          None,
          MaxCrashes   \* bound on the crashes

Thread == UNION {{p} \X (1 .. Threads[p]) : p \in Proc}
Launched == {t \in Thread : t[1] \notin Late}
Num == NumServers + NumWorkers

ASSUME ProcAssumption ==
  /\ IsFiniteSet(Proc) /\ IsFiniteSet(Launched)
  /\ Late \subseteq Proc
  /\ Role \in [Proc -> {"server", "worker"}]
  /\ Threads \in [Proc -> Nat \ {0}]
\* ZMQVan::Bind takes another port until one is free
AddressesDistinct == \A p, q \in Proc : Addr[p] = Addr[q] => p = q
ASSUME AddrAssumption == Addr \in [Proc -> Nat] /\ AddressesDistinct
\* The launcher starts as many threads as DMLC_NUM_SERVER and _WORKER say
ASSUME NumAssumption ==
  /\ NumServers = Cardinality({t \in Launched : Role[t[1]] = "server"})
  /\ NumWorkers = Cardinality({t \in Launched : Role[t[1]] = "worker"})
  /\ Num > 0
ASSUME NoneAssumption == None \notin Proc \cup Nat
ASSUME CrashAssumption == MaxCrashes \in Nat

\* Postoffice::ServerRankToID, WorkerRankToID
RankToID(role, rank) == rank * 2 + IF role = "server" THEN 8 ELSE 9

\* node_ids_ of kWorkerGroup + kServerGroup, and the order of the list
NodeIDs == {RankToID("server", i) : i \in 0 .. NumServers - 1}
             \cup {RankToID("worker", i) : i \in 0 .. NumWorkers - 1}
Before(i, j) == IF i % 2 = j % 2 THEN i < j ELSE i % 2 = 1

\* Ids a wrong mix of roles could lead to as well
AnyID == {RankToID(r, i) : r \in {"server", "worker"}, i \in 0 .. Num - 1}

Slot == [proc : Proc, id : AnyID \cup {None}, rec : BOOLEAN]

VARIABLES
  asked,      \* threads that have sent their ADD_NODE
  joins,      \* ADD_NODE on the way to the scheduler: [thread, known], known if
              \* its sender had an id already
  nodes,      \* nodes: the list of the scheduler
  recovered,  \* recovery_nodes, which nothing clears
  assigned,   \* ready_ of the scheduler
  shared,     \* the ids shared_node_mapping_ maps
  sockets,    \* sockets[i]: where the scheduler sends messages for i, or None
  stale,      \* ids whose heartbeat has timed out
  aborted,    \* the scheduler ended in a CHECK
  inbox,      \* inbox[p]: ADD_NODE lists on the way to p
  myID,       \* myID[p]: my_node_.id of p, or None
  ready,      \* processes with ready_
  addrs,      \* addrs[p]: the processes in connected_nodes_ of p
  conn,       \* conn[p][i]: where p sends messages for i, or None
  crashed

scheduler == <<nodes, recovered, assigned, shared, sockets, stale, aborted>>
members == <<myID, ready, addrs, conn>>
vars == <<asked, joins, scheduler, inbox, members, crashed>>

Init ==
  /\ asked = {} /\ joins = {}
  /\ nodes = <<>> /\ recovered = <<>>
  /\ assigned = FALSE
  /\ shared = {} /\ stale = {}
  /\ sockets = [i \in AnyID |-> None]
  /\ aborted = FALSE
  /\ inbox = [p \in Proc |-> <<>>]
  /\ myID = [p \in Proc |-> None]
  /\ ready = {}
  /\ addrs = [p \in Proc |-> {}]
  /\ conn = [p \in Proc |-> [i \in AnyID |-> None]]
  /\ crashed = {}

----------------------------------------------------------------------------
\* Van::Start: a customer thread registers.  A replacement is started for a
\* node of its role that has crashed.
Register(t) ==
  LET p == t[1]
  IN /\ t \in Thread \ asked /\ p \notin crashed
     /\ p \in Late => \E q \in crashed : Role[q] = Role[p]
     /\ asked' = asked \cup {t}
     /\ joins' = joins \cup {[thread |-> t, known |-> myID[p] # None]}
     /\ UNCHANGED <<scheduler, inbox, members, crashed>>

\* The k-th id of a set in the order of the list
Nth(ids, k) == CHOOSE i \in ids : Cardinality({j \in ids : Before(j, i)}) = k - 1

\* The scheduler sends list[i] to each i of a set, workers first: a missing socket
\* makes SendMsg return -1, which fails a CHECK in Send
Broadcast(ids, list) ==
  LET missing == {i \in ids : sockets'[i] = None}
      reached == {i \in ids : \A j \in missing : Before(i, j)}
      own(p) == {i \in reached : sockets'[i] = p}
  IN /\ aborted' = (missing # {})
     /\ inbox' = [p \in Proc |->
          inbox[p] \o [k \in 1 .. Cardinality(own(p)) |-> list[Nth(own(p), k)]]]

NewSlot(p) == [proc |-> p, id |-> None, rec |-> FALSE]

\* ProcessAddNodeCommand on the scheduler while nodes are missing
JoinEarly(m) ==
  /\ m \in joins /\ ~aborted /\ ~assigned
  /\ Len(nodes) + 1 < Num
  /\ joins' = joins \ {m}
  /\ nodes' = Append(nodes, NewSlot(m.thread[1]))
  /\ UNCHANGED <<asked, recovered, assigned, shared, sockets, stale, aborted, inbox,
                 members, crashed>>

\* Mutant: a second registration of an address gets no rank of its own
RankedIDShared(s, i) ==
  RankToID(Role[s[i].proc],
           Cardinality({s[j].proc : j \in {k \in 1 .. i - 1 : Role[s[k].proc] = Role[s[i].proc]}}))

\* The rank id of the i-th entry of a sorted list, and the first entry with
\* its address
RankedID(s, i) ==
  RankToID(Role[s[i].proc],
           Cardinality({j \in 1 .. i - 1 : Role[s[j].proc] = Role[s[i].proc]}))
FirstOf(s, i) == CHOOSE j \in 1 .. i :
  s[j].proc = s[i].proc /\ \A k \in 1 .. j - 1 : s[k].proc # s[i].proc
Numbered(s) == [i \in 1 .. Num |-> [s[i] EXCEPT !.id = RankedID(s, FirstOf(s, i))]]

\* std::sort by address
Sorted(s) ==
  {t \in {[i \in 1 .. Num |-> s[f[i]]] : f \in Bijection(1 .. Num, 1 .. Num)} :
     \A i, j \in 1 .. Num : i < j => Addr[t[i].proc] <= Addr[t[j].proc]}

\* Mutant: the list is sent to the ids that share a socket too
JoinLastAllIDs(m) ==
  /\ m \in joins /\ ~aborted /\ ~assigned
  /\ Len(nodes) + 1 = Num
  /\ joins' = joins \ {m}
  /\ \E sorted \in Sorted(Append(nodes, NewSlot(m.thread[1]))) : nodes' = Numbered(sorted)
  /\ shared' = {RankedID(nodes', i) : i \in 1 .. Num} \ {nodes'[i].id : i \in 1 .. Num}
  /\ sockets' = [id \in AnyID |->
       IF \E i \in 1 .. Num : nodes'[i].id = id
         THEN nodes'[CHOOSE i \in 1 .. Num : nodes'[i].id = id].proc
         ELSE None]
  /\ Broadcast(NodeIDs, [id \in AnyID |-> nodes'])
  /\ assigned' = ~aborted'
  /\ UNCHANGED <<asked, recovered, stale, members, crashed>>

\* ProcessAddNodeCommandAtScheduler when the last node has registered
JoinLast(m) ==
  /\ m \in joins /\ ~aborted /\ ~assigned
  /\ Len(nodes) + 1 = Num
  /\ joins' = joins \ {m}
  /\ \E sorted \in Sorted(Append(nodes, NewSlot(m.thread[1]))) : nodes' = Numbered(sorted)
  /\ shared' = {RankedID(nodes', i) : i \in 1 .. Num} \ {nodes'[i].id : i \in 1 .. Num}
  /\ sockets' = [id \in AnyID |->
       IF \E i \in 1 .. Num : nodes'[i].id = id
         THEN nodes'[CHOOSE i \in 1 .. Num : nodes'[i].id = id].proc
         ELSE None]
  /\ Broadcast(NodeIDs \ shared', [id \in AnyID |-> nodes'])
  /\ assigned' = ~aborted'
  /\ UNCHANGED <<asked, recovered, stale, members, crashed>>

\* GetDeadNodes: no heartbeat is ever recorded for a shared id
Dead == stale \cup shared

\* Mutant: a place is not asked for its heartbeat
VacantAlive(role) == {i \in 1 .. Num : Role[nodes[i].proc] = role}

\* The places in the list that a late process of a role could take
Vacant(role) == {i \in 1 .. Num : nodes[i].id \in Dead /\ Role[nodes[i].proc] = role}

\* Mutant: what was dead before the recovery is told nothing
ToldAlive(r) == {id \in NodeIDs : id \notin Dead}

\* Who is told of the recovery r: not the dead, as they were before it
Told(r) == {id \in NodeIDs : id = r.id \/ id \notin Dead}

\* Mutant: the recovery is noted before its node has its id
JoinLateNoID(m) ==
  LET p == m.thread[1]
      places == IF m.known THEN {} ELSE Vacant(Role[p])
      i == CHOOSE k \in places : \A l \in places : k <= l
      slot == [proc |-> p, id |-> nodes[i].id, rec |-> TRUE]
  IN /\ m \in joins /\ ~aborted /\ assigned
     /\ joins' = joins \ {m}
     /\ IF places = {}
          THEN UNCHANGED <<nodes, recovered>>
          ELSE /\ nodes' = [nodes EXCEPT ![i] = slot]
               /\ recovered' = Append(recovered, NewSlot(p))
     /\ CASE recovered' = <<>> -> UNCHANGED <<sockets, stale, aborted, inbox>>
          [] Len(recovered') > 1 -> \* the CHECK that there is one
               aborted' = TRUE /\ UNCHANGED <<sockets, stale, inbox>>
          [] OTHER ->
               LET r == recovered'[1]
               IN /\ sockets' = [sockets EXCEPT ![r.id] = r.proc]
                  /\ stale' = stale \ {r.id}
                  /\ Broadcast(Told(r), [id \in AnyID |-> IF id = r.id THEN nodes' ELSE recovered'])
     /\ UNCHANGED <<asked, assigned, shared, members, crashed>>

\* ProcessAddNodeCommand on the scheduler from then on.  Whether or not the
\* process found a place, a recovery that has been is sent around (again).
JoinLate(m) ==
  LET p == m.thread[1]
      places == IF m.known THEN {} ELSE Vacant(Role[p])
      i == CHOOSE k \in places : \A l \in places : k <= l
      slot == [proc |-> p, id |-> nodes[i].id, rec |-> TRUE]
  IN /\ m \in joins /\ ~aborted /\ assigned
     /\ joins' = joins \ {m}
     /\ IF places = {}
          THEN UNCHANGED <<nodes, recovered>>
          ELSE /\ nodes' = [nodes EXCEPT ![i] = slot]
               /\ recovered' = Append(recovered, slot)
     /\ CASE recovered' = <<>> -> UNCHANGED <<sockets, stale, aborted, inbox>>
          [] Len(recovered') > 1 -> \* the CHECK that there is one
               aborted' = TRUE /\ UNCHANGED <<sockets, stale, inbox>>
          [] OTHER ->
               LET r == recovered'[1]
               IN /\ sockets' = [sockets EXCEPT ![r.id] = r.proc]
                  /\ stale' = stale \ {r.id}
                  /\ Broadcast(Told(r), [id \in AnyID |-> IF id = r.id THEN nodes' ELSE recovered'])
     /\ UNCHANGED <<asked, assigned, shared, members, crashed>>

\* Heartbeat: p sends the id it has, and will do so if it has none yet
Beats(p, i) == p \notin crashed /\ myID[p] \in {None, i}

\* ProcessHearbeat: the processes in the list that renew the time of i
Renewing(i) == {p \in {nodes[k].proc : k \in {l \in 1 .. Num : nodes[l].id = i}} : Beats(p, i)}

\* The time of a heartbeat runs out
Expire(i) ==
  /\ assigned /\ ~aborted
  /\ i \notin stale
  /\ i \in {nodes[k].id : k \in 1 .. Num}
  /\ Renewing(i) = {}
  /\ stale' = stale \cup {i}
  /\ UNCHANGED <<asked, joins, nodes, recovered, assigned, shared, sockets, aborted, inbox,
                 members, crashed>>

\* UpdateLocalID: the first entry with its address gives a node its id
LocalID(p, list) ==
  LET own == {k \in 1 .. Len(list) : list[k].proc = p}
  IN IF myID[p] = None /\ own # {} THEN list[Min(own)].id ELSE myID[p]

\* ZMQVan::Connect makes no socket to another node of the role
Connects(p, slot, id) == Role[slot.proc] # Role[p] \/ slot.id = id

\* Mutant: a node whose id is connected is not connected again
UpdateByID(p) ==
  LET list == Head(inbox[p])
      new == {k \in 1 .. Len(list) : conn[p][list[k].id] = None}
      \* the entries that give the socket for i; the last one counts
      joined(i) == {k \in new : list[k].id = i /\ Connects(p, list[k], myID'[p])}
  IN /\ inbox[p] # <<>> /\ p \notin crashed
     /\ inbox' = [inbox EXCEPT ![p] = Tail(@)]
     /\ myID' = [myID EXCEPT ![p] = LocalID(p, list)]
     /\ addrs' = [addrs EXCEPT ![p] = @ \cup {list[k].proc : k \in new}]
     /\ conn' = [conn EXCEPT ![p] = [i \in AnyID |->
          IF joined(i) = {} THEN @[i] ELSE list[Max(joined(i))].proc]]
     /\ ready' = ready \cup {p}
     /\ UNCHANGED <<asked, joins, scheduler, crashed>>

\* ProcessAddNodeCommand on a node
Update(p) ==
  LET list == Head(inbox[p])
      new == {k \in 1 .. Len(list) : list[k].proc \notin addrs[p]}
      \* the entries that give the socket for i; the last one counts
      joined(i) == {k \in new : list[k].id = i /\ Connects(p, list[k], myID'[p])}
  IN /\ inbox[p] # <<>> /\ p \notin crashed
     /\ inbox' = [inbox EXCEPT ![p] = Tail(@)]
     /\ myID' = [myID EXCEPT ![p] = LocalID(p, list)]
     /\ addrs' = [addrs EXCEPT ![p] = @ \cup {list[k].proc : k \in new}]
     /\ conn' = [conn EXCEPT ![p] = [i \in AnyID |->
          IF joined(i) = {} THEN @[i] ELSE list[Max(joined(i))].proc]]
     /\ ready' = ready \cup {p}
     /\ UNCHANGED <<asked, joins, scheduler, crashed>>

\* What p has sent is still delivered.
Crash(p) ==
  /\ p \notin crashed /\ Cardinality(crashed) < MaxCrashes
  /\ crashed' = crashed \cup {p}
  /\ inbox' = [inbox EXCEPT ![p] = <<>>]
  /\ UNCHANGED <<asked, joins, scheduler, members>>

Next ==
  \/ \E t \in Thread : Register(t)
  \/ \E m \in joins : JoinEarly(m)
  \/ \E m \in joins : JoinLast(m)
  \/ \E m \in joins : JoinLate(m)
  \/ \E i \in AnyID : Expire(i)
  \/ \E p \in Proc : Update(p)
  \/ \E p \in Proc : Crash(p)

Spec == Init /\ [][Next]_vars

(* The receiver threads take every message that reaches their process.      *)
FairSpec ==
  /\ Spec
  /\ WF_vars(\E m \in joins : JoinEarly(m) \/ JoinLast(m) \/ JoinLate(m))
  /\ \A p \in Proc : WF_vars(Update(p))

----------------------------------------------------------------------------
TypeOK ==
  /\ asked \subseteq Thread
  /\ joins \subseteq [thread : Thread, known : BOOLEAN]
  /\ nodes \in Seq(Slot) /\ Len(nodes) <= Num
  /\ recovered \in Seq({s \in Slot : s.id # None /\ s.rec})
  /\ assigned \in BOOLEAN /\ aborted \in BOOLEAN
  /\ shared \subseteq AnyID /\ stale \subseteq AnyID
  /\ sockets \in [AnyID -> Proc \cup {None}]
  /\ inbox \in [Proc -> Seq(Seq(Slot))]
  /\ myID \in [Proc -> AnyID \cup {None}]
  /\ ready \subseteq Proc
  /\ addrs \in [Proc -> SUBSET Proc]
  /\ conn \in [Proc -> [AnyID -> Proc \cup {None}]]
  /\ crashed \subseteq Proc

Alive == Proc \ crashed

(* No two processes that run have the same id, a replacement of a node and  *)
(* the customers that share an address included.                            *)
OneHolder ==
  \A p, q \in Alive : myID[p] = myID[q] /\ myID[p] # None => p = q

(* When the scheduler has numbered the nodes, and was not led astray by a   *)
(* crash, every id of GetNodeIDs, which barriers count and broadcasts go    *)
(* to, belongs to places of its role in the list or is a second name of     *)
(* another: none is missing, and recoveries keep it so.                     *)
IDsCovered ==
  assigned \/ (aborted /\ crashed = {}) =>
    /\ {nodes[i].id : i \in 1 .. Num} \cap shared = {}
    /\ {nodes[i].id : i \in 1 .. Num} \cup shared = NodeIDs
    /\ \A i \in 1 .. Num : \E rank \in 0 .. Num - 1 :
         nodes[i].id = RankToID(Role[nodes[i].proc], rank)

(* Once a node has read its lists, what it sends to the id of a node of the *)
(* other role reaches the process that has the id now, not one that it has  *)
(* replaced; the scheduler's sockets do so always.                          *)
RoutesAgree ==
  \A p, q \in Alive \cap ready :
    /\ sockets[myID[q]] = q
    /\ inbox[p] = <<>> /\ Role[p] # Role[q] => conn[p][myID[q]] = q

(* When all the threads of the job have registered, every process becomes   *)
(* ready, unless one crashes (van.h:46: Start "initalizes all connections   *)
(* to other nodes").                                                        *)
StartCompletes ==
  asked = Launched /\ crashed = {} ~>
    (\A t \in Launched : t[1] \in ready) \/ crashed # {}

(* A replacement whose place is free when it registers becomes ready, if no *)
(* other is being or has been replaced.                                     *)
ReplacementJoins ==
  \A t \in Thread \ Launched :
     (/\ assigned /\ recovered = <<>> /\ Vacant(Role[t[1]]) # {}
      /\ [thread |-> t, known |-> FALSE] \in joins)
     ~> \/ t[1] \in ready \cup crashed
        \/ \E i \in 1 .. Len(recovered) : recovered[i].proc # t[1]

(* The CHECK of van.cc:104, that there is one node to recover.              *)
OneRecovery == Len(recovered) <= 1

=============================================================================
