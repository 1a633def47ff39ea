------------------------------- MODULE Tracker -----------------------------
(* RabitTracker of tracker/tracker.py, which tracker.submit starts for a job *)
(* without servers: it numbers the workers, tells each which others it is to *)
(* be linked with - its neighbours in a tree and in a ring - and introduces  *)
(* a worker to those of its neighbours that already wait to be connected to. *)
(* One thread serves one worker at a time. The workers are rabit's, outside  *)
(* of the repository: of them the model takes what the tracker reads and     *)
(* writes, that a worker which could not reach one of the hosts it was given *)
(* says so and reports the links it has again, and that both ends of a       *)
(* broken link come back.                                                    *)
EXTENDS Integers, Sequences, FiniteSets, SequencesExt

CONSTANTS
  Slave,      \* the workers of the job
  Host,       \* the host of each
  MaxErrors,  \* how often connecting two workers may fail
  MaxBreaks,  \* how often a link may break
  None

nslave == Cardinality(Slave)

----------------------------------------------------------------------------
(* The links. *)

get_neighbor(rank, n) ==
  LET k == rank + 1 IN
  {x \in {k \div 2 - 1} : k > 1} \cup {x \in {2 * k - 1, 2 * k} : x < n}

get_tree(n) ==
  [tree   |-> [r \in 0 .. n - 1 |-> get_neighbor(r, n)],
   parent |-> [r \in 0 .. n - 1 |-> (r + 1) \div 2 - 1]]

(* The order in which Python 2 iterates over a set of at most four small     *)
(* integers: by their place in a table of eight.                             *)
Iterated(S) == SetToSortSeq(S, LAMBDA a, b : a % 8 < b % 8)

find_share_ring(t, root) ==
  LET f[r \in DOMAIN t.tree] ==
        LET c == Iterated(t.tree[r] \ {t.parent[r]})
        IN  <<r>> \o FlattenSeq([i \in DOMAIN c |->
                         IF i = Len(c) THEN Reverse(f[c[i]]) ELSE f[c[i]]])
  IN  f[root]

(* The ranks before and after r in the ring. *)
get_ring(t) ==
  LET rlst == find_share_ring(t, 0)
      n == Len(rlst)
      At(r) == (CHOOSE i \in 1 .. n : rlst[i] = r) - 1
  IN  [r \in DOMAIN t.tree |-> <<rlst[((At(r) + n - 1) % n) + 1], rlst[((At(r) + 1) % n) + 1]>>]

(* The ranks numbered anew along the ring. *)
get_link_map(n) ==
  LET t == get_tree(n)
      ring == get_ring(t)
      walk[i \in 0 .. n - 1] == IF i = 0 THEN 0 ELSE ring[walk[i - 1]][2]
      rmap == [k \in 0 .. n - 1 |-> CHOOSE i \in 0 .. n - 1 : walk[i] = k]
  IN  [tree   |-> [i \in 0 .. n - 1 |-> {rmap[x] : x \in t.tree[walk[i]]}],
       parent |-> [i \in 0 .. n - 1 |-> IF walk[i] = 0 THEN -1 ELSE rmap[t.parent[walk[i]]]],
       ring   |-> [i \in 0 .. n - 1 |-> <<rmap[ring[walk[i]][1]], rmap[ring[walk[i]][2]]>>]]

(* nnset of assign_rank: whom the worker of a rank is to be linked with. *)
Links(map, rank) ==
  (map.tree[rank] \cup {map.ring[rank][1], map.ring[rank][2]}) \ {-1, rank}

----------------------------------------------------------------------------
VARIABLES
  slave,    \* per worker: what it does, its rank and the ranks it is linked with
  tracker,  \* the locals of accept_slaves, and whether an assertion has ended it
  faults    \* the failed connections and the broken links so far

vars == <<slave, tracker, faults>>

Init ==
  /\ slave = [s \in Slave |-> [pc |-> "new", rank |-> -1, links |-> {}]]
  /\ tracker = [map |-> None, todo |-> <<>>, pending |-> <<>>, batch |-> <<>>, serving |-> None,
                wait_conn |-> <<>>, shutdown |-> {}, ended |-> None]
  /\ faults = [errors |-> 0, breaks |-> 0]

Whole(s) == slave[s].rank # -1 /\ slave[s].links = Links(tracker.map, slave[s].rank)
Of(rank) == CHOOSE s \in Slave : slave[s].rank = rank

(* The workers (external). *)
Ask(s) ==
  /\ slave[s].pc \in {"new", "broken"}
  /\ slave' = [slave EXCEPT ![s].pc = "asking"]
  /\ UNCHANGED <<tracker, faults>>

Break(s, t) ==
  /\ faults.breaks < MaxBreaks
  /\ \A u \in Slave : slave[u].pc = "up" /\ Whole(u)
  /\ slave[t].rank \in slave[s].links /\ slave[s].rank < slave[t].rank
  /\ slave' = [slave EXCEPT ![s].pc = "broken", ![s].links = @ \ {slave[t].rank},
                            ![t].pc = "broken", ![t].links = @ \ {slave[s].rank}]
  /\ faults' = [faults EXCEPT !.breaks = @ + 1]
  /\ UNCHANGED tracker

Leave(s) ==
  /\ slave[s].pc = "up"
  /\ \A u \in Slave : slave[u].pc \in {"up", "leaving", "down"} /\ Whole(u)
  /\ slave' = [slave EXCEPT ![s].pc = "leaving"]
  /\ UNCHANGED <<tracker, faults>>

----------------------------------------------------------------------------
(* accept_slaves. *)

Accepts(s, pc) ==
  /\ slave[s].pc = pc
  /\ tracker.ended = None /\ tracker.serving = None /\ tracker.batch = <<>>
  /\ Cardinality(tracker.shutdown) # nslave

(* The pending workers by host, those of one host as they came. *)
Sorted(q) ==
  LET order == SetToSortSeq(DOMAIN q, LAMBDA i, j :
                 Host[q[i]] < Host[q[j]] \/ (Host[q[i]] = Host[q[j]] /\ i < j))
  IN  [i \in DOMAIN q |-> q[order[i]]]

(* A worker without a rank; the last of them sets off the assignment.        *)
AcceptStart(s) ==
  LET first == tracker.map = None
      todo == IF first THEN [i \in 1 .. nslave |-> i - 1] ELSE tracker.todo
      pending == Append(tracker.pending, s)
  IN  /\ Accepts(s, "asking") /\ slave[s].rank = -1
      /\ slave' = [slave EXCEPT ![s].pc = "pending"]
      /\ tracker' = [tracker EXCEPT
           !.map = IF first THEN get_link_map(nslave) ELSE @, !.todo = todo, !.pending = pending,
           !.batch = IF Len(pending) = Len(todo) THEN Sorted(pending) ELSE <<>>]
      /\ UNCHANGED faults

(* The next of the batch gets the next rank. *)
AssignNext ==
  LET s == Head(tracker.batch)
      rank == Head(tracker.todo)
  IN  /\ tracker.serving = None /\ tracker.batch # <<>>
      /\ tracker' = [tracker EXCEPT !.todo = Tail(@), !.batch = Tail(@), !.serving = s]
      /\ slave' = [slave EXCEPT ![s].pc = "served", ![s].rank = rank]
      /\ UNCHANGED faults

AcceptRecover(s) ==
  /\ Accepts(s, "asking") /\ slave[s].rank # -1
  /\ slave' = [slave EXCEPT ![s].pc = "served"]
  /\ tracker' = [tracker EXCEPT !.serving = s]
  /\ UNCHANGED faults

(* A turn of the loop of assign_rank: badset, and of it those that wait.     *)
Bad(s) == Links(tracker.map, slave[s].rank) \ slave[s].links
Conset(s) == Bad(s) \cap DOMAIN tracker.wait_conn

Connect(s, ok) ==
  [u \in Slave |->
     IF u = s THEN [slave[u] EXCEPT !.links = @ \cup ok]
     ELSE IF slave[u].rank \in ok THEN [slave[u] EXCEPT !.links = @ \cup {slave[s].rank}]
     ELSE slave[u]]

(* nerr # 0: what could be connected will be reported as good next time. *)
AssignFails(s) ==
  /\ tracker.serving = s
  /\ faults.errors < MaxErrors
  /\ \E ok \in SUBSET Conset(s) : ok # Conset(s) /\ slave' = Connect(s, ok)
  /\ faults' = [faults EXCEPT !.errors = @ + 1]
  /\ UNCHANGED tracker

(* Mutant: all the missing links are waited for, also those just made. *)
AssignRankAll(s) ==
  LET con == Conset(s)
      wait == [r \in DOMAIN tracker.wait_conn |->
                 IF r \in con THEN tracker.wait_conn[r] - 1 ELSE tracker.wait_conn[r]]
      left == {r \in DOMAIN wait : wait[r] # 0 \/ r \notin con}
      n == Cardinality(Bad(s))
      rank == slave[s].rank
  IN  /\ tracker.serving = s
      /\ slave' = [Connect(s, con) EXCEPT ![s].pc = "up"]
      /\ tracker' = [tracker EXCEPT !.serving = None,
           !.wait_conn = [r \in left \cup (IF n > 0 THEN {rank} ELSE {}) |->
                            IF r = rank /\ n > 0 THEN n ELSE wait[r]]]
      /\ UNCHANGED faults

(* nerr = 0: the others wait for one link less, and this one for those that  *)
(* nobody was there for yet.                                                 *)
AssignRank(s) ==
  LET con == Conset(s)
      wait == [r \in DOMAIN tracker.wait_conn |->
                 IF r \in con THEN tracker.wait_conn[r] - 1 ELSE tracker.wait_conn[r]]
      left == {r \in DOMAIN wait : wait[r] # 0 \/ r \notin con}
      n == Cardinality(Bad(s)) - Cardinality(con)
      rank == slave[s].rank
  IN  /\ tracker.serving = s
      /\ slave' = [Connect(s, con) EXCEPT ![s].pc = "up"]
      /\ tracker' = [tracker EXCEPT !.serving = None,
           !.wait_conn = [r \in left \cup (IF n > 0 THEN {rank} ELSE {}) |->
                            IF r = rank /\ n > 0 THEN n ELSE wait[r]]]
      /\ UNCHANGED faults

AcceptShutdown(s) ==
  LET rank == slave[s].rank
      wrong == rank \in tracker.shutdown \/ rank \in DOMAIN tracker.wait_conn
  IN  /\ Accepts(s, "leaving")
      /\ tracker' = [tracker EXCEPT !.ended = IF wrong THEN "assert" ELSE @,
                                    !.shutdown = IF wrong THEN @ ELSE @ \cup {rank}]
      /\ slave' = [slave EXCEPT ![s].pc = "down"]
      /\ UNCHANGED faults

Next ==
  \/ \E s \in Slave :
       \/ Ask(s) \/ Leave(s)
       \/ AcceptStart(s) \/ AcceptRecover(s) \/ AssignFails(s) \/ AssignRank(s) \/ AcceptShutdown(s)
  \/ \E s, t \in Slave : Break(s, t)
  \/ AssignNext

Spec == Init /\ [][Next]_vars

----------------------------------------------------------------------------
(* The links of a job are ones that both ends know of, they connect all of   *)
(* the workers by the parents, and the ring goes through the ranks in order. *)
MapSound(map) ==
  LET up[i \in 0 .. nslave] ==
        IF i = 0 THEN {0} ELSE up[i - 1] \cup {r \in 0 .. nslave - 1 : map.parent[r] \in up[i - 1]}
  IN  /\ \A r \in 0 .. nslave - 1 : \A q \in Links(map, r) : r \in Links(map, q)
      /\ \A r \in 1 .. nslave - 1 : map.parent[r] \in map.tree[r]
      /\ up[nslave] = 0 .. nslave - 1
      /\ \A r \in 0 .. nslave - 1 : map.ring[r] = <<(r + nslave - 1) % nslave, (r + 1) % nslave>>

(* wait_accept of a worker that waits is the number of links it still has to *)
(* get, whoever has come, gone and come back, and never do two wait for each *)
(* other: the tracker introduces everybody. Then no assertion ends it. Only  *)
(* a worker that failed to reach one of its hosts, and had reached another,  *)
(* leaves the count of that other one too high.                              *)
LinksMatch ==
  /\ tracker.map # None => MapSound(tracker.map)
  /\ faults.errors = 0 =>
       /\ tracker.ended = None
       /\ \A r \in DOMAIN tracker.wait_conn : tracker.wait_conn[r] = Cardinality(Bad(Of(r)))
       /\ \A q, r \in DOMAIN tracker.wait_conn : q \notin Bad(Of(r))
  /\ \A s \in Slave : slave[s].pc = "up" /\ ~ Whole(s) => slave[s].rank \in DOMAIN tracker.wait_conn
=============================================================================
