--------------------------------- MODULE Job -------------------------------
(* A training job from the start barrier to the end of its processes: the    *)
(* programs that the threads run (algorithm/DistML, model and examples), the *)
(* barriers between their steps, their requests to the servers, and what     *)
(* Postoffice::Finalize and Van::Stop take down while others still run.      *)
(*                                                                           *)
(* Every thread goes through a script, customer 0 of a worker through that   *)
(* of the training program, whose client and barriers are customer 0's. More *)
(* customers of a worker are further threads that do the same on customers   *)
(* of their own, as tests/local_multi_workers.sh runs the library.           *)
(*                                                                           *)
(* The barrier is module Barrier's. Of a request the model keeps one message *)
(* to and one from each server; how they are sliced, counted and merged is   *)
(* module KVApp's, what the numbers in a matrix become is Matrix's, and that *)
(* all processes know each other by now is Membership's.                     *)
EXTENDS Barrier, Sequences

CONSTANT Iterations  \* n_iterations of LogisticRegression.fit

All == Roles
Workers == {"worker"}

ASSUME JobAssumption ==
  /\ {All, Workers} \subseteq Group
  /\ Iterations \in Nat
  /\ \A p \in Proc : 0 \in Customers[p] /\ (Role[p] # "worker" => Customers[p] = {0})
  /\ None \notin {"no app", "no handle", "no matrix"}
(* Where there is but one worker its barriers return at once, which Enter    *)
(* leaves out.                                                               *)
ASSUME WorkersAssumption == Cardinality(Member[Workers]) > 1

Server == {p \in Proc : Role[p] = "server"}
WorkerThread == {t \in Thread : Role[t[1]] = "worker"}

----------------------------------------------------------------------------
(* The scripts. *)

(* Mutant: pushAll without its barrier. *)
pushAllAlone == <<"push", "wait">>

pushAll == <<"push", "wait", "workers">>
pullAll == <<"pull", "wait", "workers">>

(* fit pushes, then in each iteration pulls and pushes, and predict pulls:   *)
(* it is a push and a pull in turn, one time more than there are iterations. *)
Turn == pushAll \o pullAll
Fit == [k \in 1 .. Len(Turn) * (Iterations + 1) |-> Turn[((k - 1) % Len(Turn)) + 1]]

(* Mutant: Finalize without its barrier. *)
FinalizeAlone(c) == IF c = 0 THEN <<"stop", "clear">> ELSE <<>>

(* Finalize, and the destructor of the customer: the exit callback deletes   *)
(* the KVServer, a worker's client goes with the process.                    *)
Finalize(c) == <<"all">> \o (IF c = 0 THEN <<"stop", "clear">> ELSE <<>>)

Script == [t \in Thread |->
  CASE Role[t[1]] = "scheduler" -> <<"all">> \o Finalize(t[2])
    [] Role[t[1]] = "server" -> <<"all", "create", "handle">> \o Finalize(t[2]) \o <<"destroy">>
    [] Role[t[1]] = "worker" -> <<"all", "create">> \o Fit \o Finalize(t[2]) \o <<"destroy">>]

VARIABLES
  pc,       \* per thread: where in its script it is
  app,      \* per thread: its customer, and for a server whether it has a handle
  net,      \* the requests that are not counted as answered yet, with where they are
  busy,     \* per process: the request ProcessDataMsg waits with, or None
  store,    \* per server: the pushes it has added
  read,     \* per worker thread and server: its last pull and what it found
  stopped,  \* the processes whose van has stopped
  lost,     \* the processes to which a response was not sent any more
  failed    \* per process: the CHECK that ended it, or None

jobVars == <<vars, pc, app, net, busy, store, read, stopped, lost, failed>>

JobInit ==
  /\ Init
  /\ pc = [t \in Thread |-> 1]
  /\ app = [t \in Thread |-> "none"]
  /\ net = {}
  /\ busy = [p \in Proc |-> None]
  /\ store = [s \in Server |-> {}]
  /\ read = [t \in WorkerThread |-> [s \in Server |-> [op |-> 0, pushes |-> {}]]]
  /\ stopped = {} /\ lost = {}
  /\ failed = [p \in Proc |-> None]

Alive(p) == failed[p] = None
Running(p) == Alive(p) /\ p \notin stopped
Doing(t, op) == pc[t] \in DOMAIN Script[t] /\ Script[t][pc[t]] = op /\ Alive(t[1])
Step(t) == pc' = [pc EXCEPT ![t] = @ + 1]
Done(t) == pc[t] > Len(Script[t])

Fail(p, why) == failed' = [failed EXCEPT ![p] = why]

----------------------------------------------------------------------------
(* Barriers. *)

EnterBarrier(t) ==
  /\ \/ Doing(t, "all") /\ Enter(t, All)
     \/ Doing(t, "workers") /\ Enter(t, Workers)
  /\ UNCHANGED <<pc, app, net, busy, store, read, stopped, lost, failed>>

LeaveBarrier(t) ==
  /\ Alive(t[1])
  /\ Leave(t)
  /\ Step(t)
  /\ UNCHANGED <<app, net, busy, store, read, stopped, lost, failed>>

Scheduler == CHOOSE p \in Proc : Role[p] = "scheduler"

CountBarrier(t, g) ==
  /\ Running(Scheduler)
  /\ CountRequest(t, g)
  /\ UNCHANGED <<pc, app, net, busy, store, read, stopped, lost, failed>>

(* A response waits while the receiving thread waits in ProcessDataMsg.      *)
ManageBarrier(p) ==
  /\ Running(p) /\ busy[p] = None
  /\ Manage(p)
  /\ UNCHANGED <<pc, app, net, busy, store, read, stopped, lost, failed>>

----------------------------------------------------------------------------
(* Customers. The barrier of Start has left the entry of barrier_done_ that  *)
(* AddCustomer would insert.                                                 *)

Create(t) ==
  /\ Doing(t, "create")
  /\ app' = [app EXCEPT ![t] = "created"]
  /\ Step(t)
  /\ UNCHANGED <<vars, net, busy, store, read, stopped, lost, failed>>

(* startServer: the customer's thread already runs when the handle is set.   *)
SetHandle(t) ==
  /\ Doing(t, "handle")
  /\ app' = [app EXCEPT ![t] = "handling"]
  /\ Step(t)
  /\ UNCHANGED <<vars, net, busy, store, read, stopped, lost, failed>>

(* What is in the ThreadsafePQueue of a server's customer. Its comparison is *)
(* no order for messages of one priority, and all have one: any of them may  *)
(* be the next that WaitAndPop returns.                                      *)
Queue(s) == {m \in net : m.server = s /\ m.where = "queued"}

(* From here on GetCustomer does not find the customer. *)
RemoveCustomer(t) == app' = [app EXCEPT ![t] = "destroyed"]

(* ~Customer: out of customers_, then TERMINATE into the queue, which may    *)
(* give it out before anything else that is in it; that is then lost.        *)
Destroy(t) ==
  /\ Doing(t, "destroy")
  /\ RemoveCustomer(t)
  /\ net' = net \ Queue(t[1])
  /\ Step(t)
  /\ UNCHANGED <<vars, busy, store, read, stopped, lost, failed>>

----------------------------------------------------------------------------
(* Requests. *)

Request(t) ==
  /\ Doing(t, "push") \/ Doing(t, "pull")
  /\ net' = net \cup {[from |-> t, server |-> s, op |-> pc[t], where |-> "sent"] : s \in Server}
  /\ Step(t)
  /\ UNCHANGED <<vars, app, busy, store, read, stopped, lost, failed>>

Wait(t) ==
  /\ Doing(t, "wait")
  /\ \A m \in net : ~ (m.from = t /\ m.op = pc[t] - 1)
  /\ Step(t)
  /\ UNCHANGED <<vars, app, net, busy, store, read, stopped, lost, failed>>

Moved(m, where) == (net \ {m}) \cup {[m EXCEPT !.where = where]}
HasApp(s) == app[<<s, 0>>] \in {"created", "handling"}

(* ProcessDataMsg at a server: GetCustomer finds the application, or looks   *)
(* for it for five seconds, in the only thread that reads messages.          *)
ReceiveRequest(m) ==
  LET s == m.server IN
  /\ m.where = "sent" /\ Running(s) /\ busy[s] = None
  /\ IF HasApp(s) THEN net' = Moved(m, "queued") /\ busy' = busy
     ELSE net' = Moved(m, "held") /\ busy' = [busy EXCEPT ![s] = m.from]
  /\ UNCHANGED <<vars, pc, app, store, read, stopped, lost, failed>>

FindApp(m) ==
  /\ m.where = "held" /\ Running(m.server) /\ HasApp(m.server)
  /\ net' = Moved(m, "queued")
  /\ busy' = [busy EXCEPT ![m.server] = None]
  /\ UNCHANGED <<vars, pc, app, store, read, stopped, lost, failed>>

GiveUpOnApp(m) ==
  /\ m.where = "held" /\ Running(m.server) /\ ~ HasApp(m.server)
  /\ Fail(m.server, "no app")
  /\ UNCHANGED <<vars, pc, app, net, busy, store, read, stopped, lost>>

(* KVServer::Process, for any of the queued requests. *)
Serve(m) ==
  LET s == m.server
      op == Script[m.from][m.op]
  IN  /\ m \in Queue(s) /\ Alive(s)
      /\ IF app[<<s, 0>>] # "handling" THEN Fail(s, "no handle") /\ UNCHANGED <<net, store, read>>
         ELSE IF op = "push" THEN
           /\ store' = [store EXCEPT ![s] = @ \cup {<<m.from, m.op>>}]
           /\ net' = Moved(m, "answered")
           /\ UNCHANGED <<read, failed>>
         ELSE IF store[s] = {} THEN Fail(s, "no matrix") /\ UNCHANGED <<net, store, read>>
         ELSE
           /\ read' = [read EXCEPT ![m.from][s] = [op |-> m.op, pushes |-> store[s]]]
           /\ net' = Moved(m, "answered")
           /\ UNCHANGED <<store, failed>>
      /\ UNCHANGED <<vars, pc, app, busy, stopped, lost>>

(* ProcessDataMsg and Customer::Receiving at the worker. *)
ReceiveAnswer(m) ==
  /\ m.where = "answered" /\ Running(m.from[1]) /\ app[m.from] = "created"
  /\ net' = net \ {m}
  /\ UNCHANGED <<vars, pc, app, busy, store, read, stopped, lost, failed>>

----------------------------------------------------------------------------
(* Finalize. *)

(* What a process has sent and may not be out yet: it is in the send_queue_  *)
(* of P3Van, whose thread takes from it in no order, or in a socket.         *)
SentResponses(p) == IF p = Scheduler THEN resps ELSE {}
SentBarriers(p) == {r \in reqs : r[1][1] = p}
SentData(p) ==
  {m \in net : (m.from[1] = p /\ m.where = "sent") \/ (m.server = p /\ m.where = "answered")}

(* The sockets are closed with no linger, and the sending thread of P3Van    *)
(* ends at TERMINATE, which may come out of its queue first.                 *)
CloseSockets(p) ==
  \E R \in SUBSET SentResponses(p), Q \in SUBSET SentBarriers(p), M \in SUBSET SentData(p) :
    resps' = resps \ R /\ lost' = lost \cup R /\ reqs' = reqs \ Q /\ net' = net \ M

(* Van::Stop waits for the thread that reads messages before it closes. *)
Stop(t) ==
  LET p == t[1] IN
  /\ Doing(t, "stop") /\ busy[p] = None
  /\ stopped' = stopped \cup {p}
  /\ CloseSockets(p)
  /\ Step(t)
  /\ UNCHANGED <<at, keys, done, bcount, history, app, busy, store, read, failed>>

(* What else Finalize clears of use to a thread: barrier_done_, without the  *)
(* lock. Another customer of the process that has not woken yet then reads a *)
(* new entry, which is false.                                                *)
Clear(t) ==
  LET p == t[1] IN
  /\ Doing(t, "clear")
  /\ keys' = [keys EXCEPT ![p] = {}]
  /\ done' = {d \in done : d[1] # p}
  /\ Step(t)
  /\ UNCHANGED <<at, netVars, bcount, history, app, net, busy, store, read, stopped, lost, failed>>

----------------------------------------------------------------------------
JobNext ==
  \/ \E t \in Thread :
       \/ EnterBarrier(t) \/ LeaveBarrier(t)
       \/ Create(t) \/ SetHandle(t) \/ Destroy(t)
       \/ Request(t) \/ Wait(t)
       \/ Stop(t) \/ Clear(t)
  \/ \E t \in Thread, g \in Group : CountBarrier(t, g)
  \/ \E p \in Proc : ManageBarrier(p)
  \/ \E m \in net :
       ReceiveRequest(m) \/ FindApp(m) \/ GiveUpOnApp(m) \/ Serve(m) \/ ReceiveAnswer(m)

JobSpec == JobInit /\ [][JobNext]_jobVars

----------------------------------------------------------------------------
(* Synchronous training: whatever order threads, messages and queues go in,  *)
(* what a pull finds at a server are the pushes that every worker has made   *)
(* before it in its program, all of them and none of a later round.          *)
Before(op) == {u \in WorkerThread \X (1 .. op - 1) : Script[u[1]][u[2]] = "push"}
RoundsAreSynchronous ==
  \A t \in WorkerThread, s \in Server :
    /\ read[t][s].op # 0 => read[t][s].pushes = Before(read[t][s].op)
    /\ failed[s] # "no matrix"

(* The barriers make it safe to stop with no linger and to overtake what is  *)
(* queued: when a process has stopped, nothing that it sent or that is for   *)
(* it is under way, but for the scheduler's responses; and by the time the   *)
(* store of a server goes nobody is left who reads it.                       *)
QuietStop ==
  \A p \in stopped :
    /\ \A m \in net : m.from[1] # p /\ m.server # p
    /\ \A r \in reqs : r[1][1] # p /\ p # Scheduler
    /\ p \notin resps
    /\ \A t \in WorkerThread : at[t] \in {None, All} /\ pc[t] > Len(Script[t]) - Len(Finalize(t[2])) - 1
=============================================================================
