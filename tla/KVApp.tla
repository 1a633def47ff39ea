------------------------------- MODULE KVApp --------------------------------
(***************************************************************************)
(* Push, Pull and Wait of ps-lite: KVWorker with its Customer, KVServer     *)
(* with KVServerMLHandle, of which PushAll and PullAll: a push adds to the *)
(* value of a key, or creates it, and a pull of a key that does not exist  *)
(* fails a CHECK and ends the server.                                      *)
(*                                                                         *)
(* The threads that share a KVWorker ask requests.  A request gets a place *)
(* in tracker_ and a callback, is sliced by server, and goes out slice by  *)
(* slice; servers that get no slice are counted as answered beforehand.    *)
(* The receiver thread of the KVWorker's customer takes one response at a  *)
(* time: it stores what was pulled, runs the callback when the response is *)
(* the last one, and only then counts it and wakes the waiting threads.    *)
(*                                                                         *)
(* A server applies a slice and answers in one step: its customer has one  *)
(* receiver thread.  Messages are delivered once, in any order: slices and *)
(* responses of different servers race, and the queue of a customer is a   *)
(* priority queue.  Loss and repetition are module Resender's.  Callbacks  *)
(* here only fill the caller's vector: none asks a request of its own.     *)
(***************************************************************************)
EXTENDS Integers, FiniteSets

CONSTANTS Worker,      \* KVWorker objects
          Caller,      \* threads that use them
          Uses,        \* Uses[c]: the KVWorker of c
          NumServers,  \* num_servers_
          Key,
          Home,        \* Home[k]: the server whose key range holds k
          Request,     \* Request[w]: what w is asked for:
                       \* [kind |-> "push" or "pull", keys |-> a set]
          None,
          MaxRequests  \* MaxRequests[w]: bound on the requests of w

Server == 0 .. NumServers - 1
Id == UNION {{w} \X (0 .. MaxRequests[w] - 1) : w \in Worker}

ASSUME UsesAssumption == Uses \in [Caller -> Worker]
ASSUME ServersAssumption == NumServers \in Nat \ {0}
ASSUME HomeAssumption == Home \in [Key -> Server]
\* PullAll's callback reads kvs[0] and CHECKs that a server answers one key
AnyRequest == UNION {Request[w] : w \in Worker}
ASSUME RequestAssumption ==
  /\ AnyRequest \subseteq [kind : {"push", "pull"}, keys : SUBSET Key]
  /\ \A r \in AnyRequest : r.kind = "pull" =>
       r.keys # {} /\ \A k, l \in r.keys : Home[k] = Home[l] => k = l
ASSUME NoneAssumption == None \notin AnyRequest \cup Id
ASSUME MaxAssumption == MaxRequests \in [Worker -> Nat]

VARIABLES
  size,       \* size[w]: tracker_.size()
  got,        \* got[id]: tracker_[ts].second; tracker_[ts].first is NumServers
  ask,        \* ask[id]: the request, which its callback captures, or None
  callbacks,  \* the requests with an entry in callbacks_
  recv,       \* the slices in recv_kvs_, of every request
  pc, cur,    \* where a caller is, and in which request
  todo,       \* todo[c]: servers whose slice c has not sent yet
  woken,      \* sleeping callers that were notified
  reqs,       \* slices on the way to servers, as <<id, server>>
  resps,      \* responses on the way to, or in recv_queue_ of, customers
  aborted,    \* servers that ended in a CHECK
  hand,       \* hand[w]: the response the receiver thread of w has in hand, or None
  store,      \* store[k][id]: how often the push id was added to k
  vals,       \* vals[id]: what the callback filled into the caller's vector
  ran,        \* history: ran[id]: times the callback of id ran
  done,       \* history: requests whose Wait returned
  must        \* history: must[id]: the value of done when id was asked

customer == <<size, got, woken>>
worker == <<callbacks, recv>>
threads == <<pc, cur, todo>>
history == <<ran, done, must>>
vars == <<customer, ask, worker, threads, reqs, resps, aborted, hand, store, vals, history>>

Tally == [Id -> Nat]
Zero == [i \in Id |-> 0]
Owner(id) == id[1]

\* What was read of some keys
IsReading(v) == DOMAIN v \subseteq Key /\ v \in [DOMAIN v -> Tally]

\* A response: what server read of its slice of id (nothing for a push)
IsResponse(e) ==
  e = [id |-> e.id, server |-> e.server, vals |-> e.vals]
  /\ e.id \in Id /\ e.server \in Server /\ IsReading(e.vals)

\* DefaultSlicer: the keys of id that go to server s, and the servers with any
Slice(id, s) == {k \in ask[id].keys : Home[k] = s}
Sliced(r) == {Home[k] : k \in r.keys}

\* Mutant: one server too many is counted as skipped
SkippedOneMore(r) == NumServers - Cardinality(Sliced(r)) + 1

\* The servers that get no slice, which Send counts beforehand
Skipped(r) == NumServers - Cardinality(Sliced(r))

\* What a set of responses holds for each key
Merge(R) ==
  [k \in UNION {DOMAIN e.vals : e \in R} |->
     (CHOOSE e \in R : k \in DOMAIN e.vals).vals[k]]
Stored(id) == {e \in recv : e.id = id}

Init ==
  /\ size = [w \in Worker |-> 0]
  /\ got = [i \in Id |-> 0]
  /\ ask = [i \in Id |-> None]
  /\ callbacks = {} /\ recv = {}
  /\ pc = [c \in Caller |-> "idle"]
  /\ cur = [c \in Caller |-> None]
  /\ todo = [c \in Caller |-> {}]
  /\ woken = {}
  /\ reqs = {} /\ resps = {} /\ aborted = {}
  /\ hand = [w \in Worker |-> None]
  /\ store = [k \in Key |-> Zero]
  /\ vals = [i \in Id |-> Merge({})]
  /\ ran = [i \in Id |-> 0]
  /\ done = {}
  /\ must = [i \in Id |-> {}]

----------------------------------------------------------------------------
\* KVWorker::RunCallback, if there is a callback: that of a pull takes the
\* slices, recvd the last, out of recv_kvs_
RunCallback(id, recvd) ==
  IF id \in callbacks
    THEN /\ callbacks' = callbacks \ {id}
         /\ ran' = [ran EXCEPT ![id] = @ + 1]
         /\ recv' = {e \in recvd : e.id # id}
         /\ vals' = [vals EXCEPT ![id] = Merge({e \in recvd : e.id = id})]
    ELSE recv' = recvd /\ UNCHANGED <<callbacks, ran, vals>>

\* Mutant: servers without a slice are counted and sent an empty slice too
AskSendsAll(c, r) ==
  LET w == Uses[c]
      id == <<w, size[w]>>
  IN /\ pc[c] = "idle" /\ size[w] < MaxRequests[w]
     /\ size' = [size EXCEPT ![w] = @ + 1]
     /\ ask' = [ask EXCEPT ![id] = r]
     /\ must' = [must EXCEPT ![id] = done]
     /\ got' = [got EXCEPT ![id] = Skipped(r)]
     /\ todo' = [todo EXCEPT ![c] = Server]
     /\ callbacks' = callbacks \cup {id}
     /\ pc' = [pc EXCEPT ![c] = "send"]
     /\ cur' = [cur EXCEPT ![c] = id]
     /\ UNCHANGED <<woken, recv, reqs, resps, aborted, hand, store, vals, ran, done>>

\* Push / Pull up to the loop of Send: NewRequest, AddCallback, the slicer and
\* AddResponse, which does not notify.  No other thread knows the timestamp
\* before Push or Pull return it, and no slice is out, so nothing that another
\* thread does falls between them.
Ask(c, r) ==
  LET w == Uses[c]
      id == <<w, size[w]>>
  IN /\ pc[c] = "idle" /\ size[w] < MaxRequests[w]
     /\ size' = [size EXCEPT ![w] = @ + 1]
     /\ ask' = [ask EXCEPT ![id] = r]
     /\ must' = [must EXCEPT ![id] = done]
     /\ got' = [got EXCEPT ![id] = Skipped(r)]
     /\ todo' = [todo EXCEPT ![c] = Sliced(r)]
     /\ IF Skipped(r) = NumServers
          THEN \* the callback runs here; Push returns
               /\ ran' = [ran EXCEPT ![id] = @ + 1]
               /\ UNCHANGED <<callbacks, pc, cur>>
          ELSE /\ callbacks' = callbacks \cup {id}
               /\ pc' = [pc EXCEPT ![c] = "send"]
               /\ cur' = [cur EXCEPT ![c] = id]
               /\ UNCHANGED ran
     /\ UNCHANGED <<woken, recv, reqs, resps, aborted, hand, store, vals, done>>

\* One turn of the loop of Send, which goes by rank.  After the last one Push
\* or Pull return.
SendSlice(c, s) ==
  LET rest == todo[c] \ {s}
  IN /\ pc[c] = "send" /\ s \in todo[c] /\ \A t \in todo[c] : s <= t
     /\ todo' = [todo EXCEPT ![c] = rest]
     /\ reqs' = reqs \cup {<<cur[c], s>>}
     /\ IF rest = {}
          THEN pc' = [pc EXCEPT ![c] = "idle"] /\ cur' = [cur EXCEPT ![c] = None]
          ELSE UNCHANGED <<pc, cur>>
     /\ UNCHANGED <<customer, ask, worker, resps, aborted, hand, store, vals, history>>

Exists(k) == \E id \in Id : store[k][id] > 0

\* Mutant: a push replaces what is stored
ServeReplaces(id, s) ==
  LET K == Slice(id, s)
      push == ask[id].kind = "push"
  IN /\ <<id, s>> \in reqs /\ s \notin aborted
     /\ push \/ \A k \in K : Exists(k)
     /\ reqs' = reqs \ {<<id, s>>}
     /\ store' = IF push THEN [k \in Key |-> IF k \in K THEN [Zero EXCEPT ![id] = 1] ELSE store[k]]
                         ELSE store
     /\ resps' = resps \cup {[id |-> id, server |-> s,
                              vals |-> [k \in IF push THEN {} ELSE K |-> store[k]]]}
     /\ UNCHANGED <<customer, ask, worker, threads, aborted, hand, vals, history>>

\* KVServer::Process, KVServerMLHandle and KVServer::Response
Serve(id, s) ==
  LET K == Slice(id, s)
      push == ask[id].kind = "push"
  IN /\ <<id, s>> \in reqs /\ s \notin aborted
     /\ push \/ \A k \in K : Exists(k)
     /\ reqs' = reqs \ {<<id, s>>}
     /\ store' = IF push THEN [k \in Key |-> IF k \in K THEN [store[k] EXCEPT ![id] = @ + 1]
                                                       ELSE store[k]]
                         ELSE store
     /\ resps' = resps \cup {[id |-> id, server |-> s,
                              vals |-> [k \in IF push THEN {} ELSE K |-> store[k]]]}
     /\ UNCHANGED <<customer, ask, worker, threads, aborted, hand, vals, history>>

\* handlePull of a key without MatrixMeta_: the server ends, the slice stays
\* unanswered
Abort(id, s) ==
  /\ <<id, s>> \in reqs /\ s \notin aborted
  /\ ask[id].kind = "pull" /\ \E k \in Slice(id, s) : ~Exists(k)
  /\ aborted' = aborted \cup {s}
  /\ UNCHANGED <<customer, ask, worker, threads, reqs, resps, hand, store, vals, history>>

\* Mutant: the callback runs at the response before the last
ProcessEarly(w, e) ==
  LET recvd == recv \cup IF ask[e.id].kind = "pull" THEN {e} ELSE {}
  IN /\ hand[w] = None /\ e \in resps /\ Owner(e.id) = w
     /\ resps' = resps \ {e}
     /\ hand' = [hand EXCEPT ![w] = e.id]
     /\ IF got[e.id] = NumServers - 2
          THEN RunCallback(e.id, recvd)
          ELSE recv' = recvd /\ UNCHANGED <<callbacks, ran, vals>>
     /\ UNCHANGED <<customer, ask, threads, reqs, aborted, store, done, must>>

\* Customer::Receiving takes a response.  KVWorker::Process stores what it
\* holds and, if the count says it is the last one, runs the callback.
Process(w, e) ==
  LET recvd == recv \cup IF ask[e.id].kind = "pull" THEN {e} ELSE {}
  IN /\ hand[w] = None /\ e \in resps /\ Owner(e.id) = w
     /\ resps' = resps \ {e}
     /\ hand' = [hand EXCEPT ![w] = e.id]
     /\ IF got[e.id] = NumServers - 1
          THEN RunCallback(e.id, recvd)
          ELSE recv' = recvd /\ UNCHANGED <<callbacks, ran, vals>>
     /\ UNCHANGED <<customer, ask, threads, reqs, aborted, store, done, must>>

Asleep(c) == pc[c] = "asleep"

\* Mutant: a thread is notified only when nobody else sleeps
CountNotifiesOne(w) ==
  /\ hand[w] # None
  /\ got' = [got EXCEPT ![hand[w]] = @ + 1]
  /\ woken' = LET S == {c \in Caller : Uses[c] = w /\ Asleep(c)}
              IN woken \cup IF Cardinality(S) = 1 THEN S ELSE {}
  /\ hand' = [hand EXCEPT ![w] = None]
  /\ UNCHANGED <<size, ask, worker, threads, reqs, resps, aborted, store, vals, history>>

\* Customer::Receiving after the handler: the response is counted and the
\* waiting threads are notified
Count(w) ==
  /\ hand[w] # None
  /\ got' = [got EXCEPT ![hand[w]] = @ + 1]
  /\ woken' = woken \cup {c \in Caller : Uses[c] = w /\ Asleep(c)}
  /\ hand' = [hand EXCEPT ![w] = None]
  /\ UNCHANGED <<size, ask, worker, threads, reqs, resps, aborted, store, vals, history>>

\* Mutant: one answer may be missing
FinishedEarly(id) == got[id] >= NumServers - 1

\* The predicate of WaitRequest
Finished(id) == got[id] = NumServers

\* Customer::WaitRequest, by a thread that has the timestamp from the one that
\* asked: the predicate is tested before the thread sleeps ..
Wait(c, id) ==
  /\ pc[c] = "idle" /\ Owner(id) = Uses[c]
  /\ ask[id] # None /\ ~\E d \in Caller : pc[d] = "send" /\ cur[d] = id
  /\ IF Finished(id)
       THEN done' = done \cup {id} /\ UNCHANGED <<pc, cur>>
       ELSE /\ pc' = [pc EXCEPT ![c] = "asleep"]
            /\ cur' = [cur EXCEPT ![c] = id]
            /\ UNCHANGED done
  /\ UNCHANGED <<customer, ask, worker, todo, reqs, resps, aborted, hand, store, vals, ran, must>>

\* .. and again whenever it is notified
Wake(c) ==
  /\ c \in woken
  /\ woken' = woken \ {c}
  /\ IF Finished(cur[c])
       THEN /\ done' = done \cup {cur[c]}
            /\ pc' = [pc EXCEPT ![c] = "idle"]
            /\ cur' = [cur EXCEPT ![c] = None]
       ELSE UNCHANGED <<done, pc, cur>>
  /\ UNCHANGED <<size, got, ask, worker, todo, reqs, resps, aborted, hand, store, vals, ran, must>>

Next ==
  \/ \E c \in Caller : \E r \in Request[Uses[c]] : Ask(c, r)
  \/ \E c \in Caller, s \in Server : SendSlice(c, s)
  \/ \E id \in Id, s \in Server : Serve(id, s)
  \/ \E id \in Id, s \in Server : Abort(id, s)
  \/ \E w \in Worker : \E e \in resps : Process(w, e)
  \/ \E w \in Worker : Count(w)
  \/ \E c \in Caller, id \in Id : Wait(c, id)
  \/ \E c \in Caller : Wake(c)

Spec == Init /\ [][Next]_vars

(* Threads run, servers handle every slice and a queue hands out whatever   *)
(* response it holds.  No thread is obliged to ask or to wait.              *)
FairSpec ==
  /\ Spec
  /\ \A c \in Caller :
       /\ \A s \in Server : WF_vars(SendSlice(c, s))
       /\ WF_vars(Wake(c))
  /\ \A id \in Id, s \in Server : WF_vars(Serve(id, s) \/ Abort(id, s))
  /\ \A w \in Worker :
       /\ WF_vars(\E e \in resps : Process(w, e))
       /\ WF_vars(Count(w))

----------------------------------------------------------------------------
TypeOK ==
  /\ size \in [Worker -> Nat]
  /\ got \in [Id -> 0 .. NumServers]
  /\ ask \in [Id -> AnyRequest \cup {None}]
  /\ callbacks \subseteq Id
  /\ \A e \in recv : IsResponse(e)
  /\ pc \in [Caller -> {"idle", "send", "asleep"}]
  /\ cur \in [Caller -> Id \cup {None}]
  /\ todo \in [Caller -> SUBSET Server]
  /\ woken \subseteq Caller
  /\ reqs \subseteq Id \X Server
  /\ \A e \in resps : IsResponse(e)
  /\ aborted \subseteq Server
  /\ hand \in [Worker -> Id \cup {None}]
  /\ store \in [Key -> Tally]
  /\ DOMAIN vals = Id /\ \A id \in Id : IsReading(vals[id])
  /\ ran \in [Id -> Nat]
  /\ done \subseteq Id
  /\ must \in [Id -> SUBSET Id]

(* When Wait may return, the request has had its effect: each key of a push *)
(* was added once, and a pull has filled the caller's vector with all its   *)
(* keys; its callback has run, once, and no slice or callback is left       *)
(* behind (kv_app.h:168-170: vals "is filled with pulled values, only if    *)
(* Wait returns or the callback is called").                                *)
WaitMeansDone ==
  \A id \in Id : Finished(id) =>
     /\ ran[id] = 1 /\ id \notin callbacks /\ Stored(id) = {}
     /\ ask[id].kind = "push" => \A k \in ask[id].keys : store[k][id] = 1
     /\ ask[id].kind = "pull" => DOMAIN vals[id] = ask[id].keys

(* A callback runs when every server has answered and, for a pull, finds    *)
(* the slices of all keys: the CHECK "lost some servers?" holds.            *)
CallbackSeesAll ==
  \A id \in Id : ran[id] > 0 =>
     /\ \A s \in Server : <<id, s>> \notin reqs
     /\ \A e \in resps : e.id # id
     /\ ask[id].kind = "pull" => DOMAIN vals[id] = ask[id].keys

\* What has been read for the pull id, wherever the slices are
Read(id) == IF ran[id] > 0 THEN vals[id] ELSE Merge({e \in resps \cup recv : e.id = id})

\* Servers that have not served their slice of id
Unserved(id) ==
  {s \in Server : <<id, s>> \in reqs}
    \cup UNION {todo[c] : c \in {d \in Caller : pc[d] = "send" /\ cur[d] = id}}

\* The keys id has still to touch
Left(id) == IF ask[id] = None THEN {} ELSE {k \in ask[id].keys : Home[k] \in Unserved(id)}

\* The tally the pull id has of k
Seen(id, k) == IF k \in DOMAIN Read(id) THEN Read(id)[k] ELSE Zero

Remaining == [id \in Id |-> Left(id)]
Returned == [id \in Id |-> [k \in Key |-> Seen(id, k)]]

(* The layer implements its abstract specification.                         *)
Abs == INSTANCE KVSpec WITH Request <- AnyRequest, left <- Remaining, read <- Returned

AbsSpec == Abs!Spec

(* Each key of a push is added by the server that serves its slice, once.   *)
AddedOnce == Abs!AddedOnce

(* A pull returns every push that was known to be done, to any thread, when *)
(* the pull was asked.                                                      *)
ReadsSeeDone == Abs!ReadsSeeDone

(* A pull asked when another was known to be done returns for no key less.  *)
ReadsGrow == Abs!ReadsGrow

(* A thread that waits for a request returns, unless a server has ended.    *)
EveryWaitReturns == \A c \in Caller : Asleep(c) ~> ~Asleep(c) \/ aborted # {}

=============================================================================
