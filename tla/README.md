# A verification development for ML-ps / ps-lite

ML-ps is a parameter server: a fork of ps-lite with a layer for matrices and a small training
framework on top. This directory holds TLA+ modules translated from its code, the TLC models
that check them on small instances, and proofs, checked by TLAPS, that hold for all values of
the constants. Paths below are relative to `src/ps-lite/` unless they start otherwise.

    tlc -workers 2 -config MCBarrier.cfg MCBarrier.tla     model-check one run
    tlapm BarrierProofs.tla                                check one module of proofs

## 1. The system

A job is one scheduler, some servers and some workers. A process has one `Postoffice` and one
`Van`. Each of its customer threads counts as a *node* of the job; the threads of a worker
process share an address and a socket. `Van` moves messages and has one receiver thread
(`Van::Receiving`), which handles control messages itself and puts data messages into the queue
of a `Customer`. Each customer has a receiver thread of its own that runs the application's
handler: `KVWorker::Process` or `KVServer::Process`.

| part | state | operations | talks to |
|---|---|---|---|
| Barrier: `src/postoffice.cc:155-216`, `src/van.cc:191-219` | `barrier_done_`, `barrier_mu_`, the scheduler's `barrier_count_` | `Barrier`, `ProcessBarrierCommand`, `Manage` | messages BARRIER through the van; a condition variable between the van's thread and the callers |
| Retransmission: `src/resender.h`, `src/van.cc:388-443` | `send_buff_`, `acked_`, the monitor's list | `AddOutgoing`, `AddIncomming`, `Monitoring` | every message passes it both ways |
| Key-value requests: `include/ps/kv_app.h`, `src/customer.cc` | `tracker_`, `callbacks_`, `recv_kvs_`, the server's `MatrixMeta_` | `Push`, `Pull`, `Wait`, the slicer, `Send`, `Process`, `Receiving`, `RunCallback`, the handle | messages through the van; calls of the caller, the customer's thread and the callbacks share the tracker |
| Membership: `src/van.cc:49-155, 221-262, 275-360`, `src/zmq_van.h:96-175` | the scheduler's `nodes`, `recovery_nodes`, `shared_node_mapping_`, `connected_nodes_`, `senders_`, `heartbeats_` | registration, `ProcessAddNodeCommand`, `UpdateLocalID`, `GetDeadNodes`, `Connect`, `SendMsg` | decides the ids that barriers, requests and keys of `Resender` use |
| Life cycle: `Postoffice::Start`, `Finalize`, `AddCustomer`, `GetCustomer`, `Van::Stop`, `~Customer` | `customers_`, `init_stage_`, `ready_` | start, finalize, creation and removal of customers | begins and ends with a barrier of everybody |
| Matrix layer: `include/psf/Partition/RowPartition.h`, `include/psf/client/client.h`, the row and column functions in `kv_app.h` | `MatrixToPS`, the matrices of the servers | partition rows over servers, name partitions by keys, push and pull rows, columns, all | calls `KVWorker` |
| Training: `algorithm/DistML/*.cpp`, `algorithm/model/logistic_regression.py` | the weights of a worker | `pushAll`, `pullAll`, each with a barrier of the workers | calls the matrix layer and `Barrier` |
| SimpleApp: `include/ps/simple_app.h` | a customer's tracker | `Request`, `Response`, `Wait` | as key-value requests, without keys |
| Transports: `zmq_van.h`, `p3_van.h`, `ibverbs_van.h`, `threadsafe_pqueue.h` | sockets, send and receive queues, memory pools | `Connect`, `SendMsg`, `RecvMsg` | below `Van` |
| Message encoding: `PackMeta`, `UnpackMeta`, `meta.proto` | none | conversions | `Van` |
| Launcher: `tracker/` | the links of `RabitTracker`, environment variables | starts processes | outside the running job |

`include/psf/Matrix`, `psf/Model`, `psf/comm`, `psf/psf/base` and three headers of `psf/server`
are included by no program and are left out, as are the vendored dmlc and pybind11 headers.

**What is hard**, and what makes each part correct:

* *Barrier.* One response wakes all the threads of a process, with no word of the group or the
  customer it is for, and flags stay true after use. Nobody may return before everybody has
  entered; counts of overlapping groups and successive rounds must not mix; everybody must
  return.
* *Retransmission.* A message is buffered after it has been sent, so its acknowledgement may
  come first; the monitor resends from a list taken before the lock was released; keys may
  collide; the resender itself comes into being while messages are already handled. A message
  must be handled at most once and must not vanish.
* *Requests.* Responses race with each other, with the threads that ask and the ones that wait;
  the callback runs *before* the last response is counted; servers without keys are counted
  in advance and without a notification. `Wait` must mean that the request had its effect, and
  must end.
* *Membership.* Two threads share an address but take two ranks; registrations come in any
  order and from processes that die; a replacement takes over an id for which others still hold
  a socket. Ids must be unique, cover the groups, and lead to the process that has them now.
* *Life cycle.* Flags are cleared without the lock, a message may arrive for a customer that is
  being made, sockets close with what was sent last still in them, a recovered process enters the
  start barrier alone. When a process stops, nobody may still need it; every job must end.
* *Matrix and training.* Partitions must cover a matrix once, keys must agree between push and
  pull and between clients, every pull of a training step must see every worker's push.
* *RDMA.* Senders, the polling thread and the holders of delivered arrays share one pool of
  memory; contexts, receives, buffers and indices are all finite and waited for. Each block must
  have one owner, each message its own bytes, and nobody may wait for what only it could give.
* *Encoding.* What is packed must be what is unpacked; the place of an array in a message is all
  that says what it is.
* *Launcher.* The tracker counts, for each worker that waits, the links it still has to get, while
  workers come, fail, break and come back.

`PROJECT.json` lists each hazard at its line with the property that covers it, or says why none does.

## 2. The modules

    BarrierSpec   <--implements--  Barrier     BarrierProofs    MCBarrier, MCBarrierIds
    KVSpec        <--implements--  KVApp       KVAppProofs      MCKVApp, MCKVWait
                                   Resender    ResenderProofs   MCResender, MCResenderKeys
                                   Membership   MembershipProofs  MCMembership, MCRecovery
    MatrixServer  <--extends--     Matrix      MatrixProofs     MCMatrix
    Mempool       <--extends--     Rdma        RdmaProofs       MCRdma      (and two more, below)
    Wire          <--extends--     Requests    KVAppProofs      (operators; Rdma uses Wire)
    Barrier       <--extends--     Job  <--extends--  Submit    MCSubmit  (BarrierProofs is about both)
                                   Tracker  <--instance--  Submit

The proofs about `Rdma` are in three modules, each of which extends the one before: `RdmaProofs`,
`RdmaLanesProofs`, `RdmaOrderProofs`. Definitions that begin with a comment
`Mutant:` are deliberately wrong variants of the definition after them. No specification uses
one; substituted for that definition, each makes TLC report the property `PROJECT.json` names
with it, which shows that the property depends on the code it is about.

### Barrier, BarrierSpec

`BarrierSpec` is the promise: threads enter, a group whose members are all in the call is set
free in one step, free threads leave. It has no message, counter or flag. `begun` and `ended`
count calls and are what a caller can observe.

`Barrier` is the protocol. `keys[p]` and `done` are `barrier_done_[0]` of a process (which
entries exist, which are true), `bcount` is the scheduler's `barrier_count_`, `reqs` and `resps`
the messages. `Enter` is `Postoffice::Barrier` up to its wait, one step because `barrier_mu_` is
held and `Manage` takes it too; `CountRequest` is `ProcessBarrierCommand`; `Manage` is the loop
over `0 .. size-1`, which *creates* entries; `Leave` is the end of the wait. `AddCustomer`
creates an entry, at any time before or between calls.

Messages of the barrier are not lost here; that is `Resender`'s matter, and without `PS_RESEND`
the transport's. The response loop is one step: only the scheduler's receiver thread sends
responses, and none of its other steps depends on a part of them.

### Resender

One `wire[m]` counts the copies of a message in flight and `acks[m]` the acknowledgements;
both transport directions may reorder. `Send` and `AddOutgoing` are separate steps, because
`Van::Send` calls `AddOutgoing` after `SendMsg`. `Timeout` is one pass of `Monitoring` under the
lock; the entries it found late are sent by `Resend` later, each again followed by
`AddOutgoing`, as in `Van::Send`. `Receive` is `AddIncomming` for a message and `ReceiveAck` for
an acknowledgement, each only with effect once `StartResender` has created the resender;
`Process` is the handler. `Lose` and `LoseAck` are the drop by `PS_DROP_MSG` in `Van::Receiving`,
the only loss the code produces itself, and what is addressed to a process that has ended.
`GetKey` has the packing of the code, its field widths and its sign extension, and leaves out
what the code leaves out: the customer.

### KVApp, KVSpec

`KVSpec` is the promise: a store that adds up pushes, in which a request touches its keys in any
portions, is known to be done only when it has touched all, and a pull returns for a key what
was there when it touched it. To make sums checkable, the value of a key is a *tally*: how often
each push was added to it. Addition of numbers is a function of the tally.

`KVApp` is the protocol. `Ask` is `Push`/`Pull` up to the loop of `Send`: `NewRequest`,
`AddCallback`, the slicer and `AddResponse`. The steps inside it are not interleaved with others
because no other thread can refer to the new timestamp yet. `SendSlice` is a turn of the loop.
`Serve` is the handler of the server; `Abort` the CHECK that a pull of an unknown key fails.
`Process` is `KVWorker::Process` with `RunCallback`, and `Count` what `Customer::Receiving` does
after it: count and notify. Between the two, threads ask, wait and wake. `Wait` and `Wake` are
the two ends of the condition variable in `WaitRequest`; any thread may wait for any request,
since Wait takes the timestamp from wherever.

Modelled of the server's handle are PushAll and PullAll, whose bodies differ only in adding to
or reading from the stored matrix. As `PullAll`'s callback CHECKs, a server answers a pull with
one key, so a pull has one key per server. Messages arrive in any order and once.

### Membership

One place in `nodes` per registered thread. `Register` is a thread in `Van::Start` sending
ADD_NODE; `JoinEarly`, `JoinLast` and `JoinLate` are the three branches of
`UpdateLocalID`/`ProcessAddNodeCommandAtScheduler`: collecting, numbering and announcing,
recovering. `Update` is `ProcessAddNodeCommand` on a node. `Crash` is the end of a process,
`Expire` the point at which `GetDeadNodes` first lists it. `shared` is
`shared_node_mapping_`'s domain: these ids have no socket and, as no heartbeat is ever recorded
for them, count as dead from the start; `Told` shows that the recovery broadcast relies on it.
`Broadcast` models `SendMsg`'s failure without a socket and the CHECK that then ends the
scheduler.

Heartbeats are abstracted to their timeout: `Beats` is who sends one and for which id, `Renewing`
whose time the scheduler renews by it, and the time of an id nobody renews runs out at some point.
The model so assumes that a running process is never suspected. Addresses are distinct, which
`ZMQVan::Bind` ensures by trying ports (`AddressesDistinct`); a replacement has one of its own.

### MatrixServer, Matrix

`MatrixServer` has the handle of the servers as operators on one stored part of a matrix:
`Pushed` and `PushFails` for pushes, `handlePull` with a function for each type of pull, and
`PullFails` for its CHECKs. `Matrix` has the clients: `RowPartition` deals rows out, `FindKey`
names parts by the start of the server's range plus the client's own number of the matrix, and
`DefaultSlicer` sends each key to the server whose range it is in. An operator ending in
`Slices` is a call of `Client` up to its `KVWorker` request. `PushAll`, `PushRow` and `PullMatrix`
ask, `Serve` is one server's turn at one slice, and `Return` the callback with its CHECK on the
size of the caller's vector and the end of `Wait`. Between them other clients ask and are served.
`asked[c]` is the call of a client with what of it waits to be served and what has come back, and
`log[c]` the calls that have returned; `ClientsAgree` is finding 8: keys mean the same matrices to all
clients, and nobody pushes a row of a matrix that it had not pushed before.

Elements are integers, so that the reference (`At`) is a sum of what was pushed: the code adds
floats, whose rounding depends on the order. What the client does with a matrix it has never
pushed is undefined in the code (it indexes an empty map entry), and only calls that avoid it are
made, except for `PushRow`, which then takes the key 0, as the code does.

### Wire, Requests

Operators without a state machine, for the proofs and for `Rdma`. `Wire` has the two packing
functions and the unpacking one, as the set of fields of the protobuf message they set and read;
and ZMQVan's frames, with libzmq's ROUTER socket, which puts the sender's identity first, as
`Routed` (external). `Requests` has what `pushAll` and `pullAll` ask for, the pairs that `KVWorker::Push`
and `Pull` make of it, the slice of them that one server gets (`Segment`; where the cuts are is
`Matrix`'s), what `KVWorker::Send` and `KVServer::Response` put into a message, and what `KVServer::Process`, the handle and `KVWorker::Process` read, by the number and
place of the arrays, with their CHECKs; and SimpleApp's messages.

### Mempool, Rdma

`Mempool` is `SimpleMempool`: regions, best fit, splitting, growth. The place of a new region is
the allocator's choice. `Rdma` is `IBVerbsVan`: `Bind`, `Connect` and the handlers of `PollEvents`,
with rejections; `Prepare`, `TakeWriteContext` and `PostStart`, the parts of `SendMsg` between
which other threads can step in; one action for each kind of completion in `PollCQ`; `RecvMsg`,
and `Release` by whoever holds a delivered array. The `Carry` actions are the verbs library
(external): a reliable connection carries work requests in order, each waits for a posted receive,
a write outside of the registered region completes with an error, and the connection carries
nothing after that. A failed CHECK ends the
model: `node[n].ended` says which, and `EndsHaveCauses` from which mistakes it can come.

### Job, Tracker, Submit

`Job` extends `Barrier`: its threads are those that call barriers. What a thread does is its
`Script`, the calls that the training programs and `Finalize` make in turn. Requests are one
message to a server and one back; where a message is (`sent`, `held` by `ProcessDataMsg` while
it waits for the application, `queued` at the customer, `answered`) is what the races are about.
`Stop` drops any part of what a process has not got out, as linger 0 and the priority queue of
P3Van allow; `Clear` is Finalize's unlocked `barrier_done_.clear()`; `Destroy` is `~Customer`,
whose TERMINATE may overtake what is queued.

`Tracker` is `RabitTracker`: the maps of links as functions, and `accept_slaves` with its
connection to one worker at a time. Rabit's workers are not in the repository; they are what
the tracker's reads and writes say of them. `Iterated` is the order in which Python 2 goes
through a small set of integers, which decides the ring. `Submit` is `tracker.submit`: with
servers a `Job`, without a `Tracker`.

## 3. The runs

| run | instance | distinct states | what it shows |
|---|---|---|---|
| `barrier` | scheduler, server, worker with two customers, worker with one; groups "all" and "workers"; two calls of each thread on each group | 31 042 | exact counting, no early return, refinement of `BarrierSpec`, complete rounds end |
| `barrier_ids` | one worker process with customer ids 0 and 2 | | **violation**, finding 1 |
| `resender` | a request and its answer between a server with a resender and a worker that creates its own at any time; loss; `max_num_retry_` 3; at most two copies and two acknowledgements of a message in flight | 94 859 | at most once, never forgotten, handled in the end or given up loudly |
| `resender_start` | the same, neither with a resender at first, no loss | | **violation**, finding 2 |
| `resender_keys` | two customers of one worker, one request each, no loss | | **violation**, finding 3 |
| `kv_store` | two servers with a key each; one process pulls one of the keys twice while another pushes both keys twice | 324 009 | each push is added once, pulls see what was done and grow |
| `kv_wait` | two threads share a `KVWorker`; two requests that involve no, one or both servers; either thread waits for either | 16 205 | `Wait` means done, callbacks see all slices, every wait ends, refinement of `KVSpec` |
| `membership` | a server, a worker process with two customers, one with one; a possible replacement for each role; up to two crashes | 29 645 | unique ids, complete groups, current routes, start completes, a first replacement joins |
| `recovery` | a server, a worker and two successive replacements of it | | **violation**, finding 4 |
| `rdma` | three processes, two links; two threads on one link, whose arrays share an address and differ in size, one control message on the other; the first link may be rejected once; one context of a kind, two indices, a pool of four bytes aligned to two, two places for new regions | 269 698 | sound pools, one owner to a block, contexts suffice, order and contents, causes of failed CHECKs, every message arrives |
| `matrix` | two clients, two servers, matrices of 2x2 and 3x2 (one row more than servers divide, not starting at 0); nine calls, four of them in a run, in any order; clients are symmetric | 29 781 | reads are sums, rows are found, pulls return the matrix, causes of failed CHECKs |
| `submit` | with servers: one server, a worker process with two customers, one with one, one iteration of `fit`; without: four workers on two hosts, one failed connection, one broken link | 84 675 | rounds are synchronous, stopping loses nothing needed, the tracker's counts and links match, the job ends |

*Why these bounds.* Two calls per group let a fast thread be one round ahead of a slow one,
the farthest it can get (`RoundsApart` of `BarrierSpec` is a theorem), and two groups and two
customers of one process are what one response could confuse. The resender's races need one
message that overtakes its own acknowledgement and one in the other direction that keeps the
receiver thread busy; a retry limit of three instead of ten makes giving up reachable, and two
copies make duplicates. In `kv_store` a process's second pull may be asked when its first
is done, and each of the two pushes of the other process may be half served at either; in `kv_wait` the responses of two requests
interleave at one customer. In `membership` two crashes are a crash before the job is
complete and one after, or a node and its replacement; the process with two customers makes
ids shared. In `rdma` two threads want one context, a
first and a second array grow at one address, and a rejection fills the queues twice, so every
cause in `EndsHaveCauses` but the lack of indices happens, and a pool has to be extended. In
`matrix` a server has one row of `Y` and the other two; four calls are enough for two clients to
push both matrices in opposite orders, for a second push to double `MatrixToPS` before a pull, and
for a pull between two slices of a push. One iteration of `fit` has two pushes and two pulls, so
that a thread can be a round ahead. Four workers are the least for which the tree and the ring of
the tracker have different links. Every constant that only bounds exploration is named in its
module: `MaxCalls`, `MaxCopies`, `MaxRequests`, `MaxCrashes`, `Iterations`, `MaxErrors`,
`MaxBreaks`, `MaxRejects`, `Outbox`.

No run checks for deadlock: each job ends, with bounded calls, in a state where nobody has
anything to do. That a thread does not sleep for ever is stated by the liveness properties.

*Fairness.* Weak fairness is assumed of what a running thread does next: receiver threads take
what has arrived, handlers finish, threads that were notified wake. No thread is obliged to
call a barrier, ask a request, wait or register, and no process to crash. In
`Resender` strong fairness is assumed of three things: a copy that again and again could be taken
off the transport is taken, which gives the TCP connection's delivery but not freedom from
loss, since taking and dropping are one alternative; the same for acknowledgements; and the
monitor's finding an entry late that stays in the buffer, since time passes. Because a message
may be dropped each time, `EventuallyProcessed` says: handled, or the sender gave up, or the
receiver did. `Rdma` and `Submit` are finite: each step uses up a message, a work request, a
completion or a line of a script, so weak fairness of the whole next-state relation is enough,
which says only that the system goes on while any of its threads can. Their liveness
properties therefore say that nobody waits for something that nobody will do, and name the
exceptions: a failed CHECK, a context that is in a queue twice, and in `SubmitReturns` the three
races of finding 6.

## 4. Findings

1. **Customer ids must be contiguous** (`barrier_ids`). `Manage` (`src/postoffice.cc:210`) sets
   the entries `0 .. size-1`, while `customer.h:38` and `kv_app.h:94` only ask for ids that are
   unique. With the ids 0 and 2 the second thread never returns.
2. **A message is handled twice around start** (`resender_start`). The resender is created after
   `ready_` is set (`src/van.cc:353`); a message handled before leaves no trace in `acked_`, and
   the copy its sender sends again is handled again.
3. **Two customers' requests have one key** (`resender_keys`). `GetKey` (`src/resender.h:101`) has
   no customer id, and each customer numbers its requests from 0. With `PS_RESEND` the second
   customer's request is acknowledged and dropped, though nothing was lost. The same collision
   needs no run for timestamps from 2^30 on, where the sign fills the upper fields.
4. **One recovery in the life of a job** (`recovery`). `recovery_nodes` is never cleared, so the
   second replacement fails the CHECK of `src/van.cc:104` and ends the scheduler.

The others have no violation run: they are exceptions or preconditions of properties that hold, or
theorems.

5. **RDMA loses the pull flag.** `IBVerbsVan::SendMsg` (`src/ibverbs_van.h:637`) packs with
   `PackMetaPB`, which does not set `pull` (`src/van.cc:445-475`), while `docs/env.md:17` offers
   `ibverbs`. `PackMetaPBDropsPull` proves that the flag arrives as false,
   `PullFailsOverRdma` that every pull then fails the CHECK of `kv_app.h:529`.
6. **Races at the start and the end of a job** (`submit`). (a) Workers push as soon as they are
   through the start barrier. If a push reaches a server before the server's own response does,
   `GetCustomer` blocks for five seconds the thread that would read it, the application is never
   created, and `src/van.cc:232` ends the server; and a push served between `new KVServer` and
   `set_request_handle` fails `kv_app.h:980`. (b) The scheduler stops with linger 0 right after
   sending the last responses, which nobody acknowledges: one that is not out yet is lost, and its
   process stays in Finalize. (c) Customer 0 clears `barrier_done_` without the lock; another
   customer of the process that has not looked at its flag yet sleeps for ever.
   `SubmitReturns` holds with exactly these exceptions.
7. **The tracker forgets links made in a failed turn** (`submit`). When a worker reports that it
   could not reach one of several hosts, `assign_rank` asks again, and the links it did make are
   now reported as good; the count of those who wait for them is lowered only for links of the
   last turn (`tracker/tracker.py:112-122`). They stay in `wait_conn`, and the assertion of line 262
   ends the tracker when they shut down. `LinksMatch` says that counts are right without such
   an error.
8. **Clients must agree on the order of matrices** (`matrix`). Keys are numbered by each client in
   the order of its own first pushes (`client.h:43`), so clients that push two matrices in
   different orders mean different matrices by one key; and `PushRow` compares a row's length with
   that of the whole part (`kv_app.h:628`), which ends a server with more than one row.
   `EndsHaveCauses` of `Matrix`, which is proved, says that there are no other causes.
9. **Larger arrays at a registered address** (`rdma`). `allocated_mr_` is looked up by address
   only (`src/ibverbs_van.h:675-680`), and a rejected connection attempt puts every context into
   its queue twice (line 440). `EndsHaveCauses` of `Rdma` names both.
10. **A replacement may come too early** (`membership`). `UpdateLocalID` (`src/van.cc:139`) gives a
   replacement the place of a node that is dead at that moment. Before the heartbeat of its
   predecessor has timed out there is none; the scheduler neither answers nor keeps the registration,
   and the replacement waits in Start for ever. `ReplacementJoins` therefore is about replacements
   that find a vacant id.

In findings 5 to 10 the properties name the defect as what they leave out: they do not catch it, they
bound it, in the runs' instances or, where proved, in general.

## 5. The proofs

Eight modules hold theorems, about every number of processes, threads, messages and keys.

**Barrier** (`BarrierProofs`). `BarrierInvariant`: `CountIsExact` and `ResponseFindsAllWaiting`
hold under `ContiguousIds`, the assumption that finding 1 shows necessary. Neither is inductive
alone. `IInv` adds: a request is on its way only for a thread that is in that call, not flagged
and with no response on its way; a thread in a call has its entry; entries are only for customers.
The central step is `LastRequestMeets`: the counted threads are a subset of the members without
the one whose request is read, so if the counter equals the size of the group less one, they are
all the others. Then the response finds every process asleep in one barrier, and
`LoopReachesAll` says that `0 .. size-1` are all of its customers. `BarrierRefines`: `Spec`
implements `BarrierSpec` with `free` mapped to the threads whose release is on its way or whose
flag is set (`Freed`). The other half, `AbstractBarrierCorrect`, proves from
`RoundInv` of `BarrierSpec` the promise about `begun` and `ended`; `BarrierNoEarlyReturn` and
`BarrierRoundsApart` join the two.

**Job** (`BarrierProofs` too, which reuses the barrier's `IInv`), for any number of servers, workers,
customers and iterations, more than one worker thread, and `ContiguousIds`: `TrainingIsSynchronous`
(`RoundsAreSynchronous`) and `StopIsQuiet` (`QuietStop`). `JobInv` has two phases. `Early` lasts until the
last request for the barrier of Finalize is counted: the barrier's `IInv` holds; `Together` says that
a barrier which one thread has passed, or was set free in, all threads of its group have, and that
nobody has passed that of Finalize; `Messages` that a request is the only one of its thread at its
server and its thread is at the `wait` for it; `Stored` that the pushes at a server are those whose
thread is behind the `wait`, or at it with nothing left to be served there. A pull then finds what it
should (`PullFinds`): the barrier after each earlier push is one that its own thread has passed, so all
have, and a later push lies behind a barrier that its own thread has not passed, so nobody has. A
barrier is passed by all at once (`CountEarly`) because those that wait in it are at the same
position: of two positions the earlier would be one that the other has passed. In `Late` nothing is
under way but the scheduler's responses, whose processes are asleep, and every other thread has only
the ends of its script to go. `ScriptFacts`, `FitCalls` and `SameScripts` are what the argument needs
to know of the programs. The run checks these invariants under `SubmitSpec`, whose steps of a job with
servers are those of `JobSpec`.

**Resender** (`ResenderProofs`). `ResenderAtMostOnce`: a node that has had its resender from the
start hands on no message twice, whether keys are distinct or not; the inductive `FilterInv` says
that the key of what was handed on, or is in hand, is in `acked_`. `ResenderKeepsMessages`:
with distinct keys, a message is in the buffer or about to be until it was handed on or its
sender gave up; `KeptInv` says that a known key and an acknowledgement in flight always belong
to a message that was handed on. `SmallFieldsDistinctKeys` gives a condition for distinct keys:
one customer, byte-sized ids, 16-bit applications, timestamps below 2^30. Finding 3 is the
case without the first.

**Requests** (`KVAppProofs`). `WaitCorrect`: `WaitMeansDone` and `CallbackSeesAll` hold for any
workers, threads, servers, keys and requests. Neither says anything of a request some of whose
responses are missing, so neither is inductive. `IInv` says where each part of a request is:
every server has its slice in the hands of a caller or on its way (`Unserved`), or has its
response on its way (`Answered`), or has been counted, or has its response in the hands of the
customer's thread, and `CountingOK` adds these up to the number of servers. From that follows
that the test `NumResponse(ts) == num_servers - 1` in `KVWorker::Process` is true at the last
response and only there, though it is made before the response is counted; that the callback
is registered exactly until then; and that the slices stored so far with those still missing
are all slices of a pull (`SlicesOK`, `AllReceived`). The rest of `IInv` is that timestamps are
fresh, that a server answers a request once with the keys it holds, and that a push is in the
store at a key when the key's server has served it. `KVRefines`: `Spec` implements `KVSpec`, with
`left` mapped to the keys whose servers have not served their slice and `read` to what was
read, wherever it is: on its way, in `recv_kvs_` or in the caller's vector. Serving a slice is the
only step that touches the store, `Wait` the only one that finishes; processing a response is
invisible, because the callback puts into the vector exactly what was read (`ProcessRefines`).
`KVStoreCorrect` joins this with `StoreCorrect`, what the abstract store promises: pushes are added
once, a pull returns all that was known to be done when it was asked, and later pulls return no less.
For that `StoreInv` of `KVSpec` adds that what is done has touched all its keys and that what was read
is still in the store.

**RDMA** (`RdmaProofs`, `RdmaLanesProofs`, `RdmaOrderProofs`), for any processes, links, threads, messages,
rejections, and any choice of best block or place. Five theorems rest on five inductive
invariants, each used for the next.
`Typed` says that what a work request, a completion or a buffer index names is a message of its
link that a thread has begun to send: a context still holds the message it was posted with, since
only another message overwrites it. `Kept` says that the owners of a process's blocks (buffers
being sent, entries of the table, messages received, arrays with the application) are one to one
with the blocks in use, and that an index is either free once or in the table. It gives
`RdmaBlocksHaveOneOwner`: each block is freed once and only by its owner; and, as only blocks in
use are freed and only positive sizes are asked for, `RdmaPoolsSound`: blocks do not overlap, lie in
their regions and cover them, and the key found for a block is that of its region. For this part
`TakeSound`, `GrownSound`, `AllocSound` and `FreeSound` keep `PoolSound`, and `KeysFound` shows that
it makes the search by ends find the right region, which needs the assumption that two regions do
not touch (`Gap`: `malloc` keeps its own data between them). `Receives` counts: at each end of a
link, the receives that wait and those that are completed and not polled yet are `RxDepth` from the
moment the end posts them, and a link that is not connected has nothing under way. With it
`RdmaTypeCorrect` has the one part of `TypeOK` that is not about types, that no queue pair has more
receives than it takes and none is taken that is not there.
`Supplied` counts contexts: each is in the queue of free ones or with a work request, a completion, a
thread or a message buffer, and those in the queue and elsewhere are as many as were put there. Counts
alone do not give `RdmaContextsSuffice`: that a thread with a write context finds a start context
holds because a START is reported done to its sender before anything that follows it, which is a
matter of the order in a completion queue. `Behind` says that after any place of the
sender's queue no more STARTs are reported done than messages are with the receiver, on their
way back or reported after that place; `Ahead` that the replies the receiver has not got back when it
comes to a START are of messages that hold write contexts with it, so fewer than `ReplyDepth`.
`Ordered` gives `RdmaDeliveredInOrder`. A message goes from SendMsg to RecvMsg by seven queues of two
processes and the network, which other links and other kinds of elements share. A *lane* is what one
queue says of one link: for each element the value it stands for, or none. `Orderly` says that the
postings of a link can be given to the seven lanes of its messages so that each lane lists them in
order, those of a later lane are earlier, and all that are not delivered are in one, but for those
that a failed write keeps from coming, which are later than all that still come. So the buffer that
RecvMsg takes holds the next one. But only the first lanes carry a message; a reply, a write and
its completion carry a context and an index of the table, and RecvMsg an address. `OwnContexts` says
that a context that is not free is in one place of its lanes, so that no two messages at work share
one; `OwnEntries` the same of the entries of a process's table, which all its links share; `OwnBuffers`
that the buffer of a completed write still has what was written, for which `Kept` has the buffers
apart. `RdmaLanesProofs` shows once what a queue that grows or loses its first element does to any lane
(`LaneAppended`, `LanePopped`, `LaneBoth`); a step of `Rdma` is then an element that leaves one lane and
enters the next (`OrderlyMoves`).

**Matrix** (`MatrixProofs`), for any clients, servers, calls, and matrices of any shape, as long as no
shape is empty, a server's range holds a number for each matrix, and what a call passes fits its
matrix (`MatrixAssumption`). `MatrixInvariant` says where each part of a matrix is. `Shapes`: for
what a client has pushed it knows one number, and with it the key and server of each part and each
row, as `RowPartition` deals them. `AskedOK`: a slice under way has the key of its part and is for
the part's server. `StoreOK`: a server holds nothing but parts, each at a key that some client gave
it; `PartsHeld`: a part that has been pushed is held or on its way. `EndedOK` and `Caused` say what
a failed CHECK shows. The arithmetic is in two places. `Before` says how many rows the servers below
one have, in closed form where the code adds them up (`StartAt`); the parts so begin where the one
before ends, and `RowHome` finds exactly one server for each row, `Home`. And `Cuts` is what the slicer
finds in any increasing keys (`PositionsAre`); `PartSlices` shows that the keys of a matrix are cut into
one to a server. With these, `MatrixRowsFound` (`RowsFound`) and, since a CHECK compares
the shape of what came with that of what is held, `MatrixEndsHaveCauses` (`EndsHaveCauses`).
`MatrixReadsAreSums` (`ReadsAreSums`) adds `Sums`: among clients that agree, each element of a part is
the sum of what the pushes served there have for it. It needs that clients that agree have one number
for a matrix (`SameNumber`) and that one key leads to parts of one matrix only (`OneMatrix`), and that
a push puts each element where the reading functions look for it (`PushGoesHome`, `RowRead`,
`ColumnRead`). The sums of the community modules are folds over finite sets; the lemmas about them
(`SumStep`, `SumMap`, `SumAlong`), and about the recursive functions `StartPos` and `Positions`, are
proved by a smallest counterexample, where an induction theorem would take an operator as its
parameter.

**Membership** (`MembershipProofs`), for any processes, addresses, orders of registration and crashes.
`MembershipInvariant` is the inductive invariant, from which follow `OneHolderEach` (`OneHolder`),
`AllIDsCovered` (`IDsCovered`), `RoutesLeadToHolders` (`RoutesAgree`) and `MembershipTypeCorrect`. The
difficulty is that an id is spread over the scheduler's list, lists on their way and what
processes have read of them. `Due(p)` is the id that `p` has or will take from the first list it has
not read; `Settled(p)` says that it is known or `p` has crashed, `Gone(p, i)` that `p` is not and will
not be the holder of `i`. `Counted` says that the threads of a role in the list and those whose
registration is on its way are all that have registered, so that the list is full exactly when all
have come; `Placed` that a `Due` id is one of the process's places in the list and that the
scheduler's socket of it is that process; `OneOwner` that two places have one id only if they are of
one process, or the id was given to a replacement and one of the two is gone; `Running`
that after the start the list, the sockets and every list on its way name only processes that are
settled, at most one of them recovered (finding 4). `Connected` is what routes need: a process that has
read of `q` has its connection for `q`'s id at `q`, and no later list gives the id to another; one
that has not has a list on its way that is the first to name `q`, under that id. A process that has
read of `q` does not connect again, since the code keeps the addresses it knows, which is why
"the first" matters.

**Encoding** (`KVAppProofs`, its second part). `PackMetaKeeps` and `PackMetaPBDropsPull` say what of
the meta data survives, `FramesKeepMessage` that the frames of a message are read as that
message, from the sender that `GetNodeID` reads out of the identity ZeroMQ puts first (that this is
the identity `Connect` gave the socket is not part of the theorem). On these rest `PushArrives`, `PullArrives`, `AnswerArrives`: what is sent passes every
CHECK at the other side and is read as what it was, whichever arrays are empty; and, over RDMA,
`PullFailsOverRdma`. `PushAllArrives` and `PullAllArrives` say it of every slice, wherever the cuts
are: lengths and meta data stay with their keys. `PushAllSize` is what `Matrix` assumes of a call to
PushAll, that the shape it names has as many elements as the array. `SimpleArrives` is the same for SimpleApp.

Proved from the `ASSUME`s of the modules, which TLC evaluates in the runs, and `ConstantsOK`.

*Model-checked only*: liveness (fairness and ENABLED are out of the prover's reach); `ResultsRight` of
`Matrix`, where a client puts parts in order with a sort and a concatenation whose definitions in the
library are recursive; `LinksMatch` and all else of `Tracker`, whose maps are recursive, and
`SubmitReturns`; of `Rdma`, `EndsHaveCauses`.

## 6. What is left

In the order of use:

1. A theorem about `Rdma`: `EndsHaveCauses`. That the index of a completed write is in the table
   follows from `Typed`; that a process never has more messages under way than its table has entries
   unless it accepts too many links needs a sum over links, and that a failed request is the only
   cause of an error status one more invariant.
2. The start barrier of a replaced process: `Job` with what `Membership` decides. Both are near the
   size TLC can check in minutes, so that needs an abstract `Membership` first.
3. An abstract specification of `Matrix` (a matrix that pushes add to) with `Matrix` shown to
   implement it; `ReadsAreSums` states that promise for the servers, `ResultsRight` for results.
4. `Rdma` with `Stop` and disconnection.

## 7. What is not modelled

* *Requests*: `RunCallback` unlocks between finding a callback and erasing it (`kv_app.h:1175-1188`);
  `Process` takes it as one step, since no other thread touches the entry of that timestamp. `PushPull`, `ZPull` and their kin pass arguments that `AddPullCB` does not take, so no
  program of the repository instantiates them. `KVServerDefaultHandle` is used by no program.
* *Membership*: time. A timeout may expire at any moment after the last heartbeat; the messages that
  carry heartbeats, a process that stops without ending and a heartbeat that is late though its
  sender runs are left out.
* *Life cycle*: crashes and replacements within `Job`; the data race in `barrier_done_.clear()`
  beyond what it means for the flags; `AddCustomer` and `RemoveCustomer` called by threads that
  share a customer.
* *Matrix*: pulls of matrices the client has not pushed and empty matrices (undefined in the
  code), `IncRow` and `IncCol` (named, not implemented), rounding of floats, sizes beyond `int`.
* *Training*: gradients, the conversion of Python's arrays, data loading.
* *RDMA* (compiled with `DMLC_USE_IBVERBS`): the limit of four segments to a message, which no request
  of the repository exceeds; `Stop`, `Disconnect`, `OnDisconnected`; the second
  `Connect` to the scheduler, which replaces the endpoint; the unsynchronised `endpoints_` and
  `allocated_mr_` (two threads that register one address at once); contents of data beyond which
  message they are of; failures of registration for lack of memory.
* *TCP*: the retries of `Bind`, the sharing of zero-copy buffers.
* *Launcher*: the scripts for clusters, environment variables, logging; the death of a worker
  that waits, after which the tracker introduces others to it for ever; `world_size` that changes.
  A process that a failed CHECK ends is not restarted, as the exit code is not 254.
* `SArray`, `network_utils`, logging, profiling, the headers of `psf` that no program includes,
  vendored code and build files: data movement or not part of the running system.
