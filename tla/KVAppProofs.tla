---------------------------- MODULE KVAppProofs ----------------------------
(***************************************************************************)
(* For any workers, callers, servers and keys: Wait returns when the       *)
(* request has had its effect, callbacks find every slice, and the layer   *)
(* implements KVSpec, so that pushes are added once and pulls see what was *)
(* done.  The argument is the counting of responses: for each request, the *)
(* servers counted, the servers still to answer, and the answer in hand    *)
(* add up to the number of servers.  The second part is about the messages *)
(* that carry requests and responses.                                      *)
(***************************************************************************)
EXTENDS KVApp, Requests, FiniteSetTheorems, TLAPS

Asked(id) == ask[id] # None
IsPull(id) == ask[id].kind = "pull"

\* Servers whose response to id is on its way
Answered(id) == {e.server : e \in {f \in resps : f.id = id}}
Pending(id) == Unserved(id) \cup Answered(id)
InHand(id) == IF hand[Owner(id)] = id THEN 1 ELSE 0

(* A caller that sends has slices left, of a request of its own KVWorker    *)
(* that no other caller sends; one that sleeps does so for a request that   *)
(* was asked.                                                               *)
CallersOK ==
  /\ \A c \in Caller :
       /\ pc[c] # "idle" => cur[c] \in Id /\ Owner(cur[c]) = Uses[c] /\ Asked(cur[c])
       /\ pc[c] = "send" <=> todo[c] # {}
       /\ \A s \in todo[c] : <<cur[c], s>> \notin reqs
  /\ \A c, d \in Caller : pc[c] = "send" /\ pc[d] = "send" /\ cur[c] = cur[d] => c = d
  /\ \A c \in woken : pc[c] = "asleep"

(* Timestamps count up; of a request that was not asked there is no trace.  *)
FreshOK ==
  \A id \in Id :
    /\ Asked(id) <=> id[2] < size[id[1]]
    /\ ~Asked(id) =>
         /\ Pending(id) = {} /\ hand[Owner(id)] # id /\ id \notin callbacks
         /\ ran[id] = 0 /\ got[id] = 0 /\ DOMAIN vals[id] = {}

(* A server answers a request once, with what it holds of its keys; slices  *)
(* are stored only for pulls that somebody has still to answer.             *)
ResponsesOK ==
  /\ \A e \in resps \cup recv :
       /\ Asked(e.id) /\ e.server \notin Unserved(e.id)
       /\ DOMAIN e.vals = IF IsPull(e.id) THEN Slice(e.id, e.server) ELSE {}
  /\ \A e, f \in resps \cup recv : e.id = f.id /\ e.server = f.server => e = f
  /\ \A e \in recv : e \notin resps /\ IsPull(e.id) /\ Pending(e.id) # {}

(* The responses of a request that was asked are counted exactly, and its   *)
(* callback is there while one is missing and has run once after that.      *)
CountingOK ==
  /\ \A id \in Id : Asked(id) =>
       /\ got[id] + Cardinality(Pending(id)) + InHand(id) = NumServers
       /\ Unserved(id) \subseteq Sliced(ask[id])
       /\ id \in callbacks <=> Pending(id) # {}
       /\ ran[id] = IF Pending(id) = {} THEN 1 ELSE 0
  /\ \A w \in Worker : hand[w] # None => Owner(hand[w]) = w

(* No slice of a pull gets lost on its way to the caller's vector.          *)
SlicesOK ==
  \A id \in Id : Asked(id) /\ IsPull(id) =>
    IF Pending(id) = {}
      THEN DOMAIN vals[id] = ask[id].keys
      ELSE \A s \in Sliced(ask[id]) : s \in Pending(id) \/ \E e \in recv : e.id = id /\ e.server = s

(* A key has a push once when the server of the key has served it.          *)
StoreOK ==
  \A k \in Key, id \in Id :
    store[k][id] = IF Asked(id) /\ ~IsPull(id) /\ k \in ask[id].keys /\ Home[k] \notin Unserved(id)
                     THEN 1 ELSE 0

(* Inductive.                                                               *)
IInv == TypeOK /\ CallersOK /\ FreshOK /\ ResponsesOK /\ CountingOK /\ SlicesOK /\ StoreOK

----------------------------------------------------------------------------
(* A request is a KVWorker and a timestamp.                                 *)
LEMMA IdShape ==
  /\ \A id \in Id : id[1] \in Worker /\ id[2] \in Nat /\ id[2] < MaxRequests[id[1]]
                     /\ id = <<id[1], id[2]>>
  /\ \A w \in Worker, n \in Nat : n < MaxRequests[w] => <<w, n>> \in Id
<1>1. \A w \in Worker : MaxRequests[w] \in Nat
  BY MaxAssumption
<1>2. QED
  BY <1>1 DEF Id

(* Servers are finitely many.                                               *)
LEMMA ServerFinite == IsFiniteSet(Server) /\ Cardinality(Server) = NumServers
BY ServersAssumption, FS_Interval DEF Server

(* The servers a request skips are those without a key of it.               *)
LEMMA SlicedShape ==
  ASSUME NEW r \in AnyRequest
  PROVE  /\ r.keys \subseteq Key /\ r.kind \in {"push", "pull"}
         /\ Sliced(r) \subseteq Server /\ IsFiniteSet(Sliced(r))
         /\ Cardinality(Sliced(r)) \in 0 .. NumServers
         /\ Skipped(r) \in 0 .. NumServers
         /\ Skipped(r) = NumServers <=> Sliced(r) = {}
         /\ Sliced(r) = {} <=> r.keys = {}
<1>1. r.keys \subseteq Key /\ r.kind \in {"push", "pull"}
  BY RequestAssumption
<1>2. Sliced(r) \subseteq Server
  BY <1>1, HomeAssumption DEF Sliced
<1>3. /\ IsFiniteSet(Sliced(r)) /\ Cardinality(Sliced(r)) \in Nat
      /\ Cardinality(Sliced(r)) <= NumServers
  BY <1>2, ServerFinite, FS_Subset, FS_CardinalityType
<1>4. Cardinality(Sliced(r)) = 0 <=> Sliced(r) = {}
  BY <1>3, FS_EmptySet
<1>5. Sliced(r) = {} <=> r.keys = {}
  BY DEF Sliced
<1>6. QED
  BY <1>1, <1>2, <1>3, <1>4, <1>5, ServersAssumption DEF Skipped

(* What is read of a set of responses is a reading.                         *)
LEMMA MergeReads ==
  ASSUME NEW R, \A e \in R : IsResponse(e)
  PROVE  /\ IsReading(Merge(R)) /\ DOMAIN Merge(R) = UNION {DOMAIN e.vals : e \in R}
         /\ \A k \in DOMAIN Merge(R) : \E e \in R : k \in DOMAIN e.vals /\ Merge(R)[k] = e.vals[k]
<1>1. DOMAIN Merge(R) = UNION {DOMAIN e.vals : e \in R}
  BY DEF Merge
<1>2. ASSUME NEW k \in DOMAIN Merge(R)
      PROVE  \E e \in R : k \in DOMAIN e.vals /\ Merge(R)[k] = e.vals[k]
  <2>1. \E e \in R : k \in DOMAIN e.vals
    BY <1>1
  <2>2. QED
    BY <2>1 DEF Merge
<1>3. \A k \in DOMAIN Merge(R) : k \in Key /\ Merge(R)[k] \in Tally
  BY <1>2 DEF IsResponse, IsReading
<1>4. Merge(R) = [k \in DOMAIN Merge(R) |-> Merge(R)[k]]
  BY DEF Merge
<1>5. QED
  BY <1>1, <1>2, <1>3, <1>4 DEF IsReading

(* The servers that have not served a request are those whose slice is on   *)
(* its way or still in the hands of a caller.                               *)
LEMMA UnservedShape ==
  ASSUME TypeOK, NEW id \in Id
  PROVE  /\ Unserved(id) \subseteq Server
         /\ \A s \in Server : s \in Unserved(id) <=>
              <<id, s>> \in reqs \/ \E c \in Caller : pc[c] = "send" /\ cur[c] = id /\ s \in todo[c]
BY DEF TypeOK, Unserved

(* The responses that are missing are finitely many.                        *)
LEMMA PendingFinite ==
  ASSUME TypeOK, NEW id \in Id
  PROVE  /\ Answered(id) \subseteq Server /\ Pending(id) \subseteq Server
         /\ IsFiniteSet(Pending(id)) /\ Cardinality(Pending(id)) \in Nat
         /\ Cardinality(Pending(id)) = 0 <=> Pending(id) = {}
<1>1. Answered(id) \subseteq Server
  BY DEF TypeOK, Answered, IsResponse
<1>2. Pending(id) \subseteq Server
  BY <1>1, UnservedShape DEF Pending
<1>3. IsFiniteSet(Pending(id)) /\ Cardinality(Pending(id)) \in Nat
  BY <1>2, ServerFinite, FS_Subset, FS_CardinalityType
<1>4. QED
  BY <1>1, <1>2, <1>3, FS_EmptySet

(* The invariant holds initially.                                           *)
LEMMA IInvInit == Init => IInv
<1> SUFFICES ASSUME Init PROVE IInv
  OBVIOUS
<1>1. Merge({}) = [k \in {} |-> k] /\ IsReading(Merge({})) /\ DOMAIN Merge({}) = {}
  BY MergeReads DEF Merge
<1>2. TypeOK
  BY <1>1, ServersAssumption DEF Init, TypeOK, Tally, Zero
<1>3. \A id \in Id : Unserved(id) = {} /\ Answered(id) = {}
  BY DEF Init, Unserved, Answered
<1>4. \A id \in Id : ask[id] = None
  BY DEF Init
<1>5. CallersOK
  BY DEF Init, CallersOK
<1>6. FreshOK
  BY <1>1, <1>3, IdShape, NoneAssumption DEF Init, FreshOK, Asked, Pending, Owner
<1>7. ResponsesOK
  BY DEF Init, ResponsesOK
<1>8. CountingOK /\ SlicesOK
  BY <1>4 DEF Init, CountingOK, SlicesOK, Asked
<1>9. StoreOK
  BY <1>4 DEF Init, StoreOK, Asked, Zero
<1>10. QED
  BY <1>2, <1>5, <1>6, <1>7, <1>8, <1>9 DEF IInv

----------------------------------------------------------------------------
(* A response in hand is of a request that was asked, and was not counted.  *)
LEMMA HandShape ==
  ASSUME IInv, NEW w \in Worker, hand[w] # None
  PROVE  /\ hand[w] \in Id /\ Owner(hand[w]) = w /\ Asked(hand[w])
         /\ got[hand[w]] \in Nat /\ got[hand[w]] < NumServers
<1>1. hand[w] \in Id /\ Owner(hand[w]) = w
  BY DEF IInv, TypeOK, CountingOK
<1>2. Asked(hand[w])
  BY <1>1 DEF IInv, FreshOK
<1>3. got[hand[w]] + Cardinality(Pending(hand[w])) + 1 = NumServers
  BY <1>1, <1>2 DEF IInv, CountingOK, InHand
<1>4. Cardinality(Pending(hand[w])) \in Nat /\ got[hand[w]] \in 0 .. NumServers
  BY <1>1, PendingFinite DEF IInv, TypeOK
<1>5. QED
  BY <1>1, <1>2, <1>3, <1>4, ServersAssumption

(* Asking keeps the types.                                                  *)
LEMMA TypeAsk ==
  ASSUME IInv, NEW c \in Caller, NEW r \in Request[Uses[c]], Ask(c, r)
  PROVE  /\ TypeOK' /\ r \in AnyRequest
         /\ Uses[c] \in Worker /\ <<Uses[c], size[Uses[c]]>> \in Id
<1> DEFINE w == Uses[c]
           id == <<w, size[w]>>
<1>1. w \in Worker /\ r \in AnyRequest
  BY UsesAssumption DEF AnyRequest
<1>2. size[w] \in Nat /\ size[w] < MaxRequests[w]
  BY <1>1 DEF IInv, TypeOK, Ask
<1>3. id \in Id
  BY <1>1, <1>2, IdShape
<1>4. Skipped(r) \in 0 .. NumServers /\ Sliced(r) \subseteq Server
  BY <1>1, SlicedShape
<1>5. got' \in [Id -> 0 .. NumServers] /\ size' \in [Worker -> Nat]
  BY <1>1, <1>2, <1>3, <1>4 DEF IInv, TypeOK, Ask
<1>6. ask' \in [Id -> AnyRequest \cup {None}] /\ callbacks' \subseteq Id /\ must' \in [Id -> SUBSET Id]
  BY <1>1, <1>3 DEF IInv, TypeOK, Ask
<1>7. /\ pc' \in [Caller -> {"idle", "send", "asleep"}] /\ cur' \in [Caller -> Id \cup {None}]
      /\ todo' \in [Caller -> SUBSET Server] /\ ran' \in [Id -> Nat]
  <2>1. todo' \in [Caller -> SUBSET Server]
    BY <1>4 DEF IInv, TypeOK, Ask
  <2>2. CASE Skipped(r) = NumServers
    <3>1. ran \in [Id -> Nat] /\ ran' = [ran EXCEPT ![id] = @ + 1]
      BY <2>2 DEF IInv, TypeOK, Ask
    <3> HIDE DEF id
    <3>2. ran' \in [Id -> Nat]
      BY <1>3, <3>1
    <3> USE DEF id
    <3>3. QED
      BY <2>1, <2>2, <3>2 DEF IInv, TypeOK, Ask
  <2>3. CASE Skipped(r) # NumServers
    BY <1>3, <2>1, <2>3 DEF IInv, TypeOK, Ask
  <2>4. QED
    BY <2>2, <2>3
<1>8. QED
  BY <1>1, <1>3, <1>5, <1>6, <1>7 DEF IInv, TypeOK, Ask

(* Serving keeps the types.                                                 *)
LEMMA TypeServe ==
  ASSUME IInv, NEW id \in Id, NEW s \in Server, Serve(id, s)
  PROVE  TypeOK'
<1> DEFINE push == ask[id].kind = "push"
           e == [id |-> id, server |-> s, vals |-> [k \in IF push THEN {} ELSE Slice(id, s) |-> store[k]]]
<1>1. s \in Unserved(id)
  BY UnservedShape DEF IInv, Serve
<1>2. Asked(id)
  BY <1>1 DEF IInv, FreshOK, Pending
<1>3. ask[id] \in AnyRequest
  BY <1>2 DEF IInv, TypeOK, Asked
<1>4. Slice(id, s) \subseteq Key
  BY <1>3, SlicedShape DEF Slice
<1>5. IsResponse(e)
  BY <1>4 DEF IInv, TypeOK, IsResponse, IsReading
<1>6. \A f \in resps' : IsResponse(f)
  BY <1>5 DEF IInv, TypeOK, Serve
<1>7. store' \in [Key -> Tally]
  BY DEF IInv, TypeOK, Tally, Zero, Serve
<1>8. QED
  BY <1>6, <1>7 DEF IInv, TypeOK, Serve, customer, worker, threads, history

(* Processing a response keeps the types.                                   *)
LEMMA TypeProcess ==
  ASSUME IInv, NEW w \in Worker, NEW e \in resps, Process(w, e)
  PROVE  TypeOK'
<1> DEFINE recvd == recv \cup IF ask[e.id].kind = "pull" THEN {e} ELSE {}
<1>1. IsResponse(e) /\ e.id \in Id /\ \A f \in recvd : IsResponse(f)
  BY DEF IInv, TypeOK, IsResponse
<1>2. IsReading(Merge({f \in recvd : f.id = e.id}))
  BY <1>1, MergeReads
<1>3. hand' \in [Worker -> Id \cup {None}] /\ resps' \subseteq resps
  BY <1>1 DEF IInv, TypeOK, Process
<1>4. /\ callbacks' \subseteq callbacks /\ recv' \subseteq recvd /\ ran' \in [Id -> Nat]
      /\ DOMAIN vals' = Id /\ \A id \in Id : IsReading(vals'[id])
  <2>1. TypeOK
    BY DEF IInv
  <2>2. CASE got[e.id] = NumServers - 1 /\ e.id \in callbacks
    BY <1>1, <1>2, <2>1, <2>2 DEF Process, RunCallback, TypeOK
  <2>3. CASE ~(got[e.id] = NumServers - 1 /\ e.id \in callbacks)
    BY <2>1, <2>3 DEF Process, RunCallback, TypeOK
  <2>4. QED
    BY <2>2, <2>3
<1>5. QED
  BY <1>1, <1>3, <1>4 DEF IInv, TypeOK, Process, customer, threads

(* Every step keeps the types.                                              *)
LEMMA TypeNext == IInv /\ [Next]_vars => TypeOK'
<1> SUFFICES ASSUME IInv, [Next]_vars PROVE TypeOK'
  OBVIOUS
<1>1. TypeOK
  BY DEF IInv
<1>2. ASSUME NEW c \in Caller, NEW s \in Server, SendSlice(c, s) PROVE TypeOK'
  <2>1. cur[c] \in Id
    BY <1>2 DEF IInv, CallersOK, SendSlice
  <2>2. QED
    BY <1>1, <1>2, <2>1 DEF TypeOK, SendSlice, customer, worker, history
<1>3. ASSUME NEW id \in Id, NEW s \in Server, Abort(id, s) PROVE TypeOK'
  BY <1>1, <1>3 DEF TypeOK, Abort, customer, worker, threads, history
<1>4. ASSUME NEW w \in Worker, Count(w) PROVE TypeOK'
  <2>1. hand[w] \in Id /\ got[hand[w]] + 1 \in 0 .. NumServers
    BY <1>4, HandShape, ServersAssumption DEF Count
  <2>2. got' \in [Id -> 0 .. NumServers]
    BY <1>1, <1>4, <2>1 DEF TypeOK, Count
  <2>3. QED
    BY <1>1, <1>4, <2>2 DEF TypeOK, Count, worker, threads, history
<1>5. ASSUME NEW c \in Caller, NEW id \in Id, Wait(c, id) PROVE TypeOK'
  BY <1>1, <1>5 DEF TypeOK, Wait, customer, worker
<1>6. ASSUME NEW c \in Caller, Wake(c) PROVE TypeOK'
  <2>1. cur[c] \in Id
    BY <1>6 DEF IInv, CallersOK, Wake
  <2>2. QED
    BY <1>1, <1>6, <2>1 DEF TypeOK, Wake, worker
<1>7. CASE UNCHANGED vars
  BY <1>1, <1>7 DEF TypeOK, vars, customer, worker, threads, history
<1>8. QED
  BY <1>2, <1>3, <1>4, <1>5, <1>6, <1>7, TypeAsk, TypeServe, TypeProcess DEF Next

----------------------------------------------------------------------------
(* Asking takes a timestamp of which there is no trace; all its slices are  *)
(* in the hands of the caller.                                              *)
LEMMA AskShape ==
  ASSUME IInv, NEW c \in Caller, NEW r \in Request[Uses[c]], Ask(c, r),
         NEW id, id = <<Uses[c], size[Uses[c]]>>
  PROVE  /\ id \in Id /\ ~Asked(id) /\ TypeOK' /\ r \in AnyRequest /\ r # None
         /\ ask' = [ask EXCEPT ![id] = r]
         /\ \A i \in Id : Asked(i)' <=> Asked(i) \/ i = id
         /\ \A i \in Id \ {id} : ask'[i] = ask[i]
         /\ \A i \in Id : Unserved(i)' = IF i = id THEN Sliced(r) ELSE Unserved(i)
         /\ \A i \in Id : Answered(i)' = Answered(i)
         /\ \A i \in Id : Pending(i)' = IF i = id THEN Sliced(r) ELSE Pending(i)
<1>1. id \in Id /\ TypeOK' /\ r \in AnyRequest /\ r # None
  BY TypeAsk, NoneAssumption
<1>2. ~Asked(id)
  BY <1>1, IdShape DEF IInv, FreshOK
<1>3. ask' = [ask EXCEPT ![id] = r]
  BY DEF Ask
<1>4. /\ \A i \in Id : Asked(i)' <=> Asked(i) \/ i = id
      /\ \A i \in Id \ {id} : ask'[i] = ask[i]
  BY <1>1, <1>3 DEF IInv, TypeOK, Asked
<1>5. reqs' = reqs /\ resps' = resps /\ pc[c] = "idle" /\ todo[c] = {} /\ todo' = [todo EXCEPT ![c] = Sliced(r)]
  BY DEF Ask, IInv, CallersOK, TypeOK
<1>6. \A i \in Id : Answered(i)' = Answered(i)
  BY <1>5 DEF Answered
<1>7. Unserved(id) = {} /\ Answered(id) = {}
  BY <1>1, <1>2 DEF IInv, FreshOK, Pending
<1>8. \A d \in Caller \ {c} : pc'[d] = pc[d] /\ cur'[d] = cur[d] /\ todo'[d] = todo[d]
  BY DEF IInv, TypeOK, Ask
<1>9. todo'[c] = Sliced(r)
  BY <1>5 DEF IInv, TypeOK
<1>10. \A i \in Id : Unserved(i)' = IF i = id THEN Sliced(r) ELSE Unserved(i)
  <2>1. CASE Skipped(r) = NumServers
    <3>1. Sliced(r) = {} /\ pc' = pc /\ cur' = cur
      BY <1>1, <2>1, SlicedShape DEF Ask
    <3>2. \A d \in Caller : todo'[d] = todo[d]
      BY <1>5, <1>8, <1>9, <3>1
    <3>3. \A i \in Id : Unserved(i)' = Unserved(i)
      BY <1>5, <3>1, <3>2 DEF Unserved
    <3>4. QED
      BY <1>7, <3>1, <3>3
  <2>2. CASE Skipped(r) # NumServers
    <3>1. pc'[c] = "send" /\ cur'[c] = id
      BY <2>2 DEF Ask, IInv, TypeOK
    <3>2. ASSUME NEW i \in Id, i # id PROVE Unserved(i)' = Unserved(i)
      BY <1>5, <1>8, <1>9, <3>1, <3>2 DEF Unserved
    <3>3. Unserved(id)' = Sliced(r)
      <4>1. \A d \in Caller \ {c} : ~(pc'[d] = "send" /\ cur'[d] = id)
        BY <1>2, <1>8 DEF IInv, CallersOK
      <4>2. \A s \in Server : <<id, s>> \notin reqs
        BY <1>7 DEF Unserved
      <4>3. Sliced(r) \subseteq Server
        BY <1>1, SlicedShape
      <4>4. QED
        BY <1>5, <1>9, <3>1, <4>1, <4>2, <4>3 DEF Unserved
    <3>4. QED
      BY <3>2, <3>3
  <2>3. QED
    BY <2>1, <2>2
<1>11. \A i \in Id : Pending(i)' = IF i = id THEN Sliced(r) ELSE Pending(i)
  BY <1>6, <1>7, <1>10 DEF Pending
<1>12. QED
  BY <1>1, <1>2, <1>3, <1>4, <1>6, <1>10, <1>11

(* Asking preserves the invariant.                                          *)
LEMMA IInvAsk ==
  ASSUME IInv, NEW c \in Caller, NEW r \in Request[Uses[c]], Ask(c, r)
  PROVE  IInv'
<1>1. PICK id : id = <<Uses[c], size[Uses[c]]>>
  OBVIOUS
<1>2. /\ id \in Id /\ ~Asked(id) /\ TypeOK' /\ r \in AnyRequest /\ r # None
      /\ ask' = [ask EXCEPT ![id] = r]
      /\ \A i \in Id : Asked(i)' <=> Asked(i) \/ i = id
      /\ \A i \in Id \ {id} : ask'[i] = ask[i]
      /\ \A i \in Id : Unserved(i)' = IF i = id THEN Sliced(r) ELSE Unserved(i)
      /\ \A i \in Id : Answered(i)' = Answered(i)
      /\ \A i \in Id : Pending(i)' = IF i = id THEN Sliced(r) ELSE Pending(i)
  BY <1>1, AskShape
<1>3. ask'[id] = r
  BY <1>2 DEF IInv, TypeOK
<1>4. /\ Sliced(r) \subseteq Server /\ IsFiniteSet(Sliced(r))
      /\ Cardinality(Sliced(r)) \in 0 .. NumServers
      /\ Skipped(r) = NumServers - Cardinality(Sliced(r))
      /\ Skipped(r) = NumServers <=> Sliced(r) = {}
      /\ Sliced(r) = {} <=> r.keys = {}
  BY <1>2, SlicedShape DEF Skipped
<1>5. /\ Pending(id) = {} /\ hand[Owner(id)] # id /\ id \notin callbacks
      /\ ran[id] = 0 /\ got[id] = 0 /\ DOMAIN vals[id] = {}
  BY <1>2 DEF IInv, FreshOK
<1>6. CallersOK'
  <2>1. pc[c] = "idle" /\ todo[c] = {} /\ reqs' = reqs /\ woken' = woken /\ c \notin woken
    BY DEF Ask, IInv, CallersOK, TypeOK
  <2>2. \A d \in Caller \ {c} : pc'[d] = pc[d] /\ cur'[d] = cur[d] /\ todo'[d] = todo[d]
    BY DEF IInv, TypeOK, Ask
  <2>3. todo'[c] = Sliced(r)
    BY DEF IInv, TypeOK, Ask
  <2>4. (pc'[c] = "idle" /\ todo'[c] = {}) \/ (pc'[c] = "send" /\ cur'[c] = id /\ todo'[c] # {})
    <3>1. CASE Skipped(r) = NumServers
      <4>1. pc' = pc
        BY <3>1 DEF Ask
      <4>2. QED
        BY <1>4, <2>1, <2>3, <3>1, <4>1
    <3>2. CASE Skipped(r) # NumServers
      <4>1. pc'[c] = "send" /\ cur'[c] = id
        BY <1>1, <3>2 DEF IInv, TypeOK, Ask
      <4>2. QED
        BY <1>4, <2>3, <3>2, <4>1
    <3>3. QED
      BY <3>1, <3>2
  <2>5. \A s \in Server : <<id, s>> \notin reqs
    BY <1>5 DEF Pending, Unserved
  <2>6. \A d \in Caller : Owner(id) = Uses[c] /\ (pc[d] # "idle" => cur[d] # id)
    BY <1>1, <1>2 DEF Owner, IInv, CallersOK
  <2>7. \A d \in Caller : \A s \in todo'[d] : <<cur'[d], s>> \notin reqs'
    BY <1>4, <2>1, <2>2, <2>3, <2>4, <2>5 DEF IInv, CallersOK
  <2>8. \A d \in Caller : /\ pc'[d] # "idle" => cur'[d] \in Id /\ Owner(cur'[d]) = Uses[d] /\ Asked(cur[d])'
                          /\ pc'[d] = "send" <=> todo'[d] # {}
    <3>1. \A d \in Caller \ {c} : pc[d] # "idle" => cur[d] \in Id /\ Owner(cur[d]) = Uses[d] /\ Asked(cur[d])
      BY DEF IInv, CallersOK
    <3>2. \A d \in Caller \ {c} : pc'[d] # "idle" => ask'[cur'[d]] # None
      BY <1>2, <2>2, <2>6, <3>1 DEF Asked
    <3>3. pc'[c] # "idle" => ask'[cur'[c]] # None
      BY <1>2, <1>3, <2>4
    <3>4. \A d \in Caller : pc'[d] = "send" <=> todo'[d] # {}
      BY <2>2, <2>4 DEF IInv, CallersOK
    <3>5. QED
      BY <1>2, <2>2, <2>4, <2>6, <3>1, <3>2, <3>3, <3>4 DEF Asked
  <2>9. \A d, e \in Caller : pc'[d] = "send" /\ pc'[e] = "send" /\ cur'[d] = cur'[e] => d = e
    BY <2>2, <2>4, <2>6 DEF IInv, CallersOK
  <2>10. \A d \in woken' : pc'[d] = "asleep"
    BY <2>1, <2>2 DEF IInv, CallersOK, TypeOK
  <2>11. QED
    BY <2>7, <2>8, <2>9, <2>10 DEF CallersOK, Asked, Owner
<1>7. FreshOK'
  <2>1. ASSUME NEW i \in Id PROVE (Asked(i) <=> i[2] < size[i[1]])'
    <3>1. size' = [size EXCEPT ![Uses[c]] = @ + 1] /\ Uses[c] \in Worker /\ size \in [Worker -> Nat]
      BY UsesAssumption DEF Ask, IInv, TypeOK
    <3>2. i[1] \in Worker /\ i[2] \in Nat /\ i = <<i[1], i[2]>> /\ (Asked(i) <=> i[2] < size[i[1]])
      BY IdShape DEF IInv, FreshOK
    <3>3. Asked(i)' <=> i[2] < size[i[1]] \/ i = id
      BY <1>2, <3>2
    <3>4. CASE i[1] = Uses[c]
      BY <1>1, <3>1, <3>2, <3>3, <3>4
    <3>5. CASE i[1] # Uses[c]
      BY <1>1, <3>1, <3>2, <3>3, <3>5
    <3>6. QED
      BY <3>4, <3>5
  <2>2. ASSUME NEW i \in Id, ~Asked(i)'
        PROVE  /\ Pending(i)' = {} /\ hand'[Owner(i)] # i /\ i \notin callbacks'
               /\ ran'[i] = 0 /\ got'[i] = 0 /\ DOMAIN vals'[i] = {}
    <3>1. i # id /\ ~Asked(i)
      BY <1>2, <2>2
    <3>2. /\ Pending(i) = {} /\ hand[Owner(i)] # i /\ i \notin callbacks
          /\ ran[i] = 0 /\ got[i] = 0 /\ DOMAIN vals[i] = {}
      BY <3>1 DEF IInv, FreshOK
    <3>3. callbacks' \subseteq callbacks \cup {id} /\ ran'[i] = ran[i] /\ got'[i] = got[i]
      BY <1>1, <3>1 DEF IInv, TypeOK, Ask
    <3>4. QED
      BY <1>2, <3>1, <3>2, <3>3 DEF Ask
  <2>3. QED
    BY <2>1, <2>2 DEF FreshOK, Asked, Pending, Owner
<1>8. ResponsesOK'
  <2>1. resps' = resps /\ recv' = recv
    BY DEF Ask
  <2>2. \A e \in resps \cup recv : e.id \in Id /\ e.id # id
    BY <1>2 DEF IInv, ResponsesOK, TypeOK, IsResponse
  <2>3. \A e \in resps \cup recv : (IsPull(e.id) <=> IsPull(e.id)') /\ Slice(e.id, e.server)' = Slice(e.id, e.server)
    BY <1>2, <2>2 DEF IsPull, Slice
  <2>4. QED
    BY <1>2, <2>1, <2>2, <2>3 DEF IInv, ResponsesOK
<1>9. CountingOK'
  <2>1. hand' = hand /\ got'[id] = Skipped(r) /\ InHand(id)' = 0
    BY <1>1, <1>2, <1>5 DEF Ask, InHand, IInv, TypeOK
  <2>2. /\ id \in callbacks' <=> Sliced(r) # {}
        /\ ran'[id] = IF Sliced(r) = {} THEN 1 ELSE 0
    BY <1>1, <1>2, <1>4, <1>5 DEF Ask, IInv, TypeOK
  <2>3. got'[id] + Cardinality(Sliced(r)) + InHand(id)' = NumServers
    BY <1>4, <2>1, ServersAssumption
  <2>4. ASSUME NEW i \in Id, i # id
        PROVE  /\ got'[i] = got[i] /\ InHand(i)' = InHand(i) /\ ran'[i] = ran[i]
               /\ i \in callbacks' <=> i \in callbacks
    BY <1>1, <2>1, <2>4 DEF Ask, IInv, TypeOK, InHand
  <2>5. QED
    BY <1>2, <1>3, <2>1, <2>2, <2>3, <2>4 DEF IInv, CountingOK
<1>10. SlicesOK'
  <2>1. vals' = vals /\ recv' = recv
    BY DEF Ask
  <2>2. \A i \in Id \ {id} : (IsPull(i) <=> IsPull(i)') /\ Pending(i)' = Pending(i)
    BY <1>2 DEF IsPull
  <2>3. DOMAIN vals[id] = r.keys \/ Sliced(r) # {}
    BY <1>4, <1>5
  <2>4. QED
    BY <1>2, <1>3, <2>1, <2>2, <2>3 DEF IInv, SlicesOK
<1>11. StoreOK'
  <2>1. store' = store
    BY DEF Ask
  <2>2. \A k \in r.keys : Home[k] \in Sliced(r)
    BY DEF Sliced
  <2>3. QED
    BY <1>2, <1>3, <2>1, <2>2 DEF IInv, StoreOK, IsPull
<1>12. QED
  BY <1>2, <1>6, <1>7, <1>8, <1>9, <1>10, <1>11 DEF IInv

----------------------------------------------------------------------------
(* Steps of callers that move no response preserve the invariant, when they *)
(* move slices only from a caller to the wire.                              *)
LEMMA IInvCaller ==
  ASSUME IInv, TypeOK', CallersOK', \A i \in Id : Unserved(i)' = Unserved(i),
         UNCHANGED <<size, got, ask, worker, resps, hand, store, vals, ran>>
  PROVE  IInv'
<1> USE DEF IInv, worker
<1>1. \A i \in Id : Pending(i)' = Pending(i) /\ (Asked(i) <=> Asked(i)') /\ InHand(i)' = InHand(i)
  BY DEF Pending, Answered, Asked, InHand, Owner
<1>2. \A i \in Id : (IsPull(i) <=> IsPull(i)') /\ \A s \in Server : Slice(i, s)' = Slice(i, s)
  BY DEF IsPull, Slice
<1>3. FreshOK'
  BY <1>1 DEF FreshOK, Owner
<1>4. ResponsesOK'
  <2>1. \A e \in resps \cup recv : e.id \in Id /\ e.server \in Server
    BY DEF TypeOK, IsResponse
  <2>2. QED
    BY <1>1, <1>2, <2>1 DEF ResponsesOK
<1>5. CountingOK'
  BY <1>1 DEF CountingOK, Owner
<1>6. SlicesOK'
  BY <1>1, <1>2 DEF SlicesOK
<1>7. StoreOK'
  BY <1>1, <1>2 DEF StoreOK
<1>8. QED
  BY <1>3, <1>4, <1>5, <1>6, <1>7

(* Sending a slice preserves the invariant: only its place changes.         *)
LEMMA IInvSendSlice ==
  ASSUME IInv, TypeOK', NEW c \in Caller, NEW s \in Server, SendSlice(c, s)
  PROVE  IInv' /\ \A i \in Id : Unserved(i)' = Unserved(i)
<1> DEFINE id == cur[c]
<1>1. TypeOK /\ CallersOK
  BY DEF IInv
<1>2. id \in Id /\ pc[c] = "send" /\ s \in todo[c]
  BY <1>1 DEF CallersOK, SendSlice
<1>3. /\ reqs' = reqs \cup {<<id, s>>} /\ todo' = [todo EXCEPT ![c] = @ \ {s}]
      /\ todo'[c] = todo[c] \ {s} /\ \A d \in Caller \ {c} : todo'[d] = todo[d]
  BY <1>1 DEF SendSlice, TypeOK
<1>4. \A d \in Caller \ {c} : pc'[d] = pc[d] /\ cur'[d] = cur[d]
  BY <1>1 DEF SendSlice, TypeOK
<1>5. \/ todo'[c] = {} /\ pc'[c] = "idle"
      \/ todo'[c] # {} /\ pc'[c] = "send" /\ cur'[c] = id
  BY <1>1, <1>2, <1>3 DEF SendSlice, TypeOK
<1>6. ASSUME NEW i \in Id PROVE Unserved(i)' = Unserved(i)
  <2>1. \A t \in Server : t \in Unserved(i)' <=> t \in Unserved(i)
    <3>1. CASE i = id
      BY <1>2, <1>3, <1>4, <1>5, <3>1 DEF Unserved
    <3>2. CASE i # id
      BY <1>2, <1>3, <1>4, <1>5, <3>2 DEF Unserved
    <3>3. QED
      BY <3>1, <3>2
  <2>2. Unserved(i)' \subseteq Server /\ Unserved(i) \subseteq Server
    BY <1>1 DEF TypeOK, Unserved
  <2>3. QED
    BY <2>1, <2>2
<1>7. CallersOK'
  <2>1. ask' = ask /\ woken' = woken
    BY DEF SendSlice, customer, history
  <2>2. \A d \in Caller \ {c} : pc[d] = "send" => cur[d] # id
    BY <1>1, <1>2 DEF CallersOK
  <2>3. \A d \in Caller : \A t \in todo'[d] : <<cur'[d], t>> \notin reqs'
    BY <1>1, <1>2, <1>3, <1>4, <1>5, <2>2 DEF CallersOK
  <2>4. \A d \in Caller : /\ pc'[d] # "idle" => cur'[d] \in Id /\ Owner(cur'[d]) = Uses[d] /\ Asked(cur[d])'
                          /\ pc'[d] = "send" <=> todo'[d] # {}
    BY <1>1, <1>2, <1>3, <1>4, <1>5, <2>1 DEF CallersOK, Asked
  <2>5. \A d, e \in Caller : pc'[d] = "send" /\ pc'[e] = "send" /\ cur'[d] = cur'[e] => d = e
    BY <1>1, <1>2, <1>4, <1>5 DEF CallersOK
  <2>6. \A d \in woken' : pc'[d] = "asleep"
    BY <1>1, <1>2, <1>4, <2>1 DEF CallersOK, TypeOK
  <2>7. QED
    BY <2>3, <2>4, <2>5, <2>6 DEF CallersOK, Owner, Asked
<1>8. QED
  BY <1>6, <1>7, IInvCaller DEF SendSlice, customer, history

(* The end of a server, waiting and waking preserve the invariant.          *)
LEMMA IInvRest ==
  ASSUME IInv, TypeOK',
         \/ \E i \in Id, s \in Server : Abort(i, s)
         \/ \E c \in Caller, i \in Id : Wait(c, i)
         \/ \E c \in Caller : Wake(c)
         \/ UNCHANGED vars
  PROVE  IInv' /\ \A i \in Id : Unserved(i)' = Unserved(i)
<1>1. TypeOK /\ CallersOK
  BY DEF IInv
<1>2. ASSUME UNCHANGED <<size, got, ask, todo, reqs, resps, worker, hand, store, vals, ran>>,
             CallersOK',
             \A c \in Caller : pc[c] = "send" <=> pc'[c] = "send",
             \A c \in Caller : pc[c] = "send" => cur'[c] = cur[c]
      PROVE  IInv' /\ \A i \in Id : Unserved(i)' = Unserved(i)
  <2>1. \A i \in Id : Unserved(i)' = Unserved(i)
    BY <1>2 DEF Unserved
  <2>2. QED
    BY <1>2, <2>1, IInvCaller
<1>3. ASSUME NEW i \in Id, NEW s \in Server, Abort(i, s)
      PROVE  IInv' /\ \A j \in Id : Unserved(j)' = Unserved(j)
  BY <1>1, <1>2, <1>3 DEF Abort, customer, threads, history, CallersOK, Asked
<1>4. ASSUME NEW c \in Caller, NEW i \in Id, Wait(c, i)
      PROVE  IInv' /\ \A j \in Id : Unserved(j)' = Unserved(j)
  <2>1. /\ \A d \in Caller \ {c} : pc'[d] = pc[d] /\ cur'[d] = cur[d]
        /\ pc[c] = "idle"
        /\ (pc'[c] = "idle" \/ (pc'[c] = "asleep" /\ cur'[c] = i))
    BY <1>1, <1>4 DEF Wait, TypeOK
  <2>2. Owner(i) = Uses[c] /\ ask[i] # None /\ UNCHANGED <<ask, todo, reqs, woken>>
    BY <1>4 DEF Wait, customer
  <2>3. CallersOK'
    <3>1. c \notin woken /\ todo[c] = {} /\ woken \subseteq Caller
      BY <1>1, <2>1 DEF CallersOK, TypeOK
    <3>2. \A d \in woken' : pc'[d] = "asleep"
      BY <1>1, <2>1, <2>2, <3>1 DEF CallersOK
    <3>3. \A d, e \in Caller : pc'[d] = "send" /\ pc'[e] = "send" /\ cur'[d] = cur'[e] => d = e
      BY <1>1, <2>1 DEF CallersOK
    <3>4. \A d \in Caller :
            /\ pc'[d] # "idle" => cur'[d] \in Id /\ Owner(cur'[d]) = Uses[d] /\ Asked(cur[d])'
            /\ pc'[d] = "send" <=> todo'[d] # {}
            /\ \A s \in todo'[d] : <<cur'[d], s>> \notin reqs'
      BY <1>1, <2>1, <2>2, <3>1 DEF CallersOK, Asked
    <3>5. QED
      BY <3>2, <3>3, <3>4 DEF CallersOK, Asked, Owner
  <2>4. UNCHANGED <<size, got, ask, todo, reqs, resps, worker, hand, store, vals, ran>>
    BY <1>4 DEF Wait, customer
  <2>5. QED
    BY <1>2, <2>1, <2>3, <2>4
<1>5. ASSUME NEW c \in Caller, Wake(c)
      PROVE  IInv' /\ \A j \in Id : Unserved(j)' = Unserved(j)
  <2>1. /\ \A d \in Caller \ {c} : pc'[d] = pc[d] /\ cur'[d] = cur[d]
        /\ pc[c] = "asleep"
        /\ (pc'[c] = "idle" \/ (pc'[c] = "asleep" /\ cur'[c] = cur[c]))
    BY <1>1, <1>5 DEF Wake, TypeOK, CallersOK
  <2>2. UNCHANGED <<ask, todo, reqs>> /\ woken' = woken \ {c}
    BY <1>5 DEF Wake
  <2>3. CallersOK'
    BY <1>1, <2>1, <2>2 DEF CallersOK, Asked, Owner, TypeOK
  <2>4. UNCHANGED <<size, got, ask, todo, reqs, resps, worker, hand, store, vals, ran>>
    BY <1>5 DEF Wake
  <2>5. QED
    BY <1>2, <2>1, <2>3, <2>4
<1>6. ASSUME UNCHANGED vars
      PROVE  IInv' /\ \A j \in Id : Unserved(j)' = Unserved(j)
  BY <1>1, <1>2, <1>6 DEF vars, customer, threads, history, CallersOK, Asked
<1>7. QED
  BY <1>3, <1>4, <1>5, <1>6

----------------------------------------------------------------------------
(* Serving turns a slice that was not served into a response that is the    *)
(* only one of its server to the request.                                   *)
LEMMA ServeShape ==
  ASSUME IInv, NEW id \in Id, NEW s \in Server, Serve(id, s)
  PROVE  /\ s \in Unserved(id) /\ Asked(id) /\ ask[id] \in AnyRequest
         /\ \A f \in resps \cup recv : f.id = id => f.server # s
         /\ \A i \in Id : Unserved(i)' = IF i = id THEN Unserved(id) \ {s} ELSE Unserved(i)
         /\ \A i \in Id : Answered(i)' = IF i = id THEN Answered(id) \cup {s} ELSE Answered(i)
         /\ \A i \in Id : Pending(i)' = Pending(i)
<1>1. TypeOK /\ CallersOK /\ FreshOK /\ ResponsesOK
  BY DEF IInv
<1>2. s \in Unserved(id)
  BY <1>1, UnservedShape DEF Serve
<1>3. Asked(id) /\ ask[id] \in AnyRequest
  BY <1>1, <1>2 DEF FreshOK, Pending, TypeOK, Asked
<1>4. \A f \in resps \cup recv : f.id = id => f.server # s
  BY <1>1, <1>2 DEF ResponsesOK
<1>5. reqs' = reqs \ {<<id, s>>} /\ pc' = pc /\ cur' = cur /\ todo' = todo
  BY DEF Serve, threads
<1>6. \A c \in Caller : pc[c] = "send" /\ cur[c] = id => s \notin todo[c]
  BY <1>1 DEF CallersOK, Serve
<1>7. \A i \in Id : Unserved(i)' = IF i = id THEN Unserved(id) \ {s} ELSE Unserved(i)
  <2>1. Unserved(id)' = Unserved(id) \ {s}
    BY <1>5, <1>6 DEF Unserved
  <2>2. \A i \in Id \ {id} : Unserved(i)' = Unserved(i)
    BY <1>5 DEF Unserved
  <2>3. QED
    BY <2>1, <2>2
<1>8. PICK e : resps' = resps \cup {e} /\ e.id = id /\ e.server = s
  <2> DEFINE K == IF ask[id].kind = "push" THEN {} ELSE Slice(id, s)
             e == [id |-> id, server |-> s, vals |-> [k \in K |-> store[k]]]
  <2>1. resps' = resps \cup {e}
    BY DEF Serve
  <2>2. e.id = id /\ e.server = s
    OBVIOUS
  <2> HIDE DEF e
  <2>3. QED
    BY <2>1, <2>2
<1>9. \A i \in Id : Answered(i)' = IF i = id THEN Answered(id) \cup {s} ELSE Answered(i)
  <2>1. Answered(id)' = Answered(id) \cup {s}
    BY <1>8 DEF Answered
  <2>2. \A i \in Id \ {id} : Answered(i)' = Answered(i)
    BY <1>8 DEF Answered
  <2>3. QED
    BY <2>1, <2>2
<1>10. \A i \in Id : Pending(i)' = Pending(i)
  BY <1>2, <1>7, <1>9 DEF Pending
<1>11. QED
  BY <1>2, <1>3, <1>4, <1>7, <1>9, <1>10

(* Serving preserves the invariant: the store gets a push of which the key  *)
(* held nothing.                                                            *)
LEMMA IInvServe ==
  ASSUME IInv, TypeOK', NEW id \in Id, NEW s \in Server, Serve(id, s)
  PROVE  IInv'
<1>1. /\ s \in Unserved(id) /\ Asked(id) /\ ask[id] \in AnyRequest
      /\ \A f \in resps \cup recv : f.id = id => f.server # s
      /\ \A i \in Id : Unserved(i)' = IF i = id THEN Unserved(id) \ {s} ELSE Unserved(i)
      /\ \A i \in Id : Pending(i)' = Pending(i)
  BY ServeShape
<1>2. /\ UNCHANGED <<size, got, woken, ask, callbacks, recv, pc, cur, todo, hand, vals, ran>>
      /\ reqs' \subseteq reqs
  BY DEF Serve, customer, worker, threads, history
<1>3. \A i \in Id : (Asked(i) <=> Asked(i)') /\ (IsPull(i) <=> IsPull(i)') /\ InHand(i)' = InHand(i)
  BY <1>2 DEF Asked, IsPull, InHand, Owner
<1>4. CallersOK'
  BY <1>2 DEF IInv, CallersOK, Asked, Owner
<1>5. FreshOK'
  BY <1>1, <1>2, <1>3 DEF IInv, FreshOK, Owner
<1>6. ResponsesOK'
  <2>1. PICK e : /\ resps' = resps \cup {e} /\ e.id = id /\ e.server = s
                 /\ DOMAIN e.vals = IF IsPull(id) THEN Slice(id, s) ELSE {}
    <3>1. ask[id].kind = "push" <=> ~IsPull(id)
      BY <1>1, SlicedShape DEF IsPull
    <3> DEFINE K == IF ask[id].kind = "push" THEN {} ELSE Slice(id, s)
               e == [id |-> id, server |-> s, vals |-> [k \in K |-> store[k]]]
    <3>2. resps' = resps \cup {e}
      BY DEF Serve
    <3>3. e.id = id /\ e.server = s /\ DOMAIN e.vals = K
      OBVIOUS
    <3>4. K = IF IsPull(id) THEN Slice(id, s) ELSE {}
      BY <3>1
    <3> HIDE DEF e, K
    <3>5. QED
      BY <3>2, <3>3, <3>4
  <2>2. \A f \in resps \cup recv : f.id \in Id /\ f.server \in Server
    BY DEF IInv, TypeOK, IsResponse
  <2>3. \A i \in Id, t \in Server : Slice(i, t)' = Slice(i, t)
    BY <1>2 DEF Slice
  <2>4. \A f \in resps' \cup recv' :
          /\ Asked(f.id)' /\ f.server \notin Unserved(f.id)'
          /\ DOMAIN f.vals = IF IsPull(f.id)' THEN Slice(f.id, f.server)' ELSE {}
    BY <1>1, <1>2, <1>3, <2>1, <2>2, <2>3 DEF IInv, ResponsesOK
  <2>5. \A f, g \in resps' \cup recv' : f.id = g.id /\ f.server = g.server => f = g
    BY <1>1, <1>2, <2>1 DEF IInv, ResponsesOK
  <2>6. \A f \in recv' : f \notin resps' /\ IsPull(f.id)' /\ Pending(f.id)' # {}
    BY <1>1, <1>2, <1>3, <2>1, <2>2 DEF IInv, ResponsesOK
  <2>7. QED
    BY <2>4, <2>5, <2>6 DEF ResponsesOK
<1>7. CountingOK'
  BY <1>1, <1>2, <1>3 DEF IInv, CountingOK, Owner
<1>8. SlicesOK'
  BY <1>1, <1>2, <1>3 DEF IInv, SlicesOK
<1>9. StoreOK'
  <2>1. store \in [Key -> Tally] /\ \A k \in Key : k \in Slice(id, s) <=> k \in ask[id].keys /\ Home[k] = s
    BY DEF IInv, TypeOK, Slice
  <2>2. CASE IsPull(id)
    <3>1. store' = store
      BY <2>2 DEF Serve, IsPull
    <3>2. QED
      BY <1>1, <1>2, <1>3, <2>2, <3>1 DEF IInv, StoreOK
  <2>3. CASE ~IsPull(id)
    <3>1. ask[id].kind = "push"
      BY <1>1, <2>3, SlicedShape DEF IsPull
    <3>2. \A k \in Key, i \in Id :
            store'[k][i] = IF k \in Slice(id, s) /\ i = id THEN store[k][i] + 1 ELSE store[k][i]
      BY <2>1, <3>1 DEF Serve, Tally
    <3>3. \A k \in Key : k \in Slice(id, s) => store[k][id] = 0
      BY <1>1, <2>1 DEF IInv, StoreOK
    <3>4. ASSUME NEW k \in Key, NEW i \in Id
          PROVE  store'[k][i] = IF Asked(i) /\ ~IsPull(i) /\ k \in ask[i].keys /\ Home[k] \notin Unserved(i)'
                                  THEN 1 ELSE 0
      <4>1. CASE k \in Slice(id, s) /\ i = id
        BY <1>1, <2>1, <2>3, <3>2, <3>3, <4>1
      <4>2. CASE ~(k \in Slice(id, s) /\ i = id)
        <5>1. i = id /\ k \in ask[i].keys => Home[k] # s
          BY <2>1, <4>2
        <5>2. k \in ask[i].keys => (Home[k] \in Unserved(i)' <=> Home[k] \in Unserved(i))
          BY <1>1, <5>1
        <5>3. QED
          BY <3>2, <4>2, <5>2 DEF IInv, StoreOK
      <4>3. QED
        BY <4>1, <4>2
    <3>5. QED
      BY <1>2, <1>3, <3>4 DEF StoreOK
  <2>4. QED
    BY <2>2, <2>3
<1>10. QED
  BY <1>4, <1>5, <1>6, <1>7, <1>8, <1>9 DEF IInv

----------------------------------------------------------------------------
\* recv_kvs_ when the callback of e, or of nobody, is about to look at it
Received(e) == recv \cup IF ask[e.id].kind = "pull" THEN {e} ELSE {}

(* Processing takes the only response of its server to the request; the     *)
(* callback runs when it was the last one.                                  *)
LEMMA ProcessShape ==
  ASSUME IInv, NEW w \in Worker, NEW e \in resps, Process(w, e)
  PROVE  /\ e.id \in Id /\ Asked(e.id) /\ Owner(e.id) = w /\ ran[e.id] = 0 /\ e.id \in callbacks
         /\ e.server \in Pending(e.id) /\ e.server \notin Unserved(e.id)
         /\ \A i \in Id : Unserved(i)' = Unserved(i)
         /\ \A i \in Id : Pending(i)' = IF i = e.id THEN Pending(e.id) \ {e.server} ELSE Pending(i)
         /\ Cardinality(Pending(e.id)') = Cardinality(Pending(e.id)) - 1
         /\ IF Pending(e.id)' = {}
              THEN RunCallback(e.id, Received(e))
              ELSE recv' = Received(e) /\ UNCHANGED <<callbacks, ran, vals>>
<1>1. TypeOK /\ ResponsesOK /\ CountingOK
  BY DEF IInv
<1>2. e.id \in Id /\ Asked(e.id) /\ Owner(e.id) = w /\ e.server \in Server
  BY <1>1 DEF TypeOK, IsResponse, ResponsesOK, Process
<1>3. e.server \in Answered(e.id) /\ e.server \notin Unserved(e.id)
  BY <1>1 DEF Answered, ResponsesOK
<1>4. Pending(e.id) # {} /\ e.server \in Pending(e.id)
  BY <1>3 DEF Pending
<1>5. ran[e.id] = 0 /\ e.id \in callbacks
  BY <1>1, <1>2, <1>4 DEF CountingOK
<1>6. \A i \in Id : Unserved(i)' = Unserved(i)
  BY DEF Process, threads, Unserved
<1>7. resps' = resps \ {e}
  BY DEF Process
<1>8. \A i \in Id : Pending(i)' = IF i = e.id THEN Pending(e.id) \ {e.server} ELSE Pending(i)
  <2>1. \A f \in resps : f.id = e.id /\ f.server = e.server => f = e
    BY <1>1 DEF ResponsesOK
  <2>2. Answered(e.id)' = Answered(e.id) \ {e.server}
    BY <1>7, <2>1 DEF Answered
  <2>3. \A i \in Id \ {e.id} : Answered(i)' = Answered(i)
    BY <1>7 DEF Answered
  <2>4. QED
    BY <1>3, <1>6, <2>2, <2>3 DEF Pending
<1>9. /\ IsFiniteSet(Pending(e.id)) /\ Cardinality(Pending(e.id)) \in Nat
      /\ IsFiniteSet(Pending(e.id) \ {e.server})
      /\ Cardinality(Pending(e.id) \ {e.server}) = Cardinality(Pending(e.id)) - 1
      /\ Cardinality(Pending(e.id) \ {e.server}) = 0 <=> Pending(e.id) \ {e.server} = {}
  BY <1>1, <1>2, <1>4, PendingFinite, FS_RemoveElement, FS_EmptySet
<1>10. Pending(e.id)' = Pending(e.id) \ {e.server}
  BY <1>2, <1>8
<1>11. InHand(e.id) = 0
  BY <1>2, NoneAssumption DEF InHand, Process
<1>12. got[e.id] + Cardinality(Pending(e.id)) = NumServers /\ got[e.id] \in Nat
  <2>1. got[e.id] + Cardinality(Pending(e.id)) + InHand(e.id) = NumServers
    BY <1>1, <1>2 DEF CountingOK
  <2>2. got[e.id] \in Nat
    BY <1>1, <1>2, ServersAssumption DEF TypeOK
  <2>3. QED
    BY <1>9, <1>11, <2>1, <2>2
<1>13. got[e.id] = NumServers - 1 <=> Pending(e.id)' = {}
  BY <1>9, <1>10, <1>12, ServersAssumption
<1>14. IF got[e.id] = NumServers - 1
         THEN RunCallback(e.id, Received(e))
         ELSE recv' = Received(e) /\ UNCHANGED <<callbacks, ran, vals>>
  BY DEF Process, Received
<1>15. QED
  BY <1>2, <1>3, <1>4, <1>5, <1>6, <1>8, <1>9, <1>10, <1>13, <1>14

(* When the last response to a pull is taken, what is received has all its  *)
(* keys.                                                                    *)
LEMMA AllReceived ==
  ASSUME IInv, NEW w \in Worker, NEW e \in resps, Process(w, e),
         IsPull(e.id), Pending(e.id)' = {}
  PROVE  DOMAIN Merge({f \in Received(e) : f.id = e.id}) = ask[e.id].keys
<1> DEFINE R == {f \in Received(e) : f.id = e.id}
<1>1. /\ e.id \in Id /\ Asked(e.id)
      /\ \A s \in Pending(e.id) : s = e.server
  BY ProcessShape
<1>2. Received(e) = recv \cup {e}
  BY DEF Received, IsPull
<1>3. \A f \in R : IsResponse(f) /\ DOMAIN f.vals = Slice(e.id, f.server)
  BY <1>2 DEF IInv, TypeOK, ResponsesOK
<1>4. DOMAIN Merge(R) = UNION {DOMAIN f.vals : f \in R}
  BY <1>3, MergeReads
<1>5. DOMAIN Merge(R) \subseteq ask[e.id].keys
  BY <1>3, <1>4 DEF Slice
<1>6. ASSUME NEW k \in ask[e.id].keys PROVE k \in DOMAIN Merge(R)
  <2>1. Home[k] \in Sliced(ask[e.id])
    BY DEF Sliced
  <2>2. Pending(e.id) # {}
    BY ProcessShape
  <2>3. Home[k] \in Pending(e.id) \/ \E f \in recv : f.id = e.id /\ f.server = Home[k]
    BY <1>1, <2>1, <2>2 DEF IInv, SlicesOK
  <2>4. \E f \in R : f.server = Home[k]
    BY <1>1, <1>2, <2>3
  <2>5. \E f \in R : k \in DOMAIN f.vals
    BY <1>3, <2>4 DEF Slice
  <2>6. QED
    BY <1>4, <2>5
<1>7. QED
  BY <1>5, <1>6

(* Processing a response preserves the invariant.                           *)
LEMMA IInvProcess ==
  ASSUME IInv, TypeOK', NEW w \in Worker, NEW e \in resps, Process(w, e)
  PROVE  IInv'
<1> DEFINE id == e.id
<1>1. /\ id \in Id /\ Asked(id) /\ Owner(id) = w /\ ran[id] = 0 /\ id \in callbacks
      /\ e.server \in Pending(id) /\ e.server \notin Unserved(id)
      /\ \A i \in Id : Unserved(i)' = Unserved(i)
      /\ \A i \in Id : Pending(i)' = IF i = id THEN Pending(id) \ {e.server} ELSE Pending(i)
      /\ Cardinality(Pending(id)') = Cardinality(Pending(id)) - 1
  BY ProcessShape
<1>2. IF Pending(id)' = {}
        THEN RunCallback(id, Received(e))
        ELSE recv' = Received(e) /\ UNCHANGED <<callbacks, ran, vals>>
  BY ProcessShape
<1>3. /\ UNCHANGED <<size, got, woken, ask, pc, cur, todo, reqs, store>>
      /\ resps' = resps \ {e} /\ hand' = [hand EXCEPT ![w] = id] /\ hand[w] = None
  BY DEF Process, customer, threads
<1>4. \A i \in Id : (Asked(i) <=> Asked(i)') /\ (IsPull(i) <=> IsPull(i)')
  BY <1>3 DEF Asked, IsPull
<1>5. hand' = [hand EXCEPT ![w] = id] /\ hand'[w] = id /\ \A v \in Worker \ {w} : hand'[v] = hand[v]
  BY <1>3 DEF IInv, TypeOK
<1>6. /\ InHand(id) = 0 /\ InHand(id)' = 1
      /\ \A i \in Id \ {id} : InHand(i)' = InHand(i)
  <2>1. \A i \in Id : Owner(i) \in Worker
    BY IdShape DEF Owner
  <2>2. \A i \in Id : i # None
    BY NoneAssumption
  <2>3. QED
    BY <1>1, <1>3, <1>5, <2>1, <2>2 DEF InHand, Owner
<1>7. /\ callbacks' = IF Pending(id)' = {} THEN callbacks \ {id} ELSE callbacks
      /\ \A i \in Id : /\ ran'[i] = IF i = id /\ Pending(id)' = {} THEN 1 ELSE ran[i]
                       /\ i # id => vals'[i] = vals[i]
  <2>1. CASE Pending(id)' = {}
    BY <1>1, <1>2, <2>1 DEF RunCallback, IInv, TypeOK
  <2>2. CASE Pending(id)' # {}
    BY <1>2, <2>2
  <2>3. QED
    BY <2>1, <2>2
<1>8. recv' = IF Pending(id)' = {} THEN {f \in Received(e) : f.id # id} ELSE Received(e)
  BY <1>1, <1>2 DEF RunCallback
<1>9. Received(e) = IF IsPull(id) THEN recv \cup {e} ELSE recv
  BY DEF Received, IsPull
<1>10. CallersOK'
  BY <1>3 DEF IInv, CallersOK, Asked, Owner
<1>11. FreshOK'
  <2>1. \A i \in Id : Asked(i)' <=> i[2] < size'[i[1]]
    BY <1>3, <1>4 DEF IInv, FreshOK
  <2>2. ASSUME NEW i \in Id, ~Asked(i)'
        PROVE  /\ Pending(i)' = {} /\ hand'[Owner(i)] # i /\ i \notin callbacks'
               /\ ran'[i] = 0 /\ got'[i] = 0 /\ DOMAIN vals'[i] = {}
    <3>1. i # id /\ ~Asked(i)
      BY <1>1, <1>4, <2>2
    <3>2. /\ Pending(i) = {} /\ hand[Owner(i)] # i /\ i \notin callbacks
          /\ ran[i] = 0 /\ got[i] = 0 /\ DOMAIN vals[i] = {}
      BY <3>1 DEF IInv, FreshOK
    <3>3. hand'[Owner(i)] # i
      BY <1>5, <3>1, <3>2, IdShape DEF Owner
    <3>4. QED
      BY <1>1, <1>3, <1>7, <3>1, <3>2, <3>3
  <2>3. QED
    BY <2>1, <2>2 DEF FreshOK, Asked, Owner
<1>12. ResponsesOK'
  <2>1. recv' \subseteq recv \cup {e} /\ resps' \cup recv' \subseteq resps \cup recv
    BY <1>3, <1>8, <1>9
  <2>2. \A f \in resps \cup recv : f.id \in Id /\ f.server \in Server
    BY DEF IInv, TypeOK, IsResponse
  <2>3. \A i \in Id, t \in Server : Slice(i, t)' = Slice(i, t)
    BY <1>3 DEF Slice
  <2>4. \A f \in resps' \cup recv' :
          /\ Asked(f.id)' /\ f.server \notin Unserved(f.id)'
          /\ DOMAIN f.vals = IF IsPull(f.id)' THEN Slice(f.id, f.server)' ELSE {}
    BY <1>1, <1>4, <2>1, <2>2, <2>3 DEF IInv, ResponsesOK
  <2>5. \A f, g \in resps' \cup recv' : f.id = g.id /\ f.server = g.server => f = g
    BY <2>1 DEF IInv, ResponsesOK
  <2>6. ASSUME NEW f \in recv' PROVE f \notin resps' /\ IsPull(f.id)' /\ Pending(f.id)' # {}
    <3>1. f \in recv => f \notin resps /\ IsPull(f.id) /\ Pending(f.id) # {}
      BY DEF IInv, ResponsesOK
    <3>2. f \notin resps' /\ IsPull(f.id)' /\ f.id \in Id
      BY <1>3, <1>4, <1>8, <1>9, <2>1, <2>2, <3>1
    <3>3. f.id = id => Pending(id)' # {}
      BY <1>8
    <3>4. f.id # id => f \in recv
      BY <2>1
    <3>5. QED
      BY <1>1, <3>1, <3>2, <3>3, <3>4
  <2>7. QED
    BY <2>4, <2>5, <2>6 DEF ResponsesOK
<1>13. CountingOK'
  <2>1. got[id] \in Nat /\ Cardinality(Pending(id)) \in Nat
    BY <1>1, PendingFinite DEF IInv, TypeOK
  <2>2. /\ got[id] + Cardinality(Pending(id)) = NumServers
        /\ Unserved(id) \subseteq Sliced(ask[id])
    BY <1>1, <1>6, <2>1 DEF IInv, CountingOK
  <2>3. got'[id] + Cardinality(Pending(id)') + InHand(id)' = NumServers
    BY <1>1, <1>3, <1>6, <2>1, <2>2, ServersAssumption
  <2>4. /\ id \in callbacks' <=> Pending(id)' # {}
        /\ ran'[id] = IF Pending(id)' = {} THEN 1 ELSE 0
    BY <1>1, <1>7
  <2>5. ASSUME NEW i \in Id \ {id}, Asked(i)'
        PROVE  /\ got'[i] + Cardinality(Pending(i)') + InHand(i)' = NumServers
               /\ Unserved(i)' \subseteq Sliced(ask'[i])
               /\ i \in callbacks' <=> Pending(i)' # {}
               /\ ran'[i] = IF Pending(i)' = {} THEN 1 ELSE 0
    BY <1>1, <1>3, <1>4, <1>6, <1>7, <2>5 DEF IInv, CountingOK
  <2>6. \A v \in Worker : hand'[v] # None => Owner(hand'[v]) = v
    BY <1>1, <1>5 DEF IInv, CountingOK
  <2>7. QED
    BY <1>1, <1>3, <2>2, <2>3, <2>4, <2>5, <2>6 DEF CountingOK, Owner
<1>14. SlicesOK'
  <2>1. ASSUME NEW i \in Id \ {id}, Asked(i), IsPull(i)
        PROVE  IF Pending(i)' = {}
                 THEN DOMAIN vals'[i] = ask'[i].keys
                 ELSE \A s \in Sliced(ask'[i]) :
                        s \in Pending(i)' \/ \E f \in recv' : f.id = i /\ f.server = s
    <3>1. \A f \in recv : f.id = i => f \in recv'
      BY <1>8, <1>9, <2>1
    <3>2. QED
      BY <1>1, <1>3, <1>7, <2>1, <3>1 DEF IInv, SlicesOK
  <2>2. ASSUME IsPull(id), Pending(id)' = {} PROVE DOMAIN vals'[id] = ask'[id].keys
    <3>1. vals'[id] = Merge({f \in Received(e) : f.id = id})
      BY <1>1, <1>2, <2>2 DEF RunCallback, IInv, TypeOK
    <3>2. QED
      BY <1>3, <2>2, <3>1, AllReceived
  <2>3. ASSUME IsPull(id), Pending(id)' # {}, NEW s \in Sliced(ask'[id])
        PROVE  s \in Pending(id)' \/ \E f \in recv' : f.id = id /\ f.server = s
    <3>1. recv' = recv \cup {e}
      BY <1>8, <1>9, <2>3
    <3>2. Pending(id) # {} /\ s \in Sliced(ask[id])
      BY <1>1, <1>3
    <3>3. s \in Pending(id) \/ \E f \in recv : f.id = id /\ f.server = s
      BY <1>1, <2>3, <3>2 DEF IInv, SlicesOK
    <3>4. QED
      BY <1>1, <3>1, <3>3
  <2>4. QED
    BY <1>4, <2>1, <2>2, <2>3 DEF SlicesOK
<1>15. StoreOK'
  BY <1>1, <1>3, <1>4 DEF IInv, StoreOK
<1>16. QED
  BY <1>10, <1>11, <1>12, <1>13, <1>14, <1>15 DEF IInv

(* Counting a response preserves the invariant: it is no longer in hand.    *)
LEMMA IInvCount ==
  ASSUME IInv, TypeOK', NEW w \in Worker, Count(w)
  PROVE  IInv'
<1>0. PICK id : id = hand[w]
  OBVIOUS
<1>1. id \in Id /\ Owner(id) = w /\ Asked(id) /\ got[id] \in Nat
  BY <1>0, HandShape DEF Count
<1>2. /\ UNCHANGED <<size, ask, callbacks, recv, pc, cur, todo, reqs, resps, store, vals, ran>>
      /\ hand' = [hand EXCEPT ![w] = None] /\ got' = [got EXCEPT ![id] = @ + 1]
      /\ woken' = woken \cup {c \in Caller : Uses[c] = w /\ Asleep(c)}
  BY <1>0 DEF Count, worker, threads, history
<1>3. /\ hand'[w] = None /\ \A v \in Worker \ {w} : hand'[v] = hand[v]
      /\ got'[id] = got[id] + 1 /\ \A i \in Id \ {id} : got'[i] = got[i]
  BY <1>1, <1>2 DEF IInv, TypeOK
<1>4. \A i \in Id : /\ (Asked(i) <=> Asked(i)') /\ (IsPull(i) <=> IsPull(i)')
                    /\ Unserved(i)' = Unserved(i) /\ Pending(i)' = Pending(i)
                    /\ \A s \in Server : Slice(i, s)' = Slice(i, s)
  BY <1>2 DEF Asked, IsPull, Unserved, Pending, Answered, Slice
<1>5. /\ InHand(id) = 1 /\ InHand(id)' = 0
      /\ \A i \in Id \ {id} : InHand(i)' = InHand(i)
  <2>1. \A i \in Id : Owner(i) \in Worker /\ i # None
    BY IdShape, NoneAssumption DEF Owner
  <2>2. QED
    BY <1>0, <1>1, <1>3, <2>1 DEF InHand, Owner
<1>6. CallersOK'
  BY <1>2 DEF IInv, CallersOK, Asked, Owner, Asleep
<1>7. FreshOK'
  <2>1. ASSUME NEW i \in Id, ~Asked(i) PROVE hand'[Owner(i)] # i /\ got'[i] = 0
    <3>1. i # id /\ hand[Owner(i)] # i /\ got[i] = 0 /\ Owner(i) \in Worker /\ i # None
      BY <1>1, <2>1, IdShape, NoneAssumption DEF IInv, FreshOK, Owner
    <3>2. QED
      BY <1>3, <3>1
  <2>2. QED
    BY <1>2, <1>4, <2>1 DEF IInv, FreshOK, Owner
<1>8. ResponsesOK'
  <2>1. \A e \in resps \cup recv : e.id \in Id /\ e.server \in Server
    BY DEF IInv, TypeOK, IsResponse
  <2>2. QED
    BY <1>2, <1>4, <2>1 DEF IInv, ResponsesOK
<1>9. CountingOK'
  <2>1. Cardinality(Pending(id)) \in Nat
    BY <1>1, PendingFinite DEF IInv
  <2>2. got[id] + Cardinality(Pending(id)) + 1 = NumServers
    BY <1>1, <1>5 DEF IInv, CountingOK
  <2>3. got'[id] + Cardinality(Pending(id)') + InHand(id)' = NumServers
    BY <1>1, <1>3, <1>4, <1>5, <2>1, <2>2, ServersAssumption
  <2>4. \A v \in Worker : hand'[v] # None => Owner(hand'[v]) = v
    BY <1>3 DEF IInv, CountingOK
  <2>5. \A i \in Id : Asked(i)' => got'[i] + Cardinality(Pending(i)') + InHand(i)' = NumServers
    BY <1>3, <1>4, <1>5, <2>3 DEF IInv, CountingOK
  <2>6. QED
    BY <1>2, <1>4, <2>4, <2>5 DEF IInv, CountingOK, Owner
<1>10. SlicesOK'
  BY <1>2, <1>4 DEF IInv, SlicesOK
<1>11. StoreOK'
  BY <1>2, <1>4 DEF IInv, StoreOK
<1>12. QED
  BY <1>6, <1>7, <1>8, <1>9, <1>10, <1>11 DEF IInv

(* Every step preserves the invariant.                                      *)
LEMMA IInvNext == IInv /\ [Next]_vars => IInv'
<1> SUFFICES ASSUME IInv, [Next]_vars PROVE IInv'
  OBVIOUS
<1>1. TypeOK'
  BY TypeNext
<1>2. QED
  BY <1>1, IInvAsk, IInvSendSlice, IInvRest, IInvServe, IInvProcess, IInvCount DEF Next

(* When the count says so, nothing of a request is missing.                 *)
LEMMA FinishedShape ==
  ASSUME IInv, NEW id \in Id, Finished(id)
  PROVE  Asked(id) /\ Pending(id) = {} /\ Unserved(id) = {}
<1>1. Asked(id)
  BY ServersAssumption DEF IInv, FreshOK, Finished
<1>2. got[id] + Cardinality(Pending(id)) + InHand(id) = NumServers
  BY <1>1 DEF IInv, CountingOK
<1>3. Cardinality(Pending(id)) \in Nat /\ (Cardinality(Pending(id)) = 0 <=> Pending(id) = {})
  BY PendingFinite DEF IInv
<1>4. InHand(id) \in 0 .. 1
  BY DEF InHand
<1>5. Cardinality(Pending(id)) = 0
  BY <1>2, <1>3, <1>4, ServersAssumption DEF Finished
<1>6. QED
  BY <1>1, <1>3, <1>5 DEF Pending

(* In every behaviour Wait means that the request has had its effect, and   *)
(* the callback of a pull finds the slices of all its keys.                 *)
THEOREM WaitCorrect == Spec => [](TypeOK /\ WaitMeansDone /\ CallbackSeesAll)
<1>1. Init => IInv
  BY IInvInit
<1>2. IInv /\ [Next]_vars => IInv'
  BY IInvNext
<1>3. ASSUME IInv PROVE WaitMeansDone
  <2>1. ASSUME NEW id \in Id, Finished(id)
        PROVE  /\ ran[id] = 1 /\ id \notin callbacks /\ Stored(id) = {}
               /\ ask[id].kind = "push" => \A k \in ask[id].keys : store[k][id] = 1
               /\ ask[id].kind = "pull" => DOMAIN vals[id] = ask[id].keys
    <3>1. Asked(id) /\ Pending(id) = {} /\ Unserved(id) = {} /\ ask[id] \in AnyRequest
      BY <1>3, <2>1, FinishedShape DEF IInv, TypeOK, Asked
    <3>2. ran[id] = 1 /\ id \notin callbacks
      BY <1>3, <3>1 DEF IInv, CountingOK
    <3>3. Stored(id) = {}
      BY <1>3, <3>1 DEF IInv, ResponsesOK, Stored
    <3>4. ask[id].kind = "push" => \A k \in ask[id].keys : store[k][id] = 1
      BY <1>3, <3>1, SlicedShape DEF IInv, StoreOK, IsPull
    <3>5. IsPull(id) => DOMAIN vals[id] = ask[id].keys
      BY <1>3, <3>1 DEF IInv, SlicesOK
    <3>6. QED
      BY <3>2, <3>3, <3>4, <3>5 DEF IsPull
  <2>2. QED
    BY <2>1 DEF WaitMeansDone
<1>4. ASSUME IInv PROVE CallbackSeesAll
  <2>1. ASSUME NEW id \in Id, ran[id] > 0
        PROVE  /\ \A s \in Server : <<id, s>> \notin reqs
               /\ \A e \in resps : e.id # id
               /\ ask[id].kind = "pull" => DOMAIN vals[id] = ask[id].keys
    <3>1. Asked(id)
      BY <1>4, <2>1 DEF IInv, FreshOK
    <3>2. Pending(id) = {}
      BY <1>4, <2>1, <3>1 DEF IInv, CountingOK
    <3>3. \A s \in Server : <<id, s>> \notin reqs
      BY <3>2 DEF Pending, Unserved
    <3>4. \A e \in resps : e.id # id
      BY <3>2 DEF Pending, Answered
    <3>5. QED
      BY <1>4, <3>1, <3>2, <3>3, <3>4 DEF IInv, SlicesOK, IsPull
  <2>2. QED
    BY <2>1 DEF CallbackSeesAll
<1>5. IInv => TypeOK
  BY DEF IInv
<1>6. QED
  BY <1>1, <1>2, <1>3, <1>4, <1>5, PTL DEF Spec

----------------------------------------------------------------------------
\* The slices of id that have been served
Slices(id) == {e \in resps \cup recv : e.id = id}

(* A key that one response of a set has is read from it.                    *)
LEMMA MergeUnique ==
  ASSUME NEW R, NEW k
  PROVE  /\ (\A e \in R : k \notin DOMAIN e.vals) => k \notin DOMAIN Merge(R)
         /\ \A e \in R : (k \in DOMAIN e.vals /\ \A f \in R : k \in DOMAIN f.vals => f = e)
              => k \in DOMAIN Merge(R) /\ Merge(R)[k] = e.vals[k]
<1>1. DOMAIN Merge(R) = UNION {DOMAIN e.vals : e \in R}
  BY DEF Merge
<1>2. ASSUME NEW e \in R, k \in DOMAIN e.vals, \A f \in R : k \in DOMAIN f.vals => f = e
      PROVE  Merge(R)[k] = e.vals[k]
  <2>1. (CHOOSE f \in R : k \in DOMAIN f.vals) = e
    BY <1>2
  <2>2. Merge(R)[k] = (CHOOSE f \in R : k \in DOMAIN f.vals).vals[k]
    BY <1>1, <1>2 DEF Merge
  <2>3. QED
    BY <2>1, <2>2
<1>3. QED
  BY <1>1, <1>2

(* No two slices of a request have a key in common; those of a push have    *)
(* none.                                                                    *)
LEMMA SlicesApart ==
  ASSUME IInv, NEW id \in Id
  PROVE  /\ \A e, f \in Slices(id) : \A k : k \in DOMAIN e.vals /\ k \in DOMAIN f.vals => e = f
         /\ \A e \in Slices(id) : \A k \in DOMAIN e.vals : Home[k] = e.server
         /\ ~IsPull(id) => \A e \in Slices(id) : DOMAIN e.vals = {}
<1>1. \A e \in Slices(id) : DOMAIN e.vals = IF IsPull(id) THEN Slice(id, e.server) ELSE {}
  BY DEF IInv, ResponsesOK, Slices
<1>2. \A e \in Slices(id) : \A k \in DOMAIN e.vals : Home[k] = e.server
  BY <1>1 DEF Slice
<1>3. \A e, f \in Slices(id) : e.server = f.server => e = f
  BY DEF IInv, ResponsesOK, Slices
<1>4. QED
  BY <1>1, <1>2, <1>3

(* What a pull saw is unchanged when its slices, callback and vector are.   *)
LEMMA SeenFrame ==
  ASSUME NEW id \in Id, Slices(id)' = Slices(id), ran'[id] = ran[id], vals'[id] = vals[id]
  PROVE  \A k \in Key : Seen(id, k)' = Seen(id, k)
<1>1. Read(id)' = Read(id)
  BY DEF Read, Slices
<1>2. QED
  BY <1>1 DEF Seen, Zero

(* The variables of KVSpec are these.                                       *)
LEMMA AbsFrame ==
  ASSUME ask' = ask, store' = store, must' = must,
         \A i \in Id : Left(i)' = Left(i),
         \A i \in Id, k \in Key : Seen(i, k)' = Seen(i, k)
  PROVE  (done' = done => UNCHANGED Abs!vars)
BY DEF Abs!vars, Left, Seen, Remaining, Returned

(* The initial states are initial states of the abstract store.             *)
LEMMA InitRefines == Init => Abs!Init
<1> SUFFICES ASSUME Init PROVE Abs!Init
  OBVIOUS
<1>1. \A i \in Id : ask[i] = None /\ ran[i] = 0
  BY DEF Init
<1>2. \A i \in Id : \A k : k \notin DOMAIN Read(i)
  <2> SUFFICES ASSUME NEW i \in Id, NEW k PROVE k \notin DOMAIN Read(i)
    OBVIOUS
  <2>1. Read(i) = Merge({})
    BY <1>1 DEF Init, Read
  <2>2. QED
    BY <2>1, MergeUnique
<1>3. Returned = [i \in Id |-> [k \in Key |-> Zero]]
  BY <1>2 DEF Returned, Seen
<1>4. Remaining = [i \in Id |-> {}]
  BY <1>1 DEF Remaining, Left
<1>5. Zero = Abs!Zero
  BY DEF Zero, Abs!Zero
<1>6. QED
  BY <1>3, <1>4, <1>5 DEF Init, Abs!Init

(* Asking is asking: no server has served the request, so all is left.      *)
LEMMA AskRefines ==
  ASSUME IInv, NEW c \in Caller, NEW r \in Request[Uses[c]], Ask(c, r)
  PROVE  \E id \in Id, q \in AnyRequest : Abs!Ask(id, q)
<1>1. PICK id : id = <<Uses[c], size[Uses[c]]>>
  OBVIOUS
<1>2. /\ id \in Id /\ ~Asked(id) /\ r \in AnyRequest /\ r # None
      /\ ask' = [ask EXCEPT ![id] = r]
      /\ \A i \in Id \ {id} : ask'[i] = ask[i]
      /\ \A i \in Id : Unserved(i)' = IF i = id THEN Sliced(r) ELSE Unserved(i)
  BY <1>1, AskShape
<1>3. ask'[id] = r
  BY <1>2 DEF IInv, TypeOK
<1>4. \A k \in r.keys : Home[k] \in Sliced(r)
  BY DEF Sliced
<1>5. Left(id)' = r.keys /\ \A i \in Id \ {id} : Left(i)' = Left(i)
  <2>1. Unserved(id)' = Sliced(r) /\ ask'[id] # None
    BY <1>2, <1>3
  <2>2. Left(id)' = {k \in r.keys : Home[k] \in Sliced(r)}
    BY <1>3, <2>1 DEF Left
  <2>3. \A i \in Id \ {id} : ask'[i] = ask[i] /\ Unserved(i)' = Unserved(i)
    BY <1>2
  <2>4. \A i \in Id \ {id} : Left(i)' = Left(i)
    BY <2>3 DEF Left
  <2>5. QED
    BY <1>4, <2>2, <2>4
<1>6. \A i \in Id, k \in Key : Seen(i, k)' = Seen(i, k)
  <2>1. \A i \in Id : Slices(i)' = Slices(i) /\ vals'[i] = vals[i]
    BY DEF Ask, Slices
  <2>2. \A i \in Id \ {id} : ran'[i] = ran[i]
    BY <1>1 DEF Ask, IInv, TypeOK
  <2>3. ASSUME NEW k \in Key PROVE Seen(id, k) = Zero /\ Seen(id, k)' = Zero
    <3>1. DOMAIN vals[id] = {} /\ Pending(id) = {}
      BY <1>2 DEF IInv, FreshOK
    <3>2. \A e \in Slices(id) : FALSE
      BY <1>2 DEF IInv, ResponsesOK, Slices
    <3>3. k \notin DOMAIN Merge(Slices(id)) /\ k \notin DOMAIN Merge(Slices(id)')
      BY <2>1, <3>2, MergeUnique, <1>2
    <3>4. k \notin DOMAIN Read(id) /\ k \notin DOMAIN Read(id)'
      BY <1>2, <2>1, <3>1, <3>3 DEF Read, Slices, Merge
    <3>5. QED
      BY <3>4 DEF Seen, Zero
  <2>4. QED
    BY <2>1, <2>2, <2>3, SeenFrame
<1>7. Abs!Ask(id, r)
  <2>1. /\ [i \in Id |-> Left(i)]' = [[i \in Id |-> Left(i)] EXCEPT ![id] = r.keys]
        /\ [i \in Id |-> [k \in Key |-> Seen(i, k)]]' = [i \in Id |-> [k \in Key |-> Seen(i, k)]]
    BY <1>5, <1>6
  <2>2. must' = [must EXCEPT ![id] = done] /\ UNCHANGED <<store, done>> /\ ask[id] = None
    BY <1>1, <1>2 DEF Ask, Asked
  <2>3. QED
    BY <1>2, <2>1, <2>2 DEF Abs!Ask, Left, Seen, Remaining, Returned
<1>8. QED
  BY <1>2, <1>7

(* Serving a slice is adding it or reading it.                              *)
LEMMA ServeRefines ==
  ASSUME IInv, NEW id \in Id, NEW s \in Server, Serve(id, s)
  PROVE  \E K \in SUBSET Key : Abs!Add(id, K) \/ Abs!Read(id, K)
<1>1. /\ s \in Unserved(id) /\ Asked(id) /\ ask[id] \in AnyRequest
      /\ \A f \in resps \cup recv : f.id = id => f.server # s
      /\ \A i \in Id : Unserved(i)' = IF i = id THEN Unserved(id) \ {s} ELSE Unserved(i)
  BY ServeShape
<1>2. PICK K : K = Slice(id, s)
  OBVIOUS
<1>3. PICK e : e = [id |-> id, server |-> s,
                    vals |-> [k \in IF ask[id].kind = "push" THEN {} ELSE K |-> store[k]]]
  OBVIOUS
<1>4. /\ resps' = resps \cup {e} /\ UNCHANGED <<ask, recv, vals, ran, done, must>>
      /\ store' = IF ask[id].kind = "push"
                    THEN [k \in Key |-> IF k \in K THEN [store[k] EXCEPT ![id] = @ + 1] ELSE store[k]]
                    ELSE store
  BY <1>2, <1>3 DEF Serve, worker, history
<1>5. K \subseteq Key /\ K \subseteq Left(id) /\ K # {} /\ ask[id].kind \in {"push", "pull"}
  <2>1. s \in Sliced(ask[id])
    BY <1>1 DEF IInv, CountingOK
  <2>2. QED
    BY <1>1, <1>2, <2>1, SlicedShape DEF Slice, Sliced, Left, Asked
<1>6. Left(id)' = Left(id) \ K /\ \A i \in Id \ {id} : Left(i)' = Left(i)
  BY <1>1, <1>2, <1>4 DEF Left, Slice
<1>7. [i \in Id |-> Left(i)]' = [[i \in Id |-> Left(i)] EXCEPT ![id] = @ \ K]
  BY <1>6
<1>8. \A i \in Id \ {id}, k \in Key : Seen(i, k)' = Seen(i, k)
  <2>1. ASSUME NEW i \in Id \ {id} PROVE Slices(i)' = Slices(i)
    BY <1>3, <1>4 DEF Slices
  <2>2. QED
    BY <1>4, <2>1, SeenFrame
<1>9. /\ Read(id) = Merge(Slices(id)) /\ Read(id)' = Merge(Slices(id)')
      /\ Slices(id)' = Slices(id) \cup {e}
  <2>1. ran[id] = 0
    BY <1>1 DEF IInv, CountingOK, Pending
  <2>2. Slices(id)' = Slices(id) \cup {e}
    BY <1>3, <1>4 DEF Slices
  <2>3. QED
    BY <1>4, <2>1, <2>2 DEF Read, Slices
<1>10. ASSUME NEW k \in Key, k \notin DOMAIN e.vals PROVE Seen(id, k)' = Seen(id, k)
  <2>1. CASE \A f \in Slices(id) : k \notin DOMAIN f.vals
    <3>1. k \notin DOMAIN Read(id)
      BY <1>9, <2>1, MergeUnique
    <3>2. k \notin DOMAIN Read(id)'
      BY <1>9, <1>10, <2>1, MergeUnique
    <3>3. QED
      BY <3>1, <3>2 DEF Seen, Zero
  <2>2. CASE \E f \in Slices(id) : k \in DOMAIN f.vals
    <3>1. PICK f \in Slices(id) : k \in DOMAIN f.vals
      BY <2>2
    <3>2. \A g \in Slices(id) \cup {e} : k \in DOMAIN g.vals => g = f
      BY <1>10, <3>1, SlicesApart
    <3>3. k \in DOMAIN Read(id) /\ Read(id)[k] = f.vals[k]
      BY <1>9, <3>1, <3>2, MergeUnique
    <3>4. k \in DOMAIN Merge(Slices(id) \cup {e}) /\ Merge(Slices(id) \cup {e})[k] = f.vals[k]
      BY <3>1, <3>2, MergeUnique
    <3>5. QED
      BY <1>9, <3>3, <3>4 DEF Seen
  <2>3. QED
    BY <2>1, <2>2
<1>11. CASE ask[id].kind = "push"
  <2>1. DOMAIN e.vals = {}
    BY <1>3, <1>11
  <2>2. \A i \in Id, k \in Key : Seen(i, k)' = Seen(i, k)
    BY <1>8, <1>10, <2>1
  <2>3. [i \in Id |-> [k \in Key |-> Seen(i, k)]]' = [i \in Id |-> [k \in Key |-> Seen(i, k)]]
    BY <2>2
  <2>4. Abs!Add(id, K)
    BY <1>1, <1>4, <1>5, <1>7, <1>11, <2>3 DEF Abs!Add, Left, Seen, Asked, Remaining, Returned
  <2>5. QED
    BY <1>5, <2>4
<1>12. CASE ask[id].kind = "pull"
  <2>1. DOMAIN e.vals = K /\ \A k \in K : e.vals[k] = store[k]
    BY <1>3, <1>12
  <2>2. ASSUME NEW k \in K PROVE Seen(id, k)' = store[k]
    <3>1. \A f \in Slices(id) : k \notin DOMAIN f.vals
      <4>1. Home[k] = s
        BY <1>2 DEF Slice
      <4>2. \A f \in Slices(id) : f.server # s
        BY <1>1 DEF Slices
      <4>3. QED
        BY <4>1, <4>2, SlicesApart
    <3>2. k \in DOMAIN Merge(Slices(id) \cup {e}) /\ Merge(Slices(id) \cup {e})[k] = e.vals[k]
      BY <2>1, <3>1, MergeUnique
    <3>3. QED
      BY <1>9, <2>1, <3>2 DEF Seen
  <2>3. [i \in Id |-> [k \in Key |-> Seen(i, k)]]' =
          [[i \in Id |-> [k \in Key |-> Seen(i, k)]]
             EXCEPT ![id] = [k \in Key |-> IF k \in K THEN store[k] ELSE @[k]]]
    <3>1. \A k \in Key : Seen(id, k)' = IF k \in K THEN store[k] ELSE Seen(id, k)
      BY <1>10, <2>1, <2>2
    <3>2. QED
      BY <1>8, <3>1
  <2>4. Abs!Read(id, K)
    BY <1>1, <1>4, <1>5, <1>7, <1>12, <2>3 DEF Abs!Read, Left, Seen, Asked, Remaining, Returned
  <2>5. QED
    BY <1>5, <2>4
<1>13. QED
  BY <1>5, <1>11, <1>12

(* Processing a response changes nothing that anybody sees: what a callback *)
(* puts into the caller's vector is what had been read.                     *)
LEMMA ProcessRefines ==
  ASSUME IInv, NEW w \in Worker, NEW e \in resps, Process(w, e)
  PROVE  UNCHANGED Abs!vars
<1>1. PICK id : id = e.id
  OBVIOUS
<1>2. /\ id \in Id /\ Asked(id) /\ ran[id] = 0 /\ id \in callbacks
      /\ \A i \in Id : Unserved(i)' = Unserved(i)
      /\ Pending(id)' = Pending(id) \ {e.server}
      /\ IF Pending(id)' = {}
           THEN RunCallback(id, Received(e))
           ELSE recv' = Received(e) /\ UNCHANGED <<callbacks, ran, vals>>
  BY <1>1, ProcessShape
<1>3. resps' = resps \ {e} /\ e \notin recv /\ UNCHANGED <<ask, store, done, must>>
  BY DEF Process, IInv, ResponsesOK
<1>4. Received(e) = IF IsPull(id) THEN recv \cup {e} ELSE recv
  BY <1>1 DEF Received, IsPull
<1>5. \A i \in Id \ {id}, k \in Key : Seen(i, k)' = Seen(i, k)
  <2>1. /\ \A f \in recv : f.id # id => f \in recv'
        /\ recv' \subseteq recv \cup {e}
        /\ \A i \in Id \ {id} : ran'[i] = ran[i] /\ vals'[i] = vals[i]
    BY <1>2, <1>4 DEF RunCallback, IInv, TypeOK
  <2>2. \A i \in Id \ {id} : Slices(i)' = Slices(i)
    BY <1>1, <1>3, <2>1 DEF Slices
  <2>3. QED
    BY <2>1, <2>2, SeenFrame
<1>6. \A k \in Key : Seen(id, k)' = Seen(id, k)
  <2>1. CASE IsPull(id) /\ Pending(id)' # {}
    <3>1. Slices(id)' = Slices(id)
      BY <1>2, <1>3, <1>4, <2>1 DEF Slices
    <3>2. QED
      BY <1>2, <2>1, <3>1, SeenFrame
  <2>2. CASE IsPull(id) /\ Pending(id)' = {}
    <3>1. \A f \in resps : f.id = id => f = e
      <4>1. \A f \in resps : f.id = id => f.server \in Pending(id)
        BY DEF Pending, Answered
      <4>2. \A f \in resps : f.id = id /\ f.server = e.server => f = e
        BY <1>1 DEF IInv, ResponsesOK
      <4>3. QED
        BY <1>2, <2>2, <4>1, <4>2
    <3>2. {f \in Received(e) : f.id = id} = {f \in resps \cup recv : f.id = id}
      BY <1>4, <2>2, <3>1
    <3>3. vals'[id] = Merge({f \in resps \cup recv : f.id = id}) /\ ran'[id] = 1
      <4>1. vals'[id] = Merge({f \in Received(e) : f.id = id}) /\ ran'[id] = 1
        BY <1>2, <2>2 DEF RunCallback, IInv, TypeOK
      <4>2. QED
        BY <3>2, <4>1
    <3>4. Read(id)' = vals'[id] /\ Read(id) = vals'[id]
      BY <1>2, <3>3 DEF Read
    <3>5. QED
      BY <3>4 DEF Seen, Zero
  <2>3. CASE ~IsPull(id)
    <3> SUFFICES ASSUME NEW k \in Key PROVE Seen(id, k) = Zero /\ Seen(id, k)' = Zero
      OBVIOUS
    <3>1. \A f \in Slices(id) : k \notin DOMAIN f.vals
      BY <1>2, <2>3, SlicesApart
    <3>2. k \notin DOMAIN Read(id)
      BY <1>2, <3>1, MergeUnique DEF Read, Slices
    <3>3. PICK R : R \subseteq Slices(id) /\ Read(id)' = Merge(R)
      <4>1. CASE Pending(id)' = {}
        <5>1. Read(id)' = Merge({f \in recv : f.id = id})
          BY <1>2, <1>4, <2>3, <4>1 DEF RunCallback, Read, IInv, TypeOK
        <5>2. {f \in recv : f.id = id} \subseteq Slices(id)
          BY DEF Slices
        <5>3. QED
          BY <5>1, <5>2
      <4>2. CASE Pending(id)' # {}
        <5>1. Read(id)' = Merge(Slices(id)')
          BY <1>2, <4>2 DEF Read, Slices
        <5>2. Slices(id)' \subseteq Slices(id)
          BY <1>2, <1>3, <1>4, <2>3, <4>2 DEF Slices
        <5>3. QED
          BY <5>1, <5>2
      <4>3. QED
        BY <4>1, <4>2
    <3>4. k \notin DOMAIN Read(id)'
      BY <3>1, <3>3, MergeUnique
    <3>5. QED
      BY <3>2, <3>4 DEF Seen, Zero
  <2>4. QED
    BY <2>1, <2>2, <2>3
<1>7. \A i \in Id : Left(i)' = Left(i)
  BY <1>2, <1>3 DEF Left
<1>8. QED
  BY <1>2, <1>3, <1>5, <1>6, <1>7, AbsFrame

(* A Wait that returns finishes a request that has nothing left.            *)
LEMMA WaitRefines ==
  ASSUME IInv, TypeOK',
         \/ \E c \in Caller, i \in Id : Wait(c, i)
         \/ \E c \in Caller : Wake(c)
  PROVE  UNCHANGED Abs!vars \/ \E id \in Id : Abs!Finish(id)
<1>1. /\ UNCHANGED <<ask, resps, recv, store, vals, ran, must>>
      /\ done' = done \/ \E id \in Id : Finished(id) /\ done' = done \cup {id}
  <2>1. \A c \in Caller : Wake(c) => cur[c] \in Id
    BY DEF IInv, CallersOK, Wake
  <2>2. QED
    BY <2>1 DEF Wait, Wake, worker
<1>2. \A i \in Id : Unserved(i)' = Unserved(i)
  BY IInvRest
<1>3. /\ \A i \in Id : Left(i)' = Left(i)
      /\ \A i \in Id, k \in Key : Seen(i, k)' = Seen(i, k)
  <2>1. \A i \in Id : Slices(i)' = Slices(i)
    BY <1>1 DEF Slices
  <2>2. QED
    BY <1>1, <1>2, <2>1, SeenFrame DEF Left
<1>4. CASE done' = done
  BY <1>1, <1>3, <1>4, AbsFrame
<1>5. ASSUME NEW id \in Id, Finished(id), done' = done \cup {id} PROVE Abs!Finish(id)
  <2>1. Asked(id) /\ Left(id) = {}
    BY <1>5, FinishedShape DEF Left
  <2>2. /\ [i \in Id |-> Left(i)]' = [i \in Id |-> Left(i)]
        /\ [i \in Id |-> [k \in Key |-> Seen(i, k)]]' = [i \in Id |-> [k \in Key |-> Seen(i, k)]]
    BY <1>3
  <2>3. QED
    BY <1>1, <1>5, <2>1, <2>2 DEF Abs!Finish, Left, Seen, Asked, Remaining, Returned
<1>6. QED
  BY <1>1, <1>4, <1>5

(* Every step is a step of the abstract store or changes nothing of it.     *)
LEMMA NextRefines == IInv /\ [Next]_vars => [Abs!Next]_(Abs!vars)
<1> SUFFICES ASSUME IInv, [Next]_vars PROVE Abs!Next \/ UNCHANGED Abs!vars
  OBVIOUS
<1>1. TypeOK'
  BY TypeNext
<1>2. ASSUME UNCHANGED <<ask, resps, recv, store, vals, ran, must, done>>,
             \A i \in Id : Unserved(i)' = Unserved(i)
      PROVE  UNCHANGED Abs!vars
  <2>1. \A i \in Id : Slices(i)' = Slices(i) /\ Left(i)' = Left(i)
    BY <1>2 DEF Slices, Left
  <2>2. \A i \in Id, k \in Key : Seen(i, k)' = Seen(i, k)
    BY <1>2, <2>1, SeenFrame
  <2>3. QED
    BY <1>2, <2>1, <2>2, AbsFrame
<1>3. ASSUME NEW c \in Caller, NEW s \in Server, SendSlice(c, s) PROVE UNCHANGED Abs!vars
  BY <1>1, <1>2, <1>3, IInvSendSlice DEF SendSlice, worker, history
<1>4. ASSUME NEW id \in Id, NEW s \in Server, Abort(id, s) PROVE UNCHANGED Abs!vars
  BY <1>1, <1>2, <1>4, IInvRest DEF Abort, worker, history
<1>5. ASSUME NEW w \in Worker, Count(w) PROVE UNCHANGED Abs!vars
  BY <1>2, <1>5 DEF Count, worker, threads, history, Unserved
<1>6. CASE UNCHANGED vars
  BY <1>1, <1>2, <1>6, IInvRest DEF vars, worker, history
<1>7. ASSUME NEW c \in Caller, NEW r \in Request[Uses[c]], Ask(c, r) PROVE Abs!Next
  BY <1>7, AskRefines DEF Abs!Next
<1>8. ASSUME NEW id \in Id, NEW s \in Server, Serve(id, s) PROVE Abs!Next
  BY <1>8, ServeRefines DEF Abs!Next
<1>9. ASSUME NEW w \in Worker, NEW e \in resps, Process(w, e) PROVE UNCHANGED Abs!vars
  BY <1>9, ProcessRefines
<1>10. ASSUME NEW c \in Caller, NEW id \in Id, Wait(c, id) PROVE Abs!Next \/ UNCHANGED Abs!vars
  BY <1>1, <1>10, WaitRefines DEF Abs!Next
<1>11. ASSUME NEW c \in Caller, Wake(c) PROVE Abs!Next \/ UNCHANGED Abs!vars
  BY <1>1, <1>11, WaitRefines DEF Abs!Next
<1>12. QED
  BY <1>3, <1>4, <1>5, <1>6, <1>7, <1>8, <1>9, <1>10, <1>11 DEF Next

(* Push, Pull and Wait of ps-lite implement the abstract store.             *)
THEOREM KVRefines == Spec => AbsSpec
<1>1. Init => IInv
  BY IInvInit
<1>2. IInv /\ [Next]_vars => IInv'
  BY IInvNext
<1>3. Init => Abs!Init
  BY InitRefines
<1>4. IInv /\ [Next]_vars => [Abs!Next]_(Abs!vars)
  BY NextRefines
<1>5. QED
  BY <1>1, <1>2, <1>3, <1>4, PTL DEF Spec, AbsSpec, Abs!Spec

----------------------------------------------------------------------------
(* The initial state satisfies the store invariant.                         *)
LEMMA StoreInvInit == Abs!Init => Abs!StoreInv
BY DEF Abs!Init, Abs!StoreInv, Abs!TypeOK, Abs!Tally, Abs!Zero, Abs!AddedOnce,
       Abs!ReadsSeeDone, Abs!ReadsGrow, Abs!Pushed, Abs!Pulled

(* The variables keep their types.                                          *)
LEMMA StoreTypeNext == Abs!ConstantsOK /\ Abs!TypeOK /\ [Abs!Next]_(Abs!vars) => Abs!TypeOK'
<1> SUFFICES ASSUME Abs!ConstantsOK, Abs!TypeOK, [Abs!Next]_(Abs!vars) PROVE Abs!TypeOK'
  OBVIOUS
<1> USE DEF Abs!ConstantsOK, Abs!TypeOK
<1>1. ASSUME NEW id \in Id, NEW r \in AnyRequest, Abs!Ask(id, r) PROVE Abs!TypeOK'
  BY <1>1 DEF Abs!Ask
<1>2. ASSUME NEW id \in Id, NEW K \in SUBSET Key, Abs!Add(id, K) PROVE Abs!TypeOK'
  BY <1>2 DEF Abs!Add, Abs!Tally
<1>3. ASSUME NEW id \in Id, NEW K \in SUBSET Key, Abs!Read(id, K) PROVE Abs!TypeOK'
  BY <1>3 DEF Abs!Read
<1>4. ASSUME NEW id \in Id, Abs!Finish(id) PROVE Abs!TypeOK'
  BY <1>4 DEF Abs!Finish
<1>5. CASE UNCHANGED Abs!vars
  BY <1>5 DEF Abs!vars
<1>6. QED
  BY <1>1, <1>2, <1>3, <1>4, <1>5 DEF Abs!Next

(* Asking preserves the store invariant: the request has touched nothing.   *)
LEMMA StoreInvAsk ==
  ASSUME Abs!ConstantsOK, Abs!StoreInv, Abs!TypeOK',
         NEW id \in Id, NEW r \in AnyRequest, Abs!Ask(id, r)
  PROVE  Abs!StoreInv'
BY DEF Abs!ConstantsOK, Abs!StoreInv, Abs!TypeOK, Abs!Ask, Abs!Tally, Abs!AddedOnce,
       Abs!ReadsSeeDone, Abs!ReadsGrow, Abs!Pushed, Abs!Pulled

(* Adding preserves it: the push was not done, so no pull has to have it.   *)
LEMMA StoreInvAdd ==
  ASSUME Abs!ConstantsOK, Abs!StoreInv, Abs!TypeOK',
         NEW id \in Id, NEW K \in SUBSET Key, Abs!Add(id, K)
  PROVE  Abs!StoreInv'
<1> USE DEF Abs!ConstantsOK, Abs!StoreInv, Abs!TypeOK, Abs!Add, Abs!Tally
<1>1. id \notin done
  OBVIOUS
<1>2. \A i \in Id, k \in Key : Abs!Pulled(i, k)' = Abs!Pulled(i, k)
  BY DEF Abs!Pulled
<1>3. \A i \in done, k \in Key : Abs!Pushed(i, k)' = Abs!Pushed(i, k)
  BY <1>1 DEF Abs!Pushed
<1>4. \A q, i \in Id, k \in Key : (Returned[q][k][i] <= store[k][i])'
  OBVIOUS
<1>5. Abs!AddedOnce'
  BY DEF Abs!AddedOnce, Abs!Pushed
<1>6. Abs!ReadsSeeDone' /\ Abs!ReadsGrow'
  BY <1>2, <1>3 DEF Abs!ReadsSeeDone, Abs!ReadsGrow
<1>7. QED
  BY <1>1, <1>4, <1>5, <1>6

(* Reading preserves it: the pull gets what is in the store now, in which   *)
(* pushes that are done are, and whatever earlier pulls have read.          *)
LEMMA StoreInvRead ==
  ASSUME Abs!ConstantsOK, Abs!StoreInv, Abs!TypeOK',
         NEW id \in Id, NEW K \in SUBSET Key, Abs!Read(id, K)
  PROVE  Abs!StoreInv'
<1> USE DEF Abs!ConstantsOK, Abs!StoreInv, Abs!TypeOK, Abs!Read, Abs!Tally
<1>1. id \notin done
  OBVIOUS
<1>2. \A i \in Id, k \in Key : Abs!Pushed(i, k)' = Abs!Pushed(i, k)
  BY DEF Abs!Pushed
<1>3. \A i \in done, k \in Key : Abs!Pulled(i, k)' = Abs!Pulled(i, k)
  BY <1>1 DEF Abs!Pulled
<1>4. \A i \in Id, k \in Key : (Abs!Pulled(i, k)' => Abs!Pulled(i, k)) \/ (i = id /\ k \in K)
  BY DEF Abs!Pulled
<1>5. \A i \in Id, k \in Key : Returned'[i][k] = IF i = id /\ k \in K THEN store[k] ELSE Returned[i][k]
  OBVIOUS
<1>6. \A q, i \in Id, k \in Key : (Returned[q][k][i] <= store[k][i])'
  BY <1>5
<1>7. Abs!AddedOnce'
  BY <1>2 DEF Abs!AddedOnce
<1>8. Abs!ReadsSeeDone'
  BY <1>2, <1>4, <1>5 DEF Abs!ReadsSeeDone, Abs!AddedOnce
<1>9. Abs!ReadsGrow'
  BY <1>1, <1>3, <1>4, <1>5 DEF Abs!ReadsGrow
<1>10. QED
  BY <1>1, <1>6, <1>7, <1>8, <1>9

(* Every step preserves the store invariant.                                *)
LEMMA StoreInvNext == Abs!ConstantsOK /\ Abs!StoreInv /\ [Abs!Next]_(Abs!vars) => Abs!StoreInv'
<1> SUFFICES ASSUME Abs!ConstantsOK, Abs!StoreInv, [Abs!Next]_(Abs!vars) PROVE Abs!StoreInv'
  OBVIOUS
<1>1. Abs!TypeOK'
  BY StoreTypeNext DEF Abs!StoreInv
<1>2. ASSUME NEW id \in Id, Abs!Finish(id) PROVE Abs!StoreInv'
  BY <1>1, <1>2 DEF Abs!StoreInv, Abs!Finish, Abs!AddedOnce, Abs!ReadsSeeDone,
         Abs!ReadsGrow, Abs!Pushed, Abs!Pulled
<1>3. CASE UNCHANGED Abs!vars
  BY <1>1, <1>3 DEF Abs!StoreInv, Abs!vars, Abs!AddedOnce, Abs!ReadsSeeDone, Abs!ReadsGrow,
         Abs!Pushed, Abs!Pulled
<1>4. QED
  BY <1>1, <1>2, <1>3, StoreInvAsk, StoreInvAdd, StoreInvRead DEF Abs!Next

(* What the abstract store promises through this mapping: pushes are added  *)
(* once, pulls return all pushes that were known to be done, and later      *)
(* pulls of a key never return less.                                        *)
LEMMA StoreCorrect ==
  Abs!ConstantsOK => (Abs!Spec => [](Abs!AddedOnce /\ Abs!ReadsSeeDone /\ Abs!ReadsGrow))
<1> SUFFICES ASSUME Abs!ConstantsOK
             PROVE  Abs!Spec => [](Abs!AddedOnce /\ Abs!ReadsSeeDone /\ Abs!ReadsGrow)
  OBVIOUS
<1>1. Abs!Init => Abs!StoreInv
  BY StoreInvInit
<1>2. Abs!StoreInv /\ [Abs!Next]_(Abs!vars) => Abs!StoreInv'
  BY StoreInvNext
<1>3. Abs!StoreInv => Abs!AddedOnce /\ Abs!ReadsSeeDone /\ Abs!ReadsGrow
  BY DEF Abs!StoreInv
<1>4. QED
  BY <1>1, <1>2, <1>3, PTL DEF Abs!Spec

(* Hence every push is added once to each of its keys, a pull returns the   *)
(* pushes that were known to be done when it was asked, and a later pull of *)
(* a key never returns less than an earlier one.                            *)
THEOREM KVStoreCorrect == Spec => [](AddedOnce /\ ReadsSeeDone /\ ReadsGrow)
<1>1. Spec => Abs!Spec
  BY KVRefines DEF AbsSpec
<1>2. Abs!ConstantsOK
  BY RequestAssumption, NoneAssumption DEF Abs!ConstantsOK
<1>3. Abs!Spec => [](Abs!AddedOnce /\ Abs!ReadsSeeDone /\ Abs!ReadsGrow)
  BY <1>2, StoreCorrect
<1>4. Abs!AddedOnce /\ Abs!ReadsSeeDone /\ Abs!ReadsGrow => AddedOnce /\ ReadsSeeDone /\ ReadsGrow
  BY DEF AddedOnce, ReadsSeeDone, ReadsGrow
<1>5. QED
  BY <1>1, <1>3, <1>4, PTL

(* A push is in the store at a key once from when the key's server has       *)
(* served its slice, and not before (KVServerMLHandle::handlePush).          *)
THEOREM PushesAddOnce == Spec => []AddedOnce
<1>1. Spec => [](AddedOnce /\ ReadsSeeDone /\ ReadsGrow)
  BY KVStoreCorrect
<1>2. QED
  BY <1>1, PTL

(* A pull that is asked when an earlier pull of the key is done returns at   *)
(* least what that one did, whichever threads and processes asked them.      *)
THEOREM PullsGrow == Spec => []ReadsGrow
<1>1. Spec => [](AddedOnce /\ ReadsSeeDone /\ ReadsGrow)
  BY KVStoreCorrect
<1>2. QED
  BY <1>1, PTL

(* When RunCallback runs the callback of a pull, recv_kvs_ has the slices of *)
(* all servers, though the last response is not counted yet.                 *)
THEOREM CallbackComplete == Spec => []CallbackSeesAll
<1>1. Spec => [](TypeOK /\ WaitMeansDone /\ CallbackSeesAll)
  BY WaitCorrect
<1>2. QED
  BY <1>1, PTL

(* The tracker, the callbacks and the slices stored stay in their types: no  *)
(* request is counted beyond the number of servers.                          *)
THEOREM KVTypeCorrect == Spec => []TypeOK
<1>1. Spec => [](TypeOK /\ WaitMeansDone /\ CallbackSeesAll)
  BY WaitCorrect
<1>2. QED
  BY <1>1, PTL

----------------------------------------------------------------------------
(***************************************************************************)
(* Requests as messages.  What is asked is what the server reads, and what *)
(* it answers is what the worker keeps, over TCP and for every request:    *)
(* the arrays are told apart by number, place and the two flags alone.     *)
(* Over RDMA, where the meta data comes without its pull flag, no pull     *)
(* gets past the handle's CHECK.  The argument goes down the structure:    *)
(* the fields of a node, of the control record, of the meta data, then the *)
(* frames around them, and last the requests and their answers.            *)
(***************************************************************************)


(* A node comes back with every field, for all six are always set.           *)
LEMMA NodeKept == ASSUME NEW n \in Node PROVE UnpackNode(PackNode(n)) = n
<1> DEFINE p == PackNode(n)
<1>1. DOMAIN p = {"role", "id", "hostname", "port", "is_recovery", "customer_id"}
  BY DEF PackNode
<1>2. /\ p["role"] = n.role /\ p["id"] = n.id /\ p["hostname"] = n.hostname
      /\ p["port"] = n.port /\ p["is_recovery"] = n.is_recovery
      /\ p["customer_id"] = n.customer_id
  BY DEF PackNode
<1> HIDE DEF p
<1>3. /\ Field(p, "id", kEmpty) = n.id /\ Field(p, "hostname", "") = n.hostname
      /\ Field(p, "port", 0) = n.port /\ Field(p, "is_recovery", FALSE) = n.is_recovery
      /\ Field(p, "customer_id", 0) = n.customer_id
  BY <1>1, <1>2 DEF Field
<1>4. UnpackNode(p) = [role |-> n.role, id |-> n.id, hostname |-> n.hostname, port |-> n.port,
                       is_recovery |-> n.is_recovery, customer_id |-> n.customer_id]
  BY <1>2, <1>3 DEF UnpackNode
<1>5. n = [role |-> n.role, id |-> n.id, hostname |-> n.hostname, port |-> n.port,
           is_recovery |-> n.is_recovery, customer_id |-> n.customer_id]
  BY DEF Node
<1>6. QED
  BY <1>4, <1>5 DEF p

(* So does the control record, the group and the signature included, which   *)
(* are only set for the command they belong to.                              *)
LEMMA ControlKept == ASSUME NEW c \in Control PROVE UnpackControl(PackControl(c)) = c
<1> DEFINE p == PackControl(c)
<1>1. /\ "cmd" \in DOMAIN p /\ "node" \in DOMAIN p
      /\ "barrier_group" \in DOMAIN p <=> c.cmd = "BARRIER"
      /\ "msg_sig" \in DOMAIN p <=> c.cmd = "ACK"
  BY DEF PackControl
<1>2. /\ p["cmd"] = c.cmd
      /\ p["node"] = [i \in DOMAIN c.node |-> PackNode(c.node[i])]
      /\ "barrier_group" \in DOMAIN p => p["barrier_group"] = c.barrier_group
      /\ "msg_sig" \in DOMAIN p => p["msg_sig"] = c.msg_sig
  BY DEF PackControl
<1> HIDE DEF p
<1>3. /\ c.node \in Seq(Node)
      /\ c.cmd # "BARRIER" => c.barrier_group = 0
      /\ c.cmd # "ACK" => c.msg_sig = 0
  BY DEF Control
<1>4. /\ Field(p, "barrier_group", 0) = c.barrier_group
      /\ Field(p, "msg_sig", 0) = c.msg_sig
  BY <1>1, <1>2, <1>3 DEF Field
<1>5. [i \in DOMAIN p["node"] |-> UnpackNode(p["node"][i])] = c.node
  <2>1. ASSUME NEW i \in DOMAIN c.node PROVE UnpackNode(p["node"][i]) = c.node[i]
    BY <1>2, <1>3, NodeKept
  <2>2. DOMAIN p["node"] = DOMAIN c.node
    BY <1>2
  <2>3. QED
    BY <1>3, <2>1, <2>2
<1>6. UnpackControl(p) = [cmd |-> c.cmd, node |-> c.node,
                          barrier_group |-> c.barrier_group, msg_sig |-> c.msg_sig]
  BY <1>2, <1>4, <1>5 DEF UnpackControl
<1>7. c = [cmd |-> c.cmd, node |-> c.node,
           barrier_group |-> c.barrier_group, msg_sig |-> c.msg_sig]
  BY DEF Control
<1>8. QED
  BY <1>6, <1>7 DEF p

(* The message m as it should arrive: with the two ids of the transport, no  *)
(* size, and the given flag.                                                 *)
Arrival(m, s, r, pull) ==
  [head |-> m.head, app_id |-> m.app_id, customer_id |-> m.customer_id,
   timestamp |-> m.timestamp, sender |-> s, recver |-> r, request |-> m.request,
   push |-> m.push, pull |-> pull, simple_app |-> m.simple_app, body |-> m.body,
   data_type |-> m.data_type, control |-> m.control, data_size |-> 0,
   priority |-> m.priority]

(* What is common to both packing functions, for a set of further fields.    *)
LEMMA MetaKept ==
  ASSUME NEW m \in Meta, NEW F \in SUBSET {"pull", "data_size"}, NEW s, NEW r
  PROVE  UnpackMeta(Packed(m, PackedFields(m) \cup F), s, r) =
           Arrival(m, s, r, IF "pull" \in F THEN m.pull ELSE FALSE)
<1> DEFINE pb == Packed(m, PackedFields(m) \cup F)
<1>1. /\ {"head", "request", "push", "simple_app", "priority", "customer_id", "data_type"}
           \subseteq DOMAIN pb
      /\ "app_id" \in DOMAIN pb <=> m.app_id # kEmpty
      /\ "timestamp" \in DOMAIN pb <=> m.timestamp # kEmpty
      /\ "body" \in DOMAIN pb <=> m.body # ""
      /\ "control" \in DOMAIN pb <=> m.control.cmd # "EMPTY"
      /\ "pull" \in DOMAIN pb <=> "pull" \in F
  BY DEF Packed, PackedFields
<1>2. /\ \A f \in DOMAIN pb \ {"control"} : pb[f] = m[f]
      /\ "control" \in DOMAIN pb => pb["control"] = PackControl(m.control)
  BY DEF Packed
<1> HIDE DEF pb
<1>3. /\ Field(pb, "head", 0) = m.head
      /\ Field(pb, "customer_id", 0) = m.customer_id
      /\ Field(pb, "request", FALSE) = m.request
      /\ Field(pb, "push", FALSE) = m.push
      /\ Field(pb, "simple_app", FALSE) = m.simple_app
      /\ Field(pb, "data_type", <<>>) = m.data_type
      /\ Field(pb, "priority", 0) = m.priority
  BY <1>1, <1>2 DEF Field
<1>4. /\ Field(pb, "app_id", kEmpty) = m.app_id
      /\ Field(pb, "timestamp", kEmpty) = m.timestamp
      /\ Field(pb, "body", "") = m.body
      /\ Field(pb, "pull", FALSE) = IF "pull" \in F THEN m.pull ELSE FALSE
  BY <1>1, <1>2 DEF Field
<1>5. (IF "control" \in DOMAIN pb THEN UnpackControl(pb["control"])
       ELSE [cmd |-> "EMPTY", node |-> <<>>, barrier_group |-> 0, msg_sig |-> 0]) = m.control
  <2>1. m.control \in Control
    BY DEF Meta
  <2>2. CASE m.control.cmd # "EMPTY"
    BY <1>1, <1>2, <2>1, <2>2, ControlKept
  <2>3. CASE m.control.cmd = "EMPTY"
    <3>1. /\ m.control.node = <<>> /\ m.control.barrier_group = 0 /\ m.control.msg_sig = 0
      BY <2>1, <2>3 DEF Control
    <3>2. m.control = [cmd |-> m.control.cmd, node |-> m.control.node,
                       barrier_group |-> m.control.barrier_group, msg_sig |-> m.control.msg_sig]
      BY <2>1 DEF Control
    <3>3. QED
      BY <1>1, <2>3, <3>1, <3>2
  <2>4. QED
    BY <2>2, <2>3
<1>6. QED
  BY <1>3, <1>4, <1>5 DEF UnpackMeta, Arrival, pb

(* Van::PackMeta and UnpackMeta keep every field that a handler reads; the   *)
(* two ids are the transport's, and the size of the data is not read back.   *)
THEOREM PackMetaKeeps ==
  \A m \in Meta : \A s, r : UnpackMeta(PackMeta(m), s, r) = Arrival(m, s, r, m.pull)
<1> SUFFICES ASSUME NEW m \in Meta, NEW s, NEW r
             PROVE  UnpackMeta(PackMeta(m), s, r) = Arrival(m, s, r, m.pull)
  OBVIOUS
<1> DEFINE F == {"pull"}
<1>1. F \in SUBSET {"pull", "data_size"} /\ "pull" \in F
  OBVIOUS
<1>2. PackMeta(m) = Packed(m, PackedFields(m) \cup F)
  BY DEF PackMeta
<1> HIDE DEF F
<1>3. UnpackMeta(Packed(m, PackedFields(m) \cup F), s, r) =
        Arrival(m, s, r, IF "pull" \in F THEN m.pull ELSE FALSE)
  BY <1>1, MetaKept
<1>4. QED
  BY <1>1, <1>2, <1>3

(* Van::PackMetaPB, which IBVerbsVan::SendMsg uses, keeps the same fields    *)
(* except for pull, which arrives as FALSE whatever was sent.                *)
THEOREM PackMetaPBDropsPull ==
  \A m \in Meta : \A s, r : UnpackMeta(PackMetaPB(m), s, r) = Arrival(m, s, r, FALSE)
<1> SUFFICES ASSUME NEW m \in Meta, NEW s, NEW r
             PROVE  UnpackMeta(PackMetaPB(m), s, r) = Arrival(m, s, r, FALSE)
  OBVIOUS
<1> DEFINE F == {"data_size"}
<1>1. F \in SUBSET {"pull", "data_size"} /\ "pull" \notin F
  OBVIOUS
<1>2. PackMetaPB(m) = Packed(m, PackedFields(m) \cup F)
  BY DEF PackMetaPB
<1> HIDE DEF F
<1>3. UnpackMeta(Packed(m, PackedFields(m) \cup F), s, r) =
        Arrival(m, s, r, IF "pull" \in F THEN m.pull ELSE FALSE)
  BY <1>1, MetaKept
<1>4. QED
  BY <1>1, <1>2, <1>3

(* The frames that ZMQVan::SendMsg makes of a message, with any number of    *)
(* arrays, are read back as this message by RecvMsg: the flags end it where  *)
(* it ended, and no frame is taken for another.                              *)
THEOREM FramesKeepMessage ==
  ASSUME NEW m \in Meta, NEW T, NEW data \in Seq(T), NEW identity, NEW me
  PROVE  RecvMsg(Routed(identity, SendMsg([meta |-> m, data |-> data])), me) =
           [meta |-> Arrival(m, GetNodeID(identity), me, m.pull), data |-> data]
<1> DEFINE n == Len(data)
           sent == SendMsg([meta |-> m, data |-> data])
           fs == Routed(identity, sent)
<1>1. n \in Nat
  OBVIOUS
<1>2. /\ sent = [i \in 1 .. n + 1 |->
                   [part |-> IF i = 1 THEN PackMeta(m) ELSE data[i - 1], more |-> i # n + 1]]
  BY DEF SendMsg
<1>3. /\ Len(sent) = n + 1
      /\ \E U : sent \in Seq(U)
  <2>1. sent \in Seq({sent[i] : i \in 1 .. n + 1})
    BY <1>1, <1>2
  <2>2. QED
    BY <1>1, <1>2, <2>1
<1> HIDE DEF sent
<1>4. /\ Len(fs) = n + 2
      /\ fs[1] = [part |-> identity, more |-> TRUE]
      /\ \A i \in 1 .. n + 1 : fs[i + 1] = sent[i]
  BY <1>1, <1>3 DEF Routed
<1> HIDE DEF fs
<1>5. ASSUME NEW i \in 2 .. n + 2
      PROVE  fs[i].more = (i # n + 2)
  <2>1. i - 1 \in 1 .. n + 1 /\ (i - 1) + 1 = i
    BY <1>1
  <2>2. fs[i] = sent[i - 1]
    BY <1>4, <2>1
  <2>3. QED
    BY <1>1, <1>2, <2>1, <2>2
<1>6. LastFrame(fs) = n + 2
  <2>1. /\ n + 2 \in 2 .. Len(fs)
        /\ ~ fs[n + 2].more
        /\ \A j \in 2 .. (n + 2) - 1 : fs[j].more
    <3>1. n + 2 \in 2 .. n + 2 /\ 2 .. (n + 2) - 1 \subseteq 2 .. n + 2
      BY <1>1
    <3>2. \A j \in 2 .. (n + 2) - 1 : j # n + 2
      BY <1>1
    <3>3. QED
      BY <1>4, <1>5, <3>1, <3>2
  <2>2. ASSUME NEW i \in 2 .. Len(fs), ~ fs[i].more
        PROVE  i = n + 2
    BY <1>4, <1>5, <2>2
  <2>3. QED
    BY <2>1, <2>2 DEF LastFrame
<1>7. fs[2].part = PackMeta(m) /\ fs[1].part = identity
  <2>1. 1 \in 1 .. n + 1
    BY <1>1
  <2>2. fs[2] = sent[1]
    BY <1>4, <2>1
  <2>3. QED
    BY <1>2, <1>4, <2>1, <2>2
<1>8. [i \in 1 .. LastFrame(fs) - 2 |-> fs[i + 2].part] = data
  <2>1. ASSUME NEW i \in 1 .. n PROVE fs[i + 2].part = data[i]
    <3>1. i + 1 \in 1 .. n + 1 /\ (i + 1) + 1 = i + 2 /\ i + 1 # 1 /\ (i + 1) - 1 = i
      BY <1>1
    <3>2. fs[i + 2] = sent[i + 1]
      BY <1>4, <3>1
    <3>3. QED
      BY <1>2, <3>1, <3>2
  <2>2. LastFrame(fs) - 2 = n
    BY <1>1, <1>6
  <2>3. DOMAIN data = 1 .. n
    OBVIOUS
  <2>4. QED
    BY <2>1, <2>2, <2>3
<1>9. UnpackMeta(fs[2].part, GetNodeID(fs[1].part), me) =
        Arrival(m, GetNodeID(identity), me, m.pull)
  BY <1>7, PackMetaKeeps, Zenon
<1>10. QED
  BY <1>8, <1>9, Zenon DEF RecvMsg, fs, sent

----------------------------------------------------------------------------

(* A message that has gone over TCP from one node to another.                *)
Arrived(msg, identity, me) == RecvMsg(Routed(identity, SendMsg(msg)), me)

(* A push as Client makes it has a length and meta data for each key, a pull *)
(* a request for each, and the answer to it lengths, and nothing else.       *)
PushPairs == {p \in KVPairs : /\ p.keys # <<>> /\ p.reqmatrixmeta = <<>>
                              /\ Len(p.lens) = Len(p.keys) /\ Len(p.matrixmeta) = Len(p.keys)}
PullPairs == {p \in KVPairs : /\ p.keys # <<>> /\ p.lens = <<>> /\ p.matrixmeta = <<>>
                              /\ Len(p.reqmatrixmeta) = Len(p.keys)}
AnswerPairs == {p \in KVPairs : p.keys # <<>> /\ p.lens # <<>> /\ p.matrixmeta = <<>>}

PushMeta == {m \in KVMeta : m.push = TRUE /\ m.pull = FALSE}
PullMeta == {m \in KVMeta : m.push = FALSE /\ m.pull = TRUE}

(* A request gets past the CHECKs of the server and its handle, and they     *)
(* read the pairs p and the meta record m, with the one who asked in it.     *)
Understood(msg, m, p, sender) ==
  /\ ServerChecks(msg) /\ HandleChecks(msg)
  /\ ServerReads(msg) = p
  /\ ServerMeta(msg) = [m EXCEPT !.sender = sender]

(* The arrays of a push: four, with the lengths third.                       *)
LEMMA PushArrays ==
  ASSUME NEW p \in PushPairs
  PROVE  /\ Arrays(p) \in Seq({"keys", "vals", "lens", "matrixmeta"}) /\ Len(Arrays(p)) = 4
         /\ Arrays(p)[1] = "keys" /\ Arrays(p)[2] = "vals"
         /\ Arrays(p)[3] = "lens" /\ Arrays(p)[4] = "matrixmeta"
<1>1. p.lens # <<>> /\ p.matrixmeta # <<>> /\ p.keys # <<>> /\ p.reqmatrixmeta = <<>>
  BY DEF PushPairs, KVPairs
<1>2. Arrays(p) = Append(Append(<<"keys", "vals">>, "lens"), "matrixmeta")
  BY <1>1 DEF Arrays, AddData
<1>3. QED
  BY <1>2

(* The arrays of a pull: three, for it has no lengths.                       *)
LEMMA PullArrays ==
  ASSUME NEW p \in PullPairs
  PROVE  /\ Arrays(p) \in Seq({"keys", "vals", "reqmatrixmeta"}) /\ Len(Arrays(p)) = 3
         /\ Arrays(p)[1] = "keys" /\ Arrays(p)[2] = "vals" /\ Arrays(p)[3] = "reqmatrixmeta"
<1>1. p.lens = <<>> /\ p.matrixmeta = <<>> /\ p.keys # <<>> /\ p.reqmatrixmeta # <<>>
  BY DEF PullPairs, KVPairs
<1>2. Arrays(p) = Append(<<"keys", "vals">>, "reqmatrixmeta")
  BY <1>1 DEF Arrays, AddData
<1>3. QED
  BY <1>2

(* The arrays of an answer with keys: the lengths third, then what was asked.*)
LEMMA AnswerArrays ==
  ASSUME NEW p \in AnswerPairs
  PROVE  /\ Arrays(p) \in Seq({"keys", "vals", "lens", "reqmatrixmeta"})
         /\ Len(Arrays(p)) = IF p.reqmatrixmeta = <<>> THEN 3 ELSE 4
         /\ Arrays(p)[1] = "keys" /\ Arrays(p)[2] = "vals" /\ Arrays(p)[3] = "lens"
         /\ p.reqmatrixmeta # <<>> => Arrays(p)[4] = "reqmatrixmeta"
<1>1. p.lens # <<>> /\ p.matrixmeta = <<>> /\ p.keys # <<>>
  BY DEF AnswerPairs, KVPairs
<1>2. CASE p.reqmatrixmeta = <<>>
  <2>1. Arrays(p) = Append(<<"keys", "vals">>, "lens")
    BY <1>1, <1>2 DEF Arrays, AddData
  <2>2. QED
    BY <1>2, <2>1
<1>3. CASE p.reqmatrixmeta # <<>>
  <2>1. Arrays(p) = Append(Append(<<"keys", "vals">>, "lens"), "reqmatrixmeta")
    BY <1>1, <1>3 DEF Arrays, AddData
  <2>2. QED
    BY <1>3, <2>1
<1>4. QED
  BY <1>2, <1>3

(* The arrays of any pairs, and the message they make.                       *)
LEMMA ArraysTyped ==
  ASSUME NEW p \in KVPairs
  PROVE  Arrays(p) \in Seq({"keys", "vals", "lens", "matrixmeta", "reqmatrixmeta"})
<1> DEFINE F == {"keys", "vals", "lens", "matrixmeta", "reqmatrixmeta"}
<1>1. ASSUME NEW s \in Seq(F), NEW f \in F PROVE AddData(s, p, f) \in Seq(F)
  BY DEF AddData
<1>2. <<"keys", "vals">> \in Seq(F) /\ <<>> \in Seq(F)
  OBVIOUS
<1>3. /\ "lens" \in F /\ "matrixmeta" \in F /\ "reqmatrixmeta" \in F
  OBVIOUS
<1> HIDE DEF F
<1>4. AddData(<<"keys", "vals">>, p, "lens") \in Seq(F)
  BY <1>1, <1>2, <1>3
<1>5. AddData(AddData(<<"keys", "vals">>, p, "lens"), p, "matrixmeta") \in Seq(F)
  BY <1>1, <1>3, <1>4
<1>6. AddData(AddData(AddData(<<"keys", "vals">>, p, "lens"), p, "matrixmeta"), p, "reqmatrixmeta")
        \in Seq(F)
  BY <1>1, <1>3, <1>5
<1>7. Arrays(p) \in Seq(F)
  BY <1>2, <1>6 DEF Arrays
<1>8. QED
  BY <1>7 DEF F

(* What is sent is meta data, so that what Wire's theorems say is true of it.*)
LEMMA MessageTyped ==
  ASSUME kEmpty \in Int, NEW app \in Int, NEW priority \in Int, NEW m \in KVMeta,
         NEW request \in BOOLEAN, NEW p \in KVPairs
  PROVE  MessageOf(app, priority, m, request, p).meta \in Meta
<1> DEFINE names == Arrays(p)
           types == [i \in DOMAIN names |-> DataType[names[i]]]
           bytes == IF names = <<>> THEN 0 ELSE DataSize(p)
<1>1. NoControl \in Control
  BY DEF NoControl, Control, Command
<1>2. types \in Seq(Int)
  <2>1. names \in Seq({"keys", "vals", "lens", "matrixmeta", "reqmatrixmeta"})
    BY ArraysTyped
  <2>2. \A f \in {"keys", "vals", "lens", "matrixmeta", "reqmatrixmeta"} : DataType[f] \in Int
    BY DEF DataType
  <2>3. QED
    BY <2>1, <2>2
<1>3. bytes \in Int
  BY DEF DataSize, KVPairs
<1>4. MessageOf(app, priority, m, request, p).meta =
        [head |-> m.cmd, app_id |-> app, customer_id |-> m.customer_id,
         timestamp |-> m.timestamp, sender |-> kEmpty, recver |-> m.sender,
         request |-> request, push |-> m.push, pull |-> m.pull, simple_app |-> FALSE,
         body |-> "", data_type |-> types, control |-> NoControl, data_size |-> bytes,
         priority |-> priority]
  BY DEF MessageOf
<1> HIDE DEF types, bytes
<1>5. /\ m.cmd \in Int /\ app \in Int /\ m.customer_id \in Int /\ m.timestamp \in Int
      /\ m.sender \in Int /\ priority \in Int /\ m.push \in BOOLEAN /\ m.pull \in BOOLEAN
  BY DEF KVMeta
<1>6. "" \in String /\ FALSE \in BOOLEAN
  BY DEF String
<1>7. PICK h \in Int, a \in Int, c \in Int, t \in Int, n \in Int, pr \in Int,
           pu \in BOOLEAN, pl \in BOOLEAN :
        /\ h = m.cmd /\ a = app /\ c = m.customer_id /\ t = m.timestamp
        /\ n = m.sender /\ pr = priority /\ pu = m.push /\ pl = m.pull
  BY <1>5
<1>8. PICK ty \in Seq(Int), sz \in Int, co \in Control, b \in String, no \in BOOLEAN :
        ty = types /\ sz = bytes /\ co = NoControl /\ b = "" /\ no = FALSE
  BY <1>1, <1>2, <1>3, <1>6
<1>9. [head |-> h, app_id |-> a, customer_id |-> c, timestamp |-> t, sender |-> kEmpty,
       recver |-> n, request |-> request, push |-> pu, pull |-> pl, simple_app |-> no,
       body |-> b, data_type |-> ty, control |-> co, data_size |-> sz, priority |-> pr] \in Meta
  BY DEF Meta
<1>10. QED
  BY <1>4, <1>7, <1>8, <1>9

(* What a message keeps: its arrays and all that is read of its meta data.   *)
Keeps(msg, m, request, p, from) ==
  /\ msg.data = [i \in DOMAIN Arrays(p) |-> p[Arrays(p)[i]]]
  /\ msg.meta.push = m.push /\ msg.meta.pull = m.pull
  /\ msg.meta.request = request /\ msg.meta.simple_app = FALSE
  /\ ServerMeta(msg) = [m EXCEPT !.sender = from]

(* Over TCP every message of the two classes keeps that.                     *)
LEMMA MessageArrives ==
  ASSUME kEmpty \in Int, NEW app \in Int, NEW priority \in Int, NEW m \in KVMeta,
         NEW request \in BOOLEAN, NEW p \in KVPairs,
         NEW identity, NEW me
  PROVE  Keeps(Arrived(MessageOf(app, priority, m, request, p), identity, me), m, request, p,
               GetNodeID(identity))
<1> DEFINE sent == MessageOf(app, priority, m, request, p)
           data == [i \in DOMAIN Arrays(p) |-> p[Arrays(p)[i]]]
           T == {p[Arrays(p)[i]] : i \in DOMAIN Arrays(p)}
<1>1. sent.meta \in Meta /\ sent = [meta |-> sent.meta, data |-> sent.data] /\ sent.data = data
  <2>1. sent.meta \in Meta
    BY MessageTyped
  <2>2. QED
    BY <2>1 DEF MessageOf
<1>2. data \in Seq(T)
  <2> DEFINE names == Arrays(p)
  <2>1. Len(names) \in Nat /\ DOMAIN names = 1 .. Len(names)
    BY ArraysTyped
  <2>2. \A i \in DOMAIN names : p[names[i]] \in T
    OBVIOUS
  <2> HIDE DEF names, T
  <2>3. [i \in DOMAIN names |-> p[names[i]]] \in Seq(T)
    BY <2>1, <2>2
  <2>4. QED
    BY <2>3 DEF names
<1>3. /\ sent.meta.push = m.push /\ sent.meta.pull = m.pull
      /\ sent.meta.request = request /\ sent.meta.simple_app = FALSE
      /\ sent.meta.app_id = app /\ sent.meta.head = m.cmd
      /\ sent.meta.timestamp = m.timestamp /\ sent.meta.customer_id = m.customer_id
  BY DEF MessageOf
<1> HIDE DEF sent, data, T
<1>4. Arrived(sent, identity, me) =
        [meta |-> Arrival(sent.meta, GetNodeID(identity), me, sent.meta.pull), data |-> data]
  BY <1>1, <1>2, FramesKeepMessage, Zenon DEF Arrived
<1>5. ServerMeta(Arrived(sent, identity, me)) =
        [cmd |-> m.cmd, push |-> m.push, pull |-> m.pull,
         sender |-> GetNodeID(identity), timestamp |-> m.timestamp,
         customer_id |-> m.customer_id]
  BY <1>3, <1>4 DEF ServerMeta, Arrival
<1>6. [m EXCEPT !.sender = GetNodeID(identity)] =
        [cmd |-> m.cmd, push |-> m.push, pull |-> m.pull,
         sender |-> GetNodeID(identity), timestamp |-> m.timestamp,
         customer_id |-> m.customer_id]
  BY DEF KVMeta
<1>7. QED
  BY <1>3, <1>4, <1>5, <1>6 DEF sent, data, Arrival, Keeps

----------------------------------------------------------------------------
(* A push gets past every CHECK of the server and its handle (kv_app.h:929   *)
(* and 515), and they read the pairs that Client gave to Push, and a meta    *)
(* record that names the sender, whom the answer goes back to.               *)
THEOREM PushArrives ==
  ASSUME kEmpty \in Int, NEW app \in Int, NEW priority \in Int, NEW m \in PushMeta,
         NEW p \in PushPairs, NEW identity, NEW me
  PROVE  Understood(Arrived(Send(app, priority, m, p), identity, me), m, p, GetNodeID(identity))
<1> PICK yes \in BOOLEAN : yes = TRUE
  OBVIOUS
<1> m \in KVMeta /\ m.push = TRUE /\ m.pull = FALSE
  BY DEF PushMeta
<1> DEFINE msg == Arrived(MessageOf(app, priority, m, yes, p), identity, me)
<1>1. p \in KVPairs
  BY DEF PushPairs
<1>2. /\ msg.data = [i \in DOMAIN Arrays(p) |-> p[Arrays(p)[i]]]
      /\ msg.meta.push = m.push /\ msg.meta.pull = m.pull
      /\ ServerMeta(msg) = [m EXCEPT !.sender = GetNodeID(identity)]
  <2>1. Keeps(msg, m, yes, p, GetNodeID(identity))
    BY <1>1, MessageArrives, Zenon
  <2>2. QED
    BY <2>1 DEF Keeps
<1> HIDE DEF msg
<1>3. Len(msg.data) = 4 /\ msg.data # <<>>
  BY <1>2, PushArrays
<1>4. /\ msg.data[1] = p.keys /\ msg.data[2] = p.vals
      /\ msg.data[3] = p.lens /\ msg.data[4] = p.matrixmeta
  BY <1>2, PushArrays
<1>5. ServerReads(msg) = [keys |-> p.keys, vals |-> p.vals, lens |-> p.lens,
                          matrixmeta |-> p.matrixmeta, reqmatrixmeta |-> <<>>]
  BY <1>2, <1>3, <1>4 DEF ServerReads
<1>6. /\ p = [keys |-> p.keys, vals |-> p.vals, lens |-> p.lens,
              matrixmeta |-> p.matrixmeta, reqmatrixmeta |-> <<>>]
      /\ Len(p.lens) = Len(p.keys) /\ Len(p.matrixmeta) = Len(p.keys)
  BY DEF PushPairs, KVPairs
<1>7. ServerChecks(msg) /\ HandleChecks(msg)
  BY <1>2, <1>3, <1>5, <1>6 DEF ServerChecks, HandleChecks
<1>8. QED
  BY <1>2, <1>5, <1>6, <1>7 DEF Send, Understood, msg

(* So does a pull, for which three arrays are enough: its third one is taken *)
(* for the requests' meta data because the pull flag is set.                 *)
THEOREM PullArrives ==
  ASSUME kEmpty \in Int, NEW app \in Int, NEW priority \in Int, NEW m \in PullMeta,
         NEW p \in PullPairs, NEW identity, NEW me
  PROVE  Understood(Arrived(Send(app, priority, m, p), identity, me), m, p, GetNodeID(identity))
<1> PICK yes \in BOOLEAN : yes = TRUE
  OBVIOUS
<1> m \in KVMeta /\ m.push = FALSE /\ m.pull = TRUE
  BY DEF PullMeta
<1> DEFINE msg == Arrived(MessageOf(app, priority, m, yes, p), identity, me)
<1>1. p \in KVPairs
  BY DEF PullPairs
<1>2. /\ msg.data = [i \in DOMAIN Arrays(p) |-> p[Arrays(p)[i]]]
      /\ msg.meta.push = m.push /\ msg.meta.pull = m.pull
      /\ ServerMeta(msg) = [m EXCEPT !.sender = GetNodeID(identity)]
  <2>1. Keeps(msg, m, yes, p, GetNodeID(identity))
    BY <1>1, MessageArrives, Zenon
  <2>2. QED
    BY <2>1 DEF Keeps
<1> HIDE DEF msg
<1>3. Len(msg.data) = 3 /\ msg.data # <<>>
  BY <1>2, PullArrays
<1>4. /\ msg.data[1] = p.keys /\ msg.data[2] = p.vals /\ msg.data[3] = p.reqmatrixmeta
  BY <1>2, PullArrays
<1>5. ServerReads(msg) = [keys |-> p.keys, vals |-> p.vals, lens |-> <<>>,
                          matrixmeta |-> <<>>, reqmatrixmeta |-> p.reqmatrixmeta]
  BY <1>2, <1>3, <1>4 DEF ServerReads
<1>6. /\ p = [keys |-> p.keys, vals |-> p.vals, lens |-> <<>>,
              matrixmeta |-> <<>>, reqmatrixmeta |-> p.reqmatrixmeta]
      /\ Len(p.reqmatrixmeta) = Len(p.keys)
  BY DEF PullPairs, KVPairs
<1>7. ServerChecks(msg) /\ HandleChecks(msg)
  BY <1>2, <1>3, <1>5, <1>6 DEF ServerChecks, HandleChecks
<1>8. QED
  BY <1>2, <1>5, <1>6, <1>7 DEF Send, Understood, msg

(* The answer to a pull gets past the CHECK of KVWorker::Process             *)
(* (kv_app.h:1157), which keeps the pairs that the handle gave to Response.  *)
THEOREM AnswerArrives ==
  ASSUME kEmpty \in Int, NEW app \in Int, NEW m \in PullMeta,
         NEW p \in AnswerPairs, NEW identity, NEW me
  PROVE  LET msg == Arrived(Response(app, m, p), identity, me) IN
         WorkerChecks(msg) /\ WorkerReads(msg) = p
<1> PICK no \in BOOLEAN : no = FALSE
  OBVIOUS
<1> m \in KVMeta /\ m.push = FALSE /\ m.pull = TRUE
  BY DEF PullMeta
<1> DEFINE msg == Arrived(MessageOf(app, 0, m, no, p), identity, me)
<1>1. p \in KVPairs
  BY DEF AnswerPairs
<1>2. msg.data = [i \in DOMAIN Arrays(p) |-> p[Arrays(p)[i]]]
  <2>1. Keeps(msg, m, no, p, GetNodeID(identity))
    <3>1. 0 \in Int
      OBVIOUS
    <3>2. QED
      BY <1>1, <3>1, MessageArrives, Zenon
  <2>2. QED
    BY <2>1 DEF Keeps
<1> HIDE DEF msg
<1>3. Len(msg.data) = Len(Arrays(p)) /\ Len(Arrays(p)) = IF p.reqmatrixmeta = <<>> THEN 3 ELSE 4
  BY <1>2, AnswerArrays
<1>4. /\ msg.data[1] = p.keys /\ msg.data[2] = p.vals /\ msg.data[3] = p.lens
      /\ p.reqmatrixmeta # <<>> => msg.data[4] = p.reqmatrixmeta
  BY <1>2, AnswerArrays
<1>5. WorkerReads(msg) = [keys |-> p.keys, vals |-> p.vals, lens |-> p.lens,
                          matrixmeta |-> <<>>, reqmatrixmeta |-> p.reqmatrixmeta]
  BY <1>3, <1>4 DEF WorkerReads
<1>6. p = [keys |-> p.keys, vals |-> p.vals, lens |-> p.lens,
           matrixmeta |-> <<>>, reqmatrixmeta |-> p.reqmatrixmeta]
  BY DEF AnswerPairs, KVPairs
<1>7. WorkerChecks(msg)
  BY <1>3 DEF WorkerChecks
<1>8. QED
  BY <1>5, <1>6, <1>7 DEF Response, msg

----------------------------------------------------------------------------
(* A part of an array, which has as many elements as there are keys.         *)
LEMMA PartTyped ==
  ASSUME NEW S, NEW s \in Seq(S), NEW i \in Nat, NEW j \in Nat, i < j, j <= Len(s)
  PROVE  Part(s, i, j) \in Seq(S) /\ Len(Part(s, i, j)) = j - i /\ SubSeq(s, i + 1, j) = Part(s, i, j)
<1>1. s # <<>>
  OBVIOUS
<1>2. SubSeq(s, i + 1, j) \in Seq(S) /\ Len(SubSeq(s, i + 1, j)) = j - i
  OBVIOUS
<1>3. QED
  BY <1>1, <1>2 DEF Part

(* The values of a slice, which may be none.                                 *)
LEMMA ValuesTyped ==
  ASSUME NEW S, NEW s \in Seq(S), NEW from \in Nat, NEW to \in Nat, from <= to, to <= Len(s)
  PROVE  SubSeq(s, from + 1, to) \in Seq(S)
OBVIOUS

(* Every slice of a push with a length and meta data for each key has them.  *)
LEMMA PushSegment ==
  ASSUME NEW keys \in Seq(Nat), NEW words \in Seq(Val), NEW lens \in Seq(Int),
         NEW metas \in Seq(ServerMatrixMeta), Len(lens) = Len(keys), Len(metas) = Len(keys),
         NEW i \in Nat, NEW j \in Nat, i < j, j <= Len(keys),
         NEW from \in Nat, NEW to \in Nat, from <= to, to <= Len(words)
  PROVE  Segment(ZPush(keys, words, lens, metas), i, j, from, to) \in PushPairs
<1> DEFINE p == Segment(ZPush(keys, words, lens, metas), i, j, from, to)
<1>1. p = [keys |-> Part(keys, i, j), vals |-> SubSeq(words, from + 1, to), lens |-> Part(lens, i, j),
           matrixmeta |-> Part(metas, i, j), reqmatrixmeta |-> <<>>]
  <2>1. SubSeq(keys, i + 1, j) = Part(keys, i, j)
    BY PartTyped
  <2>2. Part(<<>>, i, j) = <<>>
    BY DEF Part
  <2>3. QED
    BY <2>1, <2>2 DEF Segment, ZPush
<1>2. Part(keys, i, j) \in Seq(Nat) /\ Len(Part(keys, i, j)) = j - i
  BY PartTyped
<1>3. Part(lens, i, j) \in Seq(Int) /\ Len(Part(lens, i, j)) = j - i
  BY PartTyped
<1>4. Part(metas, i, j) \in Seq(ServerMatrixMeta) /\ Len(Part(metas, i, j)) = j - i
  BY PartTyped
<1>5. SubSeq(words, from + 1, to) \in Seq(Val)
  BY ValuesTyped
<1>6. <<>> \in Seq(ReqMatrixMeta) /\ Part(keys, i, j) # <<>>
  BY <1>2
<1> HIDE DEF p
<1>7. p \in KVPairs
  BY <1>1, <1>2, <1>3, <1>4, <1>5, <1>6 DEF KVPairs
<1>8. p.keys # <<>> /\ p.reqmatrixmeta = <<>>
  BY <1>1, <1>6
<1>9. Len(p.lens) = Len(p.keys) /\ Len(p.matrixmeta) = Len(p.keys)
  BY <1>1, <1>2, <1>3, <1>4
<1>10. p \in PushPairs
  BY <1>7, <1>8, <1>9 DEF PushPairs
<1>11. QED
  BY <1>10 DEF p

(* Every slice of a pull with a request for each key has them.               *)
LEMMA PullSegment ==
  ASSUME NEW keys \in Seq(Nat), NEW metas \in Seq(ReqMatrixMeta), Len(metas) = Len(keys),
         NEW i \in Nat, NEW j \in Nat, i < j, j <= Len(keys)
  PROVE  Segment(Pull(keys, metas), i, j, 0, 0) \in PullPairs
<1> DEFINE p == Segment(Pull(keys, metas), i, j, 0, 0)
<1>1. p = [keys |-> Part(keys, i, j), vals |-> <<>>, lens |-> <<>>,
           matrixmeta |-> <<>>, reqmatrixmeta |-> Part(metas, i, j)]
  <2>1. SubSeq(keys, i + 1, j) = Part(keys, i, j)
    BY PartTyped
  <2>2. Part(<<>>, i, j) = <<>> /\ SubSeq(<<>>, 0 + 1, 0) = <<>>
    BY DEF Part
  <2>3. QED
    BY <2>1, <2>2 DEF Segment, Pull
<1>2. Part(keys, i, j) \in Seq(Nat) /\ Len(Part(keys, i, j)) = j - i
  BY PartTyped
<1>3. Part(metas, i, j) \in Seq(ReqMatrixMeta) /\ Len(Part(metas, i, j)) = j - i
  BY PartTyped
<1>4. <<>> \in Seq(Val) /\ <<>> \in Seq(Int) /\ <<>> \in Seq(ServerMatrixMeta) /\ Part(keys, i, j) # <<>>
  BY <1>2
<1> HIDE DEF p
<1>5. p \in KVPairs
  BY <1>1, <1>2, <1>3, <1>4 DEF KVPairs
<1>6. QED
  BY <1>1, <1>2, <1>3, <1>4, <1>5 DEF PullPairs, p

(* What pullAll asks for is what a request for part of a matrix may be.      *)
LEMMA GenReqMatrixMetaTyped ==
  ASSUME NoKey \in Nat, NEW matrixId \in Int, NEW k \in Nat
  PROVE  [GenReqMatrixMeta(matrixId) EXCEPT !.key = k] \in ReqMatrixMeta
BY DEF GenReqMatrixMeta, ReqMatrixMeta, psfType

(* The rows and columns that pushAll gives a matrix are those of its values: *)
(* the parts that RowPartition makes of them take up what Push is given.     *)
THEOREM PushAllSize ==
  ASSUME NEW matrixId \in Int, NEW shape \in Seq(Nat), Len(shape) <= 2
  PROVE  LET x == GenServerMatrixMeta(matrixId, shape) IN
         /\ x \in ServerMatrixMeta
         /\ (x.endRow - x.startRow) * (x.endCol - x.startCol) = Ele_size(shape)
<1> DEFINE x == GenServerMatrixMeta(matrixId, shape)
<1>1. Len(shape) = 0 \/ Len(shape) = 1 \/ Len(shape) = 2
  <2>1. \A n \in Nat : n <= 2 => n = 0 \/ n = 1 \/ n = 2
    OBVIOUS
  <2>2. Len(shape) \in Nat
    OBVIOUS
  <2>3. QED
    BY <2>1, <2>2, Zenon
<1>2. \A n \in 1 .. Len(shape) : shape[n] \in Nat
  OBVIOUS
<1>3. x = [type |-> "PushAll", matrixId |-> matrixId, partId |-> 0, startRow |-> 0, startCol |-> 0,
           endRow |-> x.endRow, endCol |-> x.endCol, rowIndex |-> -1]
  BY DEF GenServerMatrixMeta
<1>4. CASE Len(shape) = 0
  <2>1. x.endRow = -1 /\ x.endCol = -1 /\ Ele_size(shape) = 1
    BY <1>4 DEF GenServerMatrixMeta, Ele_size
  <2> HIDE DEF x
  <2>2. QED
    BY <1>3, <2>1 DEF ServerMatrixMeta, psfType, x
<1>5. CASE Len(shape) = 1
  <2>1. x.endRow = 1 /\ x.endCol = shape[1] /\ Ele_size(shape) = shape[1] /\ shape[1] \in Nat
    BY <1>2, <1>5 DEF GenServerMatrixMeta, Ele_size
  <2> HIDE DEF x
  <2>2. QED
    BY <1>3, <2>1 DEF ServerMatrixMeta, psfType, x
<1>6. CASE Len(shape) = 2
  <2>1. /\ x.endRow = shape[1] /\ x.endCol = shape[2] /\ Ele_size(shape) = shape[1] * shape[2]
        /\ shape[1] \in Nat /\ shape[2] \in Nat
    BY <1>2, <1>6 DEF GenServerMatrixMeta, Ele_size
  <2> HIDE DEF x
  <2>2. QED
    BY <1>3, <2>1 DEF ServerMatrixMeta, psfType, x
<1>7. QED
  BY <1>1, <1>4, <1>5, <1>6

(* pullAll asks each server for the keys it has: every slice of the pull     *)
(* gets past the CHECKs of the server and its handle, which reads in it for  *)
(* each of the keys a request for the whole part of the matrix at that key.  *)
THEOREM PullAllArrives ==
  ASSUME kEmpty \in Int, NoKey \in Nat, NEW app \in Int, NEW priority \in Int,
         NEW m \in PullMeta, NEW matrixId \in Int, NEW keys \in Seq(Nat),
         NEW i \in Nat, NEW j \in Nat, i < j, j <= Len(keys), NEW identity, NEW me
  PROVE  LET metas == [n \in 1 .. Len(keys) |-> [GenReqMatrixMeta(matrixId) EXCEPT !.key = keys[n]]]
             msg == Arrived(Send(app, priority, m, Segment(Pull(keys, metas), i, j, 0, 0)), identity, me)
         IN  /\ ServerChecks(msg) /\ HandleChecks(msg)
             /\ ServerReads(msg).keys = SubSeq(keys, i + 1, j)
             /\ \A n \in 1 .. j - i :
                  ServerReads(msg).reqmatrixmeta[n]
                    = [GenReqMatrixMeta(matrixId) EXCEPT !.key = ServerReads(msg).keys[n]]
<1> DEFINE metas == [n \in 1 .. Len(keys) |-> [GenReqMatrixMeta(matrixId) EXCEPT !.key = keys[n]]]
           p == Segment(Pull(keys, metas), i, j, 0, 0)
           msg == Arrived(Send(app, priority, m, p), identity, me)
<1>1. metas \in Seq(ReqMatrixMeta) /\ Len(metas) = Len(keys)
  <2>1. ASSUME NEW n \in 1 .. Len(keys) PROVE metas[n] \in ReqMatrixMeta
    <3>1. keys[n] \in Nat
      OBVIOUS
    <3>2. QED
      BY <3>1, GenReqMatrixMetaTyped
  <2> HIDE DEF metas
  <2>2. DOMAIN metas = 1 .. Len(keys)
    BY DEF metas
  <2>3. QED
    <3>1. metas = [n \in 1 .. Len(keys) |-> metas[n]]
      BY DEF metas
    <3>2. QED
      BY <2>1, <3>1
<1>2. \A n \in 1 .. Len(keys) : metas[n] = [GenReqMatrixMeta(matrixId) EXCEPT !.key = keys[n]]
  OBVIOUS
<1> HIDE DEF metas
<1>3. p \in PullPairs
  BY <1>1, PullSegment
<1>4. p.keys = SubSeq(keys, i + 1, j) /\ p.reqmatrixmeta = SubSeq(metas, i + 1, j)
  <2>1. Part(metas, i, j) = SubSeq(metas, i + 1, j)
    BY <1>1, PartTyped
  <2>2. QED
    BY <2>1 DEF Segment, Pull
<1> HIDE DEF p
<1>5. ServerChecks(msg) /\ HandleChecks(msg) /\ ServerReads(msg) = p
  <2>1. Understood(msg, m, p, GetNodeID(identity))
    BY <1>3, PullArrives, Zenon
  <2>2. QED
    BY <2>1 DEF Understood
<1> HIDE DEF msg
<1>6. \A n \in 1 .. j - i : p.reqmatrixmeta[n] = [GenReqMatrixMeta(matrixId) EXCEPT !.key = p.keys[n]]
  <2> TAKE n \in 1 .. j - i
  <2>1. p.reqmatrixmeta[n] = metas[i + n] /\ p.keys[n] = keys[i + n] /\ i + n \in 1 .. Len(keys)
    BY <1>1, <1>4
  <2>2. QED
    BY <1>2, <2>1
<1>7. QED
  BY <1>4, <1>5, <1>6 DEF msg, p, metas

(* pushAll gives each part of the matrix meta data: every slice of the push  *)
(* gets past the same CHECKs, and the handle reads the lengths and meta data *)
(* of the keys in it, in their order.                                        *)
THEOREM PushAllArrives ==
  ASSUME kEmpty \in Int, NEW app \in Int, NEW priority \in Int,
         NEW m \in PushMeta, NEW keys \in Seq(Nat), NEW words \in Seq(Val), NEW lens \in Seq(Int),
         NEW metas \in Seq(ServerMatrixMeta), Len(lens) = Len(keys), Len(metas) = Len(keys),
         NEW i \in Nat, NEW j \in Nat, i < j, j <= Len(keys),
         NEW from \in Nat, NEW to \in Nat, from <= to, to <= Len(words), NEW identity, NEW me
  PROVE  LET p == Segment(ZPush(keys, words, lens, metas), i, j, from, to)
         IN  /\ Understood(Arrived(Send(app, priority, m, p), identity, me), m, p, GetNodeID(identity))
             /\ p.lens = SubSeq(lens, i + 1, j) /\ p.matrixmeta = SubSeq(metas, i + 1, j)
<1> DEFINE p == Segment(ZPush(keys, words, lens, metas), i, j, from, to)
<1>1. p \in PushPairs
  BY PushSegment
<1>2. p.lens = SubSeq(lens, i + 1, j) /\ p.matrixmeta = SubSeq(metas, i + 1, j)
  <2>1. Part(lens, i, j) = SubSeq(lens, i + 1, j) /\ Part(metas, i, j) = SubSeq(metas, i + 1, j)
    BY PartTyped
  <2>2. QED
    BY <2>1 DEF Segment, ZPush
<1> HIDE DEF p
<1>3. Understood(Arrived(Send(app, priority, m, p), identity, me), m, p, GetNodeID(identity))
  BY <1>1, PushArrives, Zenon
<1>4. QED
  BY <1>2, <1>3, Zenon DEF p

(* Over RDMA a pull comes with the meta data that PackMetaPB makes (van.cc:  *)
(* 445), and whatever it asks for, the handle takes it for a push without    *)
(* lengths: its CHECK at kv_app.h:529 ends the server.                       *)
THEOREM PullFailsOverRdma ==
  ASSUME kEmpty \in Int, NEW app \in Int, NEW priority \in Int, NEW m \in PullMeta,
         NEW p \in PullPairs, NEW sender, NEW me
  PROVE  LET sent == Send(app, priority, m, p)
         IN  ~ HandleChecks([meta |-> UnpackMeta(PackMetaPB(sent.meta), sender, me),
                             data |-> sent.data])
<1> PICK yes \in BOOLEAN : yes = TRUE
  OBVIOUS
<1> DEFINE sent == MessageOf(app, priority, m, yes, p)
           msg == [meta |-> UnpackMeta(PackMetaPB(sent.meta), sender, me), data |-> sent.data]
<1>0. m \in KVMeta /\ m.push = FALSE /\ p \in KVPairs
  BY DEF PullMeta, PullPairs
<1>1. sent.meta \in Meta
  BY <1>0, MessageTyped
<1>2. sent.data = [i \in DOMAIN Arrays(p) |-> p[Arrays(p)[i]]] /\ sent.meta.push = FALSE
  BY <1>0 DEF MessageOf
<1> HIDE DEF sent
<1>3. Len(sent.data) = 3 /\ sent.data # <<>> /\ sent.data[1] = p.keys
  BY <1>2, PullArrays
<1>4. UnpackMeta(PackMetaPB(sent.meta), sender, me) = Arrival(sent.meta, sender, me, FALSE)
  BY <1>1, PackMetaPBDropsPull
<1>5. msg.meta.pull = FALSE /\ msg.data = sent.data
  BY <1>4 DEF Arrival
<1> HIDE DEF msg
<1>6. Len(msg.data) = 3 /\ msg.data # <<>> /\ msg.data[1] = p.keys
  BY <1>3, <1>5
<1>7. ServerReads(msg).keys = p.keys /\ ServerReads(msg).lens = <<>>
  BY <1>6 DEF ServerReads
<1>8. Len(p.keys) # 0
  BY DEF PullPairs, KVPairs
<1>9. ~ HandleChecks(msg)
  BY <1>5, <1>7, <1>8 DEF HandleChecks
<1>10. QED
  BY <1>9 DEF Send, msg, sent

(* What SimpleApp::Request sends calls the request handle of the other side  *)
(* with its number, its string, the timestamp and the customer, and with the *)
(* sender in place of its own; Response uses that to answer (simple_app.h).  *)
THEOREM SimpleArrives ==
  ASSUME kEmpty \in Int, NEW d \in SimpleData, NEW app \in Int, NEW recver \in Int,
         NEW request \in BOOLEAN, NEW identity, NEW me
  PROVE  LET told == SimpleProcess(Arrived(SimpleMessage(app, recver, request, d), identity, me))
         IN  /\ told.handle = IF request THEN "request_handle_" ELSE "response_handle_"
             /\ told.data = [d EXCEPT !.sender = GetNodeID(identity)]
<1> DEFINE sent == SimpleMessage(app, recver, request, d)
<1>1. sent.meta \in Meta
  <2>1. NoControl \in Control /\ <<>> \in Seq(Int)
    BY DEF NoControl, Control, Command
  <2>2. PICK co \in Control, ty \in Seq(Int), no \in BOOLEAN :
          co = NoControl /\ ty = <<>> /\ no = FALSE
    BY <2>1
  <2>3. /\ d.head \in Int /\ d.body \in String /\ d.timestamp \in Int /\ d.customer_id \in Int
    BY DEF SimpleData
  <2>4. sent.meta =
          [head |-> d.head, app_id |-> app, customer_id |-> d.customer_id,
           timestamp |-> d.timestamp, sender |-> kEmpty, recver |-> recver,
           request |-> request, push |-> no, pull |-> no, simple_app |-> ~ no,
           body |-> d.body, data_type |-> ty, control |-> co, data_size |-> 0, priority |-> 0]
    BY <2>2 DEF SimpleMessage
  <2>5. PICK yes \in BOOLEAN : yes = ~ no
    OBVIOUS
  <2>6. [head |-> d.head, app_id |-> app, customer_id |-> d.customer_id,
         timestamp |-> d.timestamp, sender |-> kEmpty, recver |-> recver,
         request |-> request, push |-> no, pull |-> no, simple_app |-> yes,
         body |-> d.body, data_type |-> ty, control |-> co, data_size |-> 0, priority |-> 0]
          \in Meta
    BY <2>3 DEF Meta
  <2>7. QED
    BY <2>4, <2>5, <2>6
<1>2. sent = [meta |-> sent.meta, data |-> sent.data] /\ sent.data \in Seq(Int)
  BY DEF SimpleMessage
<1>3. /\ sent.meta.head = d.head /\ sent.meta.body = d.body /\ sent.meta.request = request
      /\ sent.meta.timestamp = d.timestamp /\ sent.meta.customer_id = d.customer_id
  BY DEF SimpleMessage
<1> HIDE DEF sent
<1>4. Arrived(sent, identity, me) =
        [meta |-> Arrival(sent.meta, GetNodeID(identity), me, sent.meta.pull), data |-> sent.data]
  BY <1>1, <1>2, FramesKeepMessage, Zenon DEF Arrived
<1>5. SimpleProcess(Arrived(sent, identity, me)) =
        [handle |-> IF request THEN "request_handle_" ELSE "response_handle_",
         data |-> [head |-> d.head, body |-> d.body, sender |-> GetNodeID(identity),
                   timestamp |-> d.timestamp, customer_id |-> d.customer_id]]
  BY <1>3, <1>4 DEF SimpleProcess, Arrival
<1>6. [d EXCEPT !.sender = GetNodeID(identity)] =
        [head |-> d.head, body |-> d.body, sender |-> GetNodeID(identity),
         timestamp |-> d.timestamp, customer_id |-> d.customer_id]
  BY DEF SimpleData
<1>7. QED
  BY <1>5, <1>6 DEF sent
=============================================================================
