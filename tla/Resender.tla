----------------------------- MODULE Resender ------------------------------
(***************************************************************************)
(* Retransmission in ps-lite: Van::Send and the head of Van::Receiving with *)
(* class Resender.  A sender hands a message to the transport and then, in *)
(* a second step, buffers it under a key; a monitor thread sends buffered  *)
(* entries again on a timeout and aborts the process at the retry limit.   *)
(* A receiver acknowledges every copy, remembers the key, and passes only  *)
(* the first copy on.  An acknowledgement erases the entry of its key.     *)
(*                                                                         *)
(* The transport may reorder: the vans behind Van::SendMsg include a       *)
(* priority queue and verbs.  Messages get lost in Van::Receiving itself,  *)
(* which drops what it has received with probability PS_DROP_MSG.  A node  *)
(* has no resender until Van::Start, woken by ready_, creates it, while    *)
(* its receiver thread already runs.                                       *)
(***************************************************************************)
EXTENDS Integers

CONSTANTS Node,       \* node ids
          Msg,        \* the messages the applications and vans send
          UpAtStart,  \* nodes whose resender exists in the initial state
          MaxRetry,   \* max_num_retry_
          MayLose,    \* whether PS_DROP_MSG is set
          MaxCopies,  \* bound on the copies, and on the acks, of one message in flight
          None

(* What GetKey reads of a message, and the customer, which it does not.     *)
Message == [app: Nat, customer: Nat, from: Node, to: Node, ts: Nat, request: 0 .. 1]

ASSUME NodeAssumption == Node \subseteq Nat
ASSUME MsgAssumption == Msg \subseteq Message
ASSUME NoneAssumption == None \notin Msg
ASSUME UpAssumption == UpAtStart \subseteq Node
ASSUME BoundAssumption == MaxRetry \in Nat /\ MaxCopies \in Nat /\ MayLose \in BOOLEAN

\* Resender::GetKey: app_id in 16 bits, the ids in 8; timestamp << 1 is an
\* int, so from 2^30 on it is negative and its sign fills the upper half
GetKey(m) ==
  IF m.ts < 1073741824
    THEN <<m.app % 65536, m.from % 256, m.to % 256, m.ts, m.request>>
    ELSE <<65535, 255, 255, m.ts, m.request>>

(* No two messages of the job have the same key.                            *)
DistinctKeys == \A m1, m2 \in Msg : GetKey(m1) = GetKey(m2) => m1 = m2

VARIABLES
  up,         \* nodes whose Resender exists
  aborted,    \* nodes whose process ended in CHECK_LT(num_retry, max_num_retry_)
  sent,       \* messages an application or van thread has handed to Van::Send
  wire,       \* wire[m]: copies of m in flight
  acks,       \* acks[m]: acks in flight that copies of m gave rise to
  adding,     \* <<thread, m>> between SendMsg and AddOutgoing
  buf,        \* the messages of the entries of every send_buff_
  retry,      \* retry[m]: num_retry of the entry of m
  resend,     \* resend[n]: what the monitor of n has still to send
  acked,      \* acked[n]: acked_
  handling,   \* handling[n]: what the receiver thread of n passed on, or None
  processed   \* processed[m]: times m reached its command or data handler

vars == <<up, aborted, sent, wire, acks, adding, buf, retry, resend, acked,
          handling, processed>>

Init ==
  /\ up = UpAtStart
  /\ aborted = {}
  /\ sent = {}
  /\ wire = [m \in Msg |-> 0]
  /\ acks = [m \in Msg |-> 0]
  /\ adding = {}
  /\ buf = {}
  /\ retry = [m \in Msg |-> 0]
  /\ resend = [n \in Node |-> {}]
  /\ acked = [n \in Node |-> {}]
  /\ handling = [n \in Node |-> None]
  /\ processed = [m \in Msg |-> 0]

Alive(n) == n \notin aborted

\* The entry of n's send_buff_ under the key of m
Entry(m) == {e \in buf : e.from = m.from /\ GetKey(e) = GetKey(m)}

MonitorBusy(n) == resend[n] # {} \/ \E m \in Msg : m.from = n /\ <<"monitor", m>> \in adding

----------------------------------------------------------------------------
\* Van::Start once ready_ is set
StartResender(n) ==
  /\ n \notin up
  /\ up' = up \cup {n}
  /\ UNCHANGED <<aborted, sent, wire, acks, adding, buf, retry, resend, acked,
                 handling, processed>>

\* Van::Send, the call of SendMsg
Send(m) ==
  /\ m \notin sent /\ Alive(m.from)
  /\ sent' = sent \cup {m}
  /\ wire' = [wire EXCEPT ![m] = @ + 1]
  /\ adding' = adding \cup {<<"sender", m>>}
  /\ UNCHANGED <<up, aborted, acks, buf, retry, resend, acked, handling, processed>>

\* Van::Send after SendMsg: Resender::AddOutgoing, when there is a resender.
\* An ack of the copy just sent may have come in between.
AddOutgoing(thread, m) ==
  /\ <<thread, m>> \in adding /\ Alive(m.from)
  /\ adding' = adding \ {<<thread, m>>}
  /\ IF m.from \in up /\ Entry(m) = {}
       THEN buf' = buf \cup {m} /\ retry' = [retry EXCEPT ![m] = 0]
       ELSE UNCHANGED <<buf, retry>>
  /\ UNCHANGED <<up, aborted, sent, wire, acks, resend, acked, handling, processed>>

\* Mutant: entries past the limit are given up silently
TimeoutGivesUp(n, late) ==
  /\ n \in up /\ Alive(n) /\ ~MonitorBusy(n)
  /\ late # {} /\ late \subseteq {m \in buf : m.from = n}
  /\ \A m \in late : wire[m] < MaxCopies
  /\ retry' = [m \in Msg |-> IF m \in late THEN retry[m] + 1 ELSE retry[m]]
  /\ LET over == {m \in late : retry'[m] >= MaxRetry}
     IN /\ buf' = buf \ over
        /\ resend' = [resend EXCEPT ![n] = late \ over]
  /\ UNCHANGED <<up, aborted, sent, wire, acks, adding, acked, handling, processed>>

\* Mutant: an entry is sent again once only
TimeoutOnce(n, late) ==
  /\ n \in up /\ Alive(n) /\ ~MonitorBusy(n)
  /\ late # {} /\ late \subseteq {m \in buf : m.from = n}
  /\ \A m \in late : wire[m] < MaxCopies /\ retry[m] = 0
  /\ retry' = [m \in Msg |-> IF m \in late THEN retry[m] + 1 ELSE retry[m]]
  /\ resend' = [resend EXCEPT ![n] = late]
  /\ UNCHANGED <<up, aborted, sent, wire, acks, adding, buf, acked, handling, processed>>

\* Resender::Monitoring, one pass under mu_: late are the entries whose time
\* is up
Timeout(n, late) ==
  /\ n \in up /\ Alive(n) /\ ~MonitorBusy(n)
  /\ late # {} /\ late \subseteq {m \in buf : m.from = n}
  /\ \A m \in late : wire[m] < MaxCopies
  /\ retry' = [m \in Msg |-> IF m \in late THEN retry[m] + 1 ELSE retry[m]]
  /\ IF \E m \in late : retry[m] + 1 >= MaxRetry
       THEN aborted' = aborted \cup {n} /\ UNCHANGED resend
       ELSE resend' = [resend EXCEPT ![n] = late] /\ UNCHANGED aborted
  /\ UNCHANGED <<up, sent, wire, acks, adding, buf, acked, handling, processed>>

\* Resender::Monitoring, after mu_ is released: one van_->Send of the list
Resend(m) ==
  /\ m \in resend[m.from] /\ Alive(m.from)
  /\ ~\E e \in Msg : e.from = m.from /\ <<"monitor", e>> \in adding
  /\ resend' = [resend EXCEPT ![m.from] = @ \ {m}]
  /\ wire' = [wire EXCEPT ![m] = @ + 1]
  /\ adding' = adding \cup {<<"monitor", m>>}
  /\ UNCHANGED <<up, aborted, sent, acks, buf, retry, acked, handling, processed>>

\* Mutant: a copy whose key is known is acknowledged but passed on again
ReceiveAgain(m) ==
  LET n == m.to
  IN /\ wire[m] > 0 /\ acks[m] < MaxCopies
     /\ Alive(n) /\ handling[n] = None
     /\ wire' = [wire EXCEPT ![m] = @ - 1]
     /\ handling' = [handling EXCEPT ![n] = m]
     /\ acks' = IF n \in up THEN [acks EXCEPT ![m] = @ + 1] ELSE acks
     /\ acked' = IF n \in up THEN [acked EXCEPT ![n] = @ \cup {GetKey(m)}] ELSE acked
     /\ UNCHANGED <<up, aborted, sent, adding, buf, retry, resend, processed>>

\* Van::Receiving on a message: Resender::AddIncomming, when there is a
\* resender, acknowledges the copy and filters it if its key is known
Receive(m) ==
  LET n == m.to
      duplicated == n \in up /\ GetKey(m) \in acked[n]
  IN /\ wire[m] > 0 /\ acks[m] < MaxCopies
     /\ Alive(n) /\ handling[n] = None
     /\ wire' = [wire EXCEPT ![m] = @ - 1]
     /\ handling' = IF duplicated THEN handling ELSE [handling EXCEPT ![n] = m]
     /\ acks' = IF n \in up THEN [acks EXCEPT ![m] = @ + 1] ELSE acks
     /\ acked' = IF n \in up THEN [acked EXCEPT ![n] = @ \cup {GetKey(m)}] ELSE acked
     /\ UNCHANGED <<up, aborted, sent, adding, buf, retry, resend, processed>>

\* Van::Receiving after the filter: the handler of the message
Process(n) ==
  /\ handling[n] # None /\ Alive(n)
  /\ processed' = [processed EXCEPT ![handling[n]] = @ + 1]
  /\ handling' = [handling EXCEPT ![n] = None]
  /\ UNCHANGED <<up, aborted, sent, wire, acks, adding, buf, retry, resend, acked>>

\* Mutant: the ack of one copy is taken twice
ReceiveAckTwice(m) ==
  /\ acks[m] > 0 /\ Alive(m.from) /\ handling[m.from] = None
  /\ acks' = [acks EXCEPT ![m] = @ - 2]
  /\ buf' = IF m.from \in up THEN buf \ Entry(m) ELSE buf
  /\ UNCHANGED <<up, aborted, sent, wire, adding, retry, resend, acked, handling, processed>>

\* Resender::AddIncomming on an ack.  A node without a resender ignores it.
ReceiveAck(m) ==
  /\ acks[m] > 0 /\ Alive(m.from) /\ handling[m.from] = None
  /\ acks' = [acks EXCEPT ![m] = @ - 1]
  /\ buf' = IF m.from \in up THEN buf \ Entry(m) ELSE buf
  /\ UNCHANGED <<up, aborted, sent, wire, adding, retry, resend, acked, handling, processed>>

\* Van::Receiving drops a message or an ack it has received (once ready_, which
\* comes at or before the resender and is not modelled); what travels to a
\* process that ended is gone too
Lose(m) ==
  /\ wire[m] > 0
  /\ \/ MayLose /\ Alive(m.to) /\ handling[m.to] = None
     \/ ~Alive(m.to)
  /\ wire' = [wire EXCEPT ![m] = @ - 1]
  /\ UNCHANGED <<up, aborted, sent, acks, adding, buf, retry, resend, acked,
                 handling, processed>>

LoseAck(m) ==
  /\ acks[m] > 0
  /\ \/ MayLose /\ Alive(m.from) /\ handling[m.from] = None
     \/ ~Alive(m.from)
  /\ acks' = [acks EXCEPT ![m] = @ - 1]
  /\ UNCHANGED <<up, aborted, sent, wire, adding, buf, retry, resend, acked,
                 handling, processed>>

Threads == {"sender", "monitor"}

Next ==
  \/ \E n \in Node : StartResender(n)
  \/ \E m \in Msg : Send(m)
  \/ \E thread \in Threads, m \in Msg : AddOutgoing(thread, m)
  \/ \E n \in Node : \E late \in SUBSET buf : Timeout(n, late)
  \/ \E m \in Msg : Resend(m)
  \/ \E m \in Msg : Receive(m)
  \/ \E n \in Node : Process(n)
  \/ \E m \in Msg : ReceiveAck(m)
  \/ \E m \in Msg : Lose(m)
  \/ \E m \in Msg : LoseAck(m)

Spec == Init /\ [][Next]_vars

(* Threads run: a message sent gets buffered, a listed one sent, a copy     *)
(* taken off the transport (and perhaps dropped), a handler finishes.  The  *)
(* monitor's passes may each find other entries late, but an entry that     *)
(* stays is late in some pass: strong fairness.                             *)
FairSpec ==
  /\ Spec
  /\ \A m \in Msg :
       /\ \A thread \in Threads : WF_vars(AddOutgoing(thread, m))
       /\ WF_vars(Resend(m))
       /\ SF_vars(Receive(m) \/ Lose(m))
       /\ SF_vars(ReceiveAck(m) \/ LoseAck(m))
       /\ SF_vars(\E late \in SUBSET buf : m \in late /\ Timeout(m.from, late))
  /\ \A n \in Node : WF_vars(Process(n))

----------------------------------------------------------------------------
TypeOK ==
  /\ up \subseteq Node
  /\ aborted \subseteq Node
  /\ sent \subseteq Msg
  /\ wire \in [Msg -> Nat]
  /\ acks \in [Msg -> Nat]
  /\ adding \subseteq Threads \X Msg
  /\ buf \subseteq Msg
  /\ retry \in [Msg -> Nat]
  /\ resend \in [Node -> SUBSET Msg]
  /\ acked \in [Node -> SUBSET {GetKey(m) : m \in Msg}]
  /\ handling \in [Node -> Msg \cup {None}]
  /\ processed \in [Msg -> Nat]

(* A node that had its resender from the start never hands its handlers the *)
(* same message twice, however often it was sent again.                     *)
AtMostOnce == \A m \in Msg : m.to \in UpAtStart => processed[m] <= 1

\* Where the sender still holds m: in send_buff_, or about to put it there
Held(m) == m \in buf \/ \E thread \in Threads : <<thread, m>> \in adding

(* What a node that had its resender from the start has sent is held by it  *)
(* until a receiver has passed it on, or until the sender gave up and       *)
(* aborted: no ack of another message, no entry under the same key and no   *)
(* race of an ack with AddOutgoing makes a message disappear.               *)
KeptUntilHandled ==
  \A m \in sent : m.from \in UpAtStart =>
     \/ processed[m] > 0
     \/ handling[m.to] = m
     \/ Held(m)
     \/ m.from \in aborted

(* No message reaches its handler twice, whenever the resenders are made.   *)
ProcessedOnce == \A m \in Msg : processed[m] <= 1

(* Every such message reaches its handler, unless the sender gives up or    *)
(* the receiver has given up on a message of its own.                       *)
EventuallyProcessed ==
  \A m \in {e \in Msg : e.from \in UpAtStart} :
     m \in sent ~> processed[m] > 0 \/ {m.from, m.to} \cap aborted # {}

=============================================================================
