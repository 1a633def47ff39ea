--------------------------- MODULE ResenderProofs ---------------------------
(***************************************************************************)
(* Retransmission is safe: for any nodes, messages and limits, a node that *)
(* filters from the start hands on no message twice, and when keys are     *)
(* distinct a sender that buffers from the start holds a message until it  *)
(* has been handed on.  The argument for both is the key: a receiver that  *)
(* filters knows the key of every message it handed on, and an ack or a    *)
(* known key means the message was handed on.                              *)
(***************************************************************************)
EXTENDS Resender, TLAPS

(* A node id of a byte is a natural number below 256.                       *)
LEMMA ByteId == ASSUME Node \subseteq 0 .. 255, NEW n \in Node PROVE n \in Nat /\ n < 256
<1>1. n \in 0 .. 255
  BY Zenon
<1>2. QED
  BY <1>1, SMT

(* Taking a number modulo something larger changes nothing.                 *)
LEMMA ModBelow == ASSUME NEW i \in Nat, NEW k \in {256, 65536}, i < k PROVE i % k = i
<1>1. i < 256 => i % 256 = i
  BY SMT
<1>2. i < 65536 => i % 65536 = i
  BY SMT
<1>3. QED
  BY <1>1, <1>2

(* One customer in each node, ids of a byte, application ids of 16 bits and *)
(* timestamps below 2^30.                                                   *)
SmallFields ==
  /\ Node \subseteq 0 .. 255
  /\ \A m \in Msg : m.app < 65536 /\ m.ts < 1073741824
  /\ \A m1, m2 \in Msg : m1.customer = m2.customer

(* When nodes have one customer, ids fit a byte, application ids 16 bits    *)
(* and timestamps stay below 2^30, no two messages that differ have one key.*)
THEOREM SmallFieldsDistinctKeys == SmallFields => DistinctKeys
<1> SUFFICES ASSUME SmallFields, NEW m1 \in Msg, NEW m2 \in Msg, GetKey(m1) = GetKey(m2)
             PROVE  m1 = m2
  BY DEF DistinctKeys
<1>1. ASSUME NEW m \in Msg
      PROVE  GetKey(m) = <<m.app, m.from, m.to, m.ts, m.request>>
  <2>1. m.app \in Nat /\ m.from \in Node /\ m.to \in Node
    BY MsgAssumption DEF Message
  <2>2. m.from \in Nat /\ m.from < 256 /\ m.to \in Nat /\ m.to < 256
    <3>1. Node \subseteq 0 .. 255
      BY DEF SmallFields
    <3>2. QED
      BY <2>1, <3>1, ByteId, Zenon
  <2>3. m.app < 65536 /\ m.ts < 1073741824
    BY DEF SmallFields
  <2>4. m.app % 65536 = m.app /\ m.from % 256 = m.from /\ m.to % 256 = m.to
    BY <2>1, <2>2, <2>3, ModBelow
  <2>5. QED
    BY <2>3, <2>4 DEF GetKey
<1>2. /\ m1.app = m2.app /\ m1.from = m2.from /\ m1.to = m2.to
      /\ m1.ts = m2.ts /\ m1.request = m2.request
  BY <1>1
<1>3. m1 \in Message /\ m2 \in Message /\ m1.customer = m2.customer
  BY MsgAssumption DEF SmallFields
<1>4. QED
  BY <1>2, <1>3 DEF Message

----------------------------------------------------------------------------
(* The variables keep their types.                                          *)
LEMMA TypeInit == Init => TypeOK
BY UpAssumption DEF Init, TypeOK

(* Every message has a sender and a receiver among the nodes.               *)
LEMMA MsgShape == \A m \in Msg : m.from \in Node /\ m.to \in Node
BY MsgAssumption DEF Message

(* The variables keep their types at every step.                            *)
LEMMA TypeNext == TypeOK /\ [Next]_vars => TypeOK'
<1> SUFFICES ASSUME TypeOK, [Next]_vars PROVE TypeOK'
  OBVIOUS
<1> USE MsgShape DEF TypeOK
<1>1. ASSUME NEW n \in Node, StartResender(n) PROVE TypeOK'
  BY <1>1 DEF StartResender
<1>2. ASSUME NEW m \in Msg, Send(m) PROVE TypeOK'
  BY <1>2 DEF Send, Threads
<1>3. ASSUME NEW thread \in Threads, NEW m \in Msg, AddOutgoing(thread, m) PROVE TypeOK'
  BY <1>3 DEF AddOutgoing
<1>4. ASSUME NEW n \in Node, NEW late \in SUBSET buf, Timeout(n, late) PROVE TypeOK'
  BY <1>4 DEF Timeout
<1>5. ASSUME NEW m \in Msg, Resend(m) PROVE TypeOK'
  BY <1>5 DEF Resend, Threads
<1>6. ASSUME NEW m \in Msg, Receive(m) PROVE TypeOK'
  BY <1>6 DEF Receive
<1>7. ASSUME NEW n \in Node, Process(n) PROVE TypeOK'
  BY <1>7 DEF Process
<1>8. ASSUME NEW m \in Msg, ReceiveAck(m) PROVE TypeOK'
  BY <1>8 DEF ReceiveAck
<1>9. ASSUME NEW m \in Msg, Lose(m) PROVE TypeOK'
  BY <1>9 DEF Lose
<1>10. ASSUME NEW m \in Msg, LoseAck(m) PROVE TypeOK'
  BY <1>10 DEF LoseAck
<1>11. CASE UNCHANGED vars
  BY <1>11 DEF vars
<1>12. QED
  BY <1>1, <1>2, <1>3, <1>4, <1>5, <1>6, <1>7, <1>8, <1>9, <1>10, <1>11 DEF Next

----------------------------------------------------------------------------
(* A receiver thread has in hand only messages to its node.                 *)
InHandIsOwn == \A n \in Node : handling[n] # None => handling[n].to = n

(* Receiver threads take messages to their nodes only.                      *)
LEMMA InHandNext == TypeOK /\ InHandIsOwn /\ [Next]_vars => InHandIsOwn'
<1> SUFFICES ASSUME TypeOK, InHandIsOwn, [Next]_vars PROVE InHandIsOwn'
  OBVIOUS
<1> USE MsgShape, NoneAssumption DEF InHandIsOwn, TypeOK
<1>1. CASE UNCHANGED handling
  BY <1>1
<1>2. ASSUME NEW m \in Msg, Receive(m) PROVE InHandIsOwn'
  BY <1>2 DEF Receive
<1>3. ASSUME NEW n \in Node, Process(n) PROVE InHandIsOwn'
  BY <1>3 DEF Process
<1>4. QED
  BY <1>1, <1>2, <1>3 DEF Next, vars, StartResender, Send, AddOutgoing, Timeout, Resend,
                          ReceiveAck, Lose, LoseAck

(* Inductive: a node that filters from the start knows the key of what it   *)
(* is handing on or has handed on, and its receiver thread has in hand only *)
(* what it has not handed on before.                                        *)
FilterInv ==
  /\ TypeOK
  /\ UpAtStart \subseteq up
  /\ InHandIsOwn
  /\ \A m \in Msg : m.to \in UpAtStart =>
       /\ processed[m] <= 1
       /\ handling[m.to] = m => processed[m] = 0
       /\ processed[m] > 0 \/ handling[m.to] = m => GetKey(m) \in acked[m.to]

(* Nothing has been handed on in the initial state.                         *)
LEMMA FilterInvInit == Init => FilterInv
BY TypeInit, NoneAssumption, MsgShape DEF Init, FilterInv, InHandIsOwn

(* Taking a copy off the wire preserves the filter's invariant: a copy of a *)
(* message handed on before is filtered, its key is known.                  *)
LEMMA FilterInvReceive ==
  ASSUME FilterInv, TypeOK', NEW m \in Msg, Receive(m)
  PROVE  FilterInv'
<1> USE MsgShape, NoneAssumption DEF FilterInv, TypeOK, Receive
<1>1. (UpAtStart \subseteq up)'
  OBVIOUS
<1>2. InHandIsOwn'
  BY DEF InHandIsOwn
<1>3. ASSUME NEW e \in Msg, e.to \in UpAtStart
      PROVE  /\ processed'[e] <= 1
             /\ handling'[e.to] = e => processed'[e] = 0
             /\ processed'[e] > 0 \/ handling'[e.to] = e => GetKey(e) \in acked'[e.to]
  <2>1. processed' = processed /\ processed[e] \in Nat
    OBVIOUS
  <2>2. CASE e = m
    BY <1>3, <2>1, <2>2
  <2>3. CASE e # m
    <3>1. acked[e.to] \subseteq acked'[e.to]
      OBVIOUS
    <3>2. handling'[e.to] = e => handling[e.to] = e
      BY <2>3
    <3>3. QED
      BY <1>3, <2>1, <3>1, <3>2
  <2>4. QED
    BY <2>2, <2>3
<1>4. QED
  BY <1>1, <1>2, <1>3

(* The handler's step preserves it: the message in hand had not been handed *)
(* on, and its key stays known.                                             *)
LEMMA FilterInvProcess ==
  ASSUME FilterInv, TypeOK', NEW n \in Node, Process(n)
  PROVE  FilterInv'
<1> USE MsgShape, NoneAssumption DEF FilterInv, TypeOK, Process
<1>1. handling[n] \in Msg /\ handling[n].to = n
  BY DEF InHandIsOwn
<1>2. (UpAtStart \subseteq up)' /\ InHandIsOwn'
  BY DEF InHandIsOwn
<1>3. ASSUME NEW e \in Msg, e.to \in UpAtStart
      PROVE  /\ processed'[e] <= 1
             /\ handling'[e.to] = e => processed'[e] = 0
             /\ processed'[e] > 0 \/ handling'[e.to] = e => GetKey(e) \in acked'[e.to]
  <2>1. acked' = acked /\ processed[e] \in Nat
    OBVIOUS
  <2>2. CASE e = handling[n]
    BY <1>1, <1>3, <2>1, <2>2
  <2>3. CASE e # handling[n]
    BY <1>1, <1>3, <2>1, <2>3
  <2>4. QED
    BY <2>2, <2>3
<1>4. QED
  BY <1>2, <1>3

(* Every step preserves it; those not above touch neither the filter nor    *)
(* the handlers.                                                            *)
LEMMA FilterInvNext == FilterInv /\ [Next]_vars => FilterInv'
<1> SUFFICES ASSUME FilterInv, [Next]_vars PROVE FilterInv'
  OBVIOUS
<1>1. TypeOK'
  BY TypeNext DEF FilterInv
<1>2. ASSUME UNCHANGED <<acked, handling, processed>>, up \subseteq up'
      PROVE  FilterInv'
  BY <1>1, <1>2 DEF FilterInv, InHandIsOwn
<1>3. ASSUME NEW n \in Node, StartResender(n) PROVE FilterInv'
  BY <1>2, <1>3 DEF StartResender
<1>4. ASSUME NEW m \in Msg, Send(m) \/ Resend(m) \/ ReceiveAck(m) \/ Lose(m) \/ LoseAck(m)
      PROVE  FilterInv'
  BY <1>2, <1>4 DEF Send, Resend, ReceiveAck, Lose, LoseAck
<1>5. ASSUME NEW thread \in Threads, NEW m \in Msg, AddOutgoing(thread, m) PROVE FilterInv'
  BY <1>2, <1>5 DEF AddOutgoing
<1>6. ASSUME NEW n \in Node, NEW late \in SUBSET buf, Timeout(n, late) PROVE FilterInv'
  BY <1>2, <1>6 DEF Timeout
<1>7. ASSUME NEW m \in Msg, Receive(m) PROVE FilterInv'
  BY <1>1, <1>7, FilterInvReceive
<1>8. ASSUME NEW n \in Node, Process(n) PROVE FilterInv'
  BY <1>1, <1>8, FilterInvProcess
<1>9. CASE UNCHANGED vars
  BY <1>2, <1>9 DEF vars
<1>10. QED
  BY <1>3, <1>4, <1>5, <1>6, <1>7, <1>8, <1>9 DEF Next

(* The variables have their types, and no message reaches its handler twice *)
(* on a node whose resender is there from the start, in every behaviour and *)
(* whatever the transport loses, repeats or reorders.                       *)
THEOREM ResenderAtMostOnce == Spec => [](TypeOK /\ AtMostOnce)
<1>1. Init => FilterInv
  BY FilterInvInit
<1>2. FilterInv /\ [Next]_vars => FilterInv'
  BY FilterInvNext
<1>3. FilterInv => TypeOK /\ AtMostOnce
  BY DEF FilterInv, AtMostOnce
<1>4. QED
  BY <1>1, <1>2, <1>3, PTL DEF Spec

----------------------------------------------------------------------------
\* The receiver has handed m on, or has it in hand
Passed(m) == processed[m] > 0 \/ handling[m.to] = m

(* Inductive when keys are distinct: a known key, and an ack in flight, are *)
(* of a message that was passed on; what was sent and not passed on is      *)
(* still held.                                                              *)
KeptInv ==
  /\ TypeOK
  /\ UpAtStart \subseteq up
  /\ InHandIsOwn
  /\ \A m \in Msg : GetKey(m) \in acked[m.to] \/ acks[m] > 0 => Passed(m)
  /\ \A m \in sent : m.from \in UpAtStart => Passed(m) \/ Held(m) \/ m.from \in aborted

(* Nothing has been sent in the initial state.                              *)
LEMMA KeptInvInit == Init => KeptInv
BY TypeInit, NoneAssumption, MsgShape DEF Init, KeptInv, Passed, InHandIsOwn

(* With distinct keys the entry of a message is its own.                    *)
LEMMA EntryIsOwn ==
  ASSUME DistinctKeys, TypeOK, NEW m \in Msg
  PROVE  Entry(m) = buf \cap {m}
BY DEF DistinctKeys, TypeOK, Entry

(* Passed is for ever: the receiver thread leaves its message only by       *)
(* handing it on.                                                           *)
LEMMA PassedStays ==
  ASSUME TypeOK, [Next]_vars, NEW e \in Msg, Passed(e)
  PROVE  Passed(e)'
<1> USE MsgShape, NoneAssumption DEF TypeOK, Passed
<1>1. CASE UNCHANGED <<handling, processed>>
  BY <1>1
<1>2. ASSUME NEW m \in Msg, Receive(m) PROVE Passed(e)'
  BY <1>2 DEF Receive
<1>3. ASSUME NEW n \in Node, Process(n) PROVE Passed(e)'
  BY <1>3 DEF Process
<1>4. QED
  BY <1>1, <1>2, <1>3 DEF Next, vars, StartResender, Send, AddOutgoing, Timeout, Resend,
                          ReceiveAck, Lose, LoseAck

(* A key gets known, and an ack goes out, only when the message is passed.  *)
LEMMA KnownKeyPassed ==
  ASSUME DistinctKeys, KeptInv, [Next]_vars, NEW e \in Msg,
         GetKey(e) \in acked'[e.to] \/ acks'[e] > 0
  PROVE  Passed(e)'
<1> USE MsgShape, NoneAssumption DEF TypeOK
<1>1. TypeOK
  BY DEF KeptInv
<1>2. CASE GetKey(e) \in acked[e.to] \/ acks[e] > 0
  BY <1>1, <1>2, PassedStays DEF KeptInv
<1>3. CASE ~(GetKey(e) \in acked[e.to] \/ acks[e] > 0)
  <2>1. ASSUME NEW m \in Msg, Receive(m) PROVE Passed(e)'
    <3>1. (m.to = e.to /\ GetKey(e) = GetKey(m)) \/ e = m
      BY <1>1, <1>3, <2>1 DEF Receive
    <3>2. e = m
      BY <3>1 DEF DistinctKeys
    <3>3. QED
      BY <1>1, <1>3, <2>1, <3>2 DEF Receive, Passed
  <2>2. QED
    BY <1>1, <1>3, <2>1 DEF Next, vars, StartResender, Send, AddOutgoing, Timeout, Resend,
                            Process, ReceiveAck, Lose, LoseAck
<1>4. QED
  BY <1>2, <1>3

(* What is sent and was not passed on stays held, or the sender aborts.     *)
LEMMA HeldStays ==
  ASSUME DistinctKeys, KeptInv, [Next]_vars, NEW e \in sent', e.from \in UpAtStart
  PROVE  Passed(e)' \/ Held(e)' \/ e.from \in aborted'
<1> USE MsgShape, NoneAssumption DEF TypeOK
<1>1. TypeOK /\ e.from \in up
  BY DEF KeptInv
<1>2. CASE e \notin sent
  <2>1. Send(e)
    BY <1>1, <1>2 DEF Next, vars, StartResender, Send, AddOutgoing, Timeout, Resend,
                      Receive, Process, ReceiveAck, Lose, LoseAck
  <2>2. QED
    BY <2>1 DEF Send, Held, Threads
<1>3. CASE e \in sent /\ Passed(e)
  BY <1>1, <1>3, PassedStays
<1>4. CASE e \in sent /\ e.from \in aborted
  BY <1>1, <1>4 DEF Next, vars, StartResender, Send, AddOutgoing, Timeout, Resend,
                    Receive, Process, ReceiveAck, Lose, LoseAck
<1>5. CASE e \in sent /\ ~Passed(e) /\ Held(e)
  <2>1. e \in Msg /\ ~(acks[e] > 0)
    BY <1>1, <1>5 DEF KeptInv
  <2>2. CASE buf \subseteq buf' /\ adding \subseteq adding'
    BY <1>5, <2>2 DEF Held
  <2>3. ASSUME NEW thread \in Threads, NEW m \in Msg, AddOutgoing(thread, m) PROVE Held(e)'
    <3>1. buf \subseteq buf' /\ adding' = adding \ {<<thread, m>>}
      BY <2>3 DEF AddOutgoing
    <3>2. CASE e = m
      <4>1. Entry(m) = buf \cap {m}
        BY <1>1, EntryIsOwn
      <4>2. e \in buf'
        BY <1>1, <2>3, <3>2, <4>1 DEF AddOutgoing
      <4>3. QED
        BY <4>2 DEF Held
    <3>3. CASE e # m
      BY <1>5, <3>1, <3>3 DEF Held
    <3>4. QED
      BY <3>2, <3>3
  <2>4. ASSUME NEW m \in Msg, ReceiveAck(m) PROVE Held(e)'
    <3>1. e # m
      BY <2>1, <2>4 DEF ReceiveAck
    <3>2. Entry(m) = buf \cap {m}
      BY <1>1, EntryIsOwn
    <3>3. QED
      BY <1>5, <2>4, <3>1, <3>2 DEF ReceiveAck, Held
  <2>5. QED
    BY <2>2, <2>3, <2>4 DEF Next, vars, StartResender, Send, Timeout, Resend,
                            Receive, Process, Lose, LoseAck
<1>6. QED
  BY <1>2, <1>3, <1>4, <1>5 DEF KeptInv

(* With distinct keys every step preserves the invariant.                   *)
LEMMA KeptInvNext == DistinctKeys /\ KeptInv /\ [Next]_vars => KeptInv'
<1> SUFFICES ASSUME DistinctKeys, KeptInv, [Next]_vars PROVE KeptInv'
  OBVIOUS
<1>1. TypeOK'
  BY TypeNext DEF KeptInv
<1>2. (UpAtStart \subseteq up)'
  BY DEF KeptInv, Next, vars, StartResender, Send, AddOutgoing, Timeout, Resend,
         Receive, Process, ReceiveAck, Lose, LoseAck
<1>3. InHandIsOwn'
  BY InHandNext DEF KeptInv
<1>4. (\A m \in Msg : GetKey(m) \in acked[m.to] \/ acks[m] > 0 => Passed(m))'
  BY KnownKeyPassed
<1>5. (\A m \in sent : m.from \in UpAtStart => Passed(m) \/ Held(m) \/ m.from \in aborted)'
  BY HeldStays
<1>6. QED
  BY <1>1, <1>2, <1>3, <1>4, <1>5 DEF KeptInv

(* When no two messages have one key, a sender whose resender is there from *)
(* the start holds each message until a receiver passed it on, whatever is  *)
(* lost, repeated or reordered and however acks race with AddOutgoing.      *)
THEOREM ResenderKeepsMessages == DistinctKeys => (Spec => []KeptUntilHandled)
<1> SUFFICES ASSUME DistinctKeys PROVE Spec => []KeptUntilHandled
  OBVIOUS
<1>1. Init => KeptInv
  BY KeptInvInit
<1>2. KeptInv /\ [Next]_vars => KeptInv'
  BY KeptInvNext
<1>3. KeptInv => KeptUntilHandled
  BY DEF KeptInv, KeptUntilHandled, Passed
<1>4. QED
  BY <1>1, <1>2, <1>3, PTL DEF Spec

(* The buffers, counts of copies and keys of Resender stay in their types,   *)
(* for every set of messages and however they are lost and sent again.       *)
THEOREM ResenderTypeCorrect == Spec => []TypeOK
<1>1. Spec => [](TypeOK /\ AtMostOnce)
  BY ResenderAtMostOnce
<1>2. QED
  BY <1>1, PTL

=============================================================================
