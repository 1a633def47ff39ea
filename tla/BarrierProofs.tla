--------------------------- MODULE BarrierProofs ---------------------------
(***************************************************************************)
(* For any processes, customers and groups: the barrier implements         *)
(* BarrierSpec, so no call of it returns early.  The argument is the       *)
(* counting one: the scheduler's counter is the number of threads asleep   *)
(* in the group whose request it has read, so when it equals the size of   *)
(* the group every member is asleep in it.                                 *)
(*                                                                         *)
(* And for any number of iterations besides: a job whose threads meet in   *)
(* that barrier (module Job) trains synchronously and stops quietly.  The  *)
(* argument is that of phases: up to the barrier of Finalize all threads   *)
(* have passed the same barriers, all but the one they are at; after it    *)
(* nothing is under way but the scheduler's responses.                     *)
(***************************************************************************)
EXTENDS Job, FiniteSetTheorems, SequenceTheorems, TLAPS

(* Inductive.  A request is on its way only for a thread asleep in its      *)
(* group that nothing has woken; a thread in a call has its entry; a        *)
(* response finds its whole process asleep; the counter is exact.           *)
IInv ==
  /\ TypeOK
  /\ \A t \in Thread, g \in Group :
       <<t, g>> \in reqs => at[t] = g /\ t \notin done /\ t[1] \notin resps
  /\ \A t \in Thread : at[t] # None => t \in Member[at[t]] /\ t[2] \in keys[t[1]]
  /\ \A p \in Proc : keys[p] \subseteq Customers[p]
  /\ ResponseFindsAllWaiting
  /\ CountIsExact

----------------------------------------------------------------------------
(* A thread is a process and one of its customer ids.                       *)
LEMMA ThreadShape ==
  /\ \A p \in Proc : \A c \in Customers[p] : <<p, c>> \in Thread
  /\ \A t \in Thread :
       t[1] \in Proc /\ t[2] \in Customers[t[1]] /\ t = <<t[1], t[2]>> /\ t[2] \in Nat
BY CustomersAssumption DEF Thread

(* The members of a group are the threads of its processes.                 *)
LEMMA MemberShape ==
  ASSUME NEW g \in Group
  PROVE  /\ Member[g] \subseteq Thread
         /\ \A t \in Thread : t \in Member[g] <=> t[1] \in Procs(g)
BY ThreadShape DEF Member, Procs

(* The threads counted in a group are finitely many members of it.          *)
LEMMA CountedFinite ==
  ASSUME NEW g \in Group
  PROVE  /\ IsFiniteSet(Member[g]) /\ IsFiniteSet(Counted(g))
         /\ Cardinality(Member[g]) \in Nat /\ Cardinality(Counted(g)) \in Nat
<1>1. Member[g] \subseteq Thread /\ Counted(g) \subseteq Member[g]
  BY MemberShape DEF Counted
<1>2. QED
  BY <1>1, FinitenessAssumption, FS_Subset, FS_CardinalityType

(* Manage reaches every customer of a process that has all its entries,     *)
(* when the customer ids are contiguous.                                    *)
LEMMA LoopReachesAll ==
  ASSUME ContiguousIds, NEW p \in Proc
  PROVE  0 .. Cardinality(Customers[p]) - 1 = Customers[p]
<1>1. PICK n \in Nat : Customers[p] = 0 .. n - 1
  BY DEF ContiguousIds
<1>2. Cardinality(Customers[p]) = n
  BY <1>1, FS_Interval
<1>3. QED
  BY <1>1, <1>2

----------------------------------------------------------------------------
(* In the initial state nobody waits and every count is zero.               *)
LEMMA IInvInit == Init => IInv
<1> SUFFICES ASSUME Init PROVE IInv
  OBVIOUS
<1>1. TypeOK
  BY DEF Init, TypeOK
<1>2. \A g \in Group : Counted(g) = {}
  BY MemberShape, NoneAssumption DEF Init, Counted
<1>3. CountIsExact
  BY <1>2, FS_EmptySet DEF CountIsExact, Init
<1>4. QED
  BY <1>1, <1>3 DEF Init, IInv, ResponseFindsAllWaiting

(* Registering a customer disturbs nothing but its own entry.               *)
LEMMA IInvAddCustomer ==
  ASSUME IInv, NEW p \in Proc, NEW c \in Customers[p], AddCustomer(p, c)
  PROVE  IInv'
<1>1. \A g \in Group : Counted(g)' = Counted(g)
  BY DEF AddCustomer, Counted, Freed, netVars
<1>2. CountIsExact'
  BY <1>1 DEF IInv, CountIsExact, AddCustomer
<1>3. TypeOK'
  <2>1. c \in Nat
    BY CustomersAssumption
  <2>2. QED
    BY <2>1 DEF IInv, TypeOK, AddCustomer, netVars, history
<1>4. QED
  BY <1>2, <1>3, ThreadShape
     DEF IInv, TypeOK, AddCustomer, ResponseFindsAllWaiting, netVars, history

(* A thread that enters a call is counted in no group yet.                  *)
LEMMA IInvEnter ==
  ASSUME IInv, NEW t \in Thread, NEW g \in Group, Enter(t, g)
  PROVE  IInv'
<1> USE NoneAssumption DEF IInv
<1>1. TypeOK'
  BY ThreadShape DEF TypeOK, Enter
<1>2. t[1] \notin resps
  BY ThreadShape DEF ResponseFindsAllWaiting, Enter
<1>3. \A h \in Group : Counted(h)' = Counted(h)
  <2> SUFFICES ASSUME NEW h \in Group, NEW u \in Member[h]
               PROVE  u \in Counted(h)' <=> u \in Counted(h)
    BY DEF Counted
  <2> u \in Thread
    BY MemberShape
  <2>1. CASE u = t
    BY <2>1 DEF Counted, Enter, TypeOK
  <2>2. CASE u # t
    BY <2>2 DEF Counted, Freed, Enter, TypeOK
  <2>3. QED
    BY <2>1, <2>2
<1>4. CountIsExact'
  BY <1>3 DEF CountIsExact, Enter
<1>5. ResponseFindsAllWaiting'
  BY <1>2, ThreadShape DEF ResponseFindsAllWaiting, Enter, TypeOK
<1>6. \A u \in Thread, h \in Group :
        (<<u, h>> \in reqs => at[u] = h /\ u \notin done /\ u[1] \notin resps)'
  BY <1>2 DEF Enter, TypeOK
<1>7. \A u \in Thread : (at[u] # None => u \in Member[at[u]] /\ u[2] \in keys[u[1]])'
  BY ThreadShape DEF Enter, TypeOK
<1>8. \A q \in Proc : (keys[q] \subseteq Customers[q])'
  BY ThreadShape DEF Enter, TypeOK
<1>9. QED
  BY <1>1, <1>4, <1>5, <1>6, <1>7, <1>8

(* The request that completes a group: the counted threads and the caller   *)
(* are all its members, so every one of them is asleep in the group.        *)
LEMMA LastRequestMeets ==
  ASSUME IInv, NEW t \in Thread, NEW g \in Group, <<t, g>> \in reqs,
         bcount[g] + 1 = Cardinality(Member[g])
  PROVE  /\ Member[g] = Counted(g) \cup {t}
         /\ \A u \in Member[g] : at[u] = g /\ u \notin Freed
<1> USE DEF IInv
<1>1. t \in Member[g] /\ at[t] = g /\ t \notin Freed /\ t \notin Counted(g)
  BY NoneAssumption DEF Freed, Counted
<1>2. Counted(g) \cup {t} \subseteq Member[g]
  BY <1>1 DEF Counted
<1>3. Cardinality(Counted(g) \cup {t}) = Cardinality(Member[g])
  <2>1. bcount[g] = Cardinality(Counted(g))
    BY DEF CountIsExact
  <2>2. Cardinality(Counted(g) \cup {t}) = Cardinality(Counted(g)) + 1
    BY <1>1, CountedFinite, FS_AddElement
  <2>3. QED
    BY <2>1, <2>2
<1>4. Member[g] = Counted(g) \cup {t}
  BY <1>2, <1>3, CountedFinite, FS_Subset
<1>5. QED
  BY <1>1, <1>4 DEF Counted

(* The scheduler's count stays exact, whether the request completes the     *)
(* group or not, and responses only go to processes asleep in the group.    *)
LEMMA IInvCountRequest ==
  ASSUME IInv, NEW t \in Thread, NEW g \in Group, CountRequest(t, g)
  PROVE  IInv'
<1> USE NoneAssumption DEF IInv
<1>1. <<t, g>> \in reqs /\ at[t] = g /\ t \notin Freed /\ t \in Member[g]
  BY DEF CountRequest, Freed
<1>2. \A h \in Group : <<t, h>> \in reqs => h = g
  BY <1>1
<1>3. CASE bcount[g] + 1 = Cardinality(Member[g])
  <2> USE <1>3 DEF CountRequest
  <2>1. resps' = resps \cup Procs(g) /\ bcount' = [bcount EXCEPT ![g] = 0]
    OBVIOUS
  <2>2. \A u \in Member[g] : at[u] = g /\ u \notin Freed /\ <<u, g>> \notin reqs'
    BY <1>1, LastRequestMeets DEF Counted
  <2>3. \A u \in Thread : u[1] \in Procs(g) =>
          /\ u \in Member[g] /\ at[u] = g /\ u \notin done
          /\ \A h \in Group : <<u, h>> \notin reqs'
    <3> SUFFICES ASSUME NEW u \in Thread, u[1] \in Procs(g)
                 PROVE  /\ u \in Member[g] /\ at[u] = g /\ u \notin done
                        /\ \A h \in Group : <<u, h>> \notin reqs'
      OBVIOUS
    <3>1. u \in Member[g] /\ at[u] = g /\ u \notin Freed /\ <<u, g>> \notin reqs'
      BY <2>2, MemberShape
    <3>2. reqs' \subseteq reqs
      OBVIOUS
    <3>3. QED
      BY <3>1, <3>2 DEF Freed
  <2>4. Counted(g)' = {}
    BY <2>1, <2>3, MemberShape DEF Counted, Freed
  <2>5. \A h \in Group \ {g} : Counted(h)' = Counted(h)
    <3> SUFFICES ASSUME NEW h \in Group \ {g}, NEW u \in Member[h]
                 PROVE  u \in Counted(h)' <=> u \in Counted(h)
      BY DEF Counted
    <3>1. u \in Thread
      BY MemberShape
    <3>2. CASE u[1] \in Procs(g)
      BY <2>3, <3>1, <3>2 DEF Counted
    <3>3. CASE u[1] \notin Procs(g)
      BY <1>1, <2>1, <3>1, <3>3 DEF Counted, Freed
    <3>4. QED
      BY <3>2, <3>3
  <2>6. CountIsExact'
    BY <2>1, <2>4, <2>5, FS_EmptySet DEF CountIsExact, TypeOK
  <2>7. TypeOK'
    BY <2>1 DEF TypeOK, Procs, history
  <2>8. ResponseFindsAllWaiting'
    BY <2>1, <2>3, ThreadShape DEF ResponseFindsAllWaiting, Procs
  <2>9. \A u \in Thread, h \in Group :
          (<<u, h>> \in reqs => at[u] = h /\ u \notin done /\ u[1] \notin resps)'
    BY <2>1, <2>3
  <2>10. QED
    BY <2>6, <2>7, <2>8, <2>9
<1>4. CASE bcount[g] + 1 # Cardinality(Member[g])
  <2> USE <1>4 DEF CountRequest
  <2>1. resps' = resps /\ bcount' = [bcount EXCEPT ![g] = @ + 1]
    OBVIOUS
  <2>2. Counted(g)' = Counted(g) \cup {t} /\ t \notin Counted(g)
    BY <1>1, <2>1 DEF Counted, Freed
  <2>3. \A h \in Group \ {g} : Counted(h)' = Counted(h)
    BY <1>1, <2>1 DEF Counted, Freed
  <2>4. Cardinality(Counted(g)') = Cardinality(Counted(g)) + 1
    BY <2>2, CountedFinite, FS_AddElement
  <2>5. CountIsExact'
    BY <2>1, <2>3, <2>4 DEF CountIsExact, TypeOK
  <2>6. TypeOK'
    BY <2>1 DEF TypeOK, history
  <2>7. QED
    BY <2>1, <2>5, <2>6 DEF ResponseFindsAllWaiting
<1>5. QED
  BY <1>3, <1>4

(* Manage wakes the whole process: a thread a response was on its way to is *)
(* now awake by its entry, and nothing else changes.                        *)
LEMMA ManageWakesProcess ==
  ASSUME ContiguousIds, IInv, NEW p \in Proc, Manage(p)
  PROVE  /\ keys[p] = Customers[p] /\ keys' = keys
         /\ done' = done \cup {<<p, c>> : c \in Customers[p]}
         /\ \A c \in Customers[p] : at[<<p, c>>] # None
         /\ Freed' = Freed
<1> USE NoneAssumption DEF IInv
<1>1. p \in resps /\ resps' = resps \ {p}
  BY DEF Manage
<1>2. \A c \in Customers[p] : <<p, c>> \in Thread /\ at[<<p, c>>] # None /\ c \in keys[p]
  BY <1>1, ThreadShape DEF ResponseFindsAllWaiting
<1>3. keys[p] = Customers[p]
  BY <1>2
<1>4. 0 .. Cardinality(keys[p]) - 1 = Customers[p]
  BY <1>3, LoopReachesAll
<1>5. keys' = keys /\ done' = done \cup {<<p, c>> : c \in Customers[p]}
  BY <1>3, <1>4 DEF Manage, TypeOK
<1>6. \A u \in Thread : u \in Freed' <=> u \in Freed
  <2> TAKE u \in Thread
  <2>1. CASE u[1] = p
    BY <1>1, <1>2, <1>5, <2>1, ThreadShape DEF Freed, Manage
  <2>2. CASE u[1] # p
    BY <1>1, <1>5, <2>2, ThreadShape DEF Freed, Manage
  <2>3. QED
    BY <2>1, <2>2
<1>7. QED
  BY <1>2, <1>3, <1>5, <1>6 DEF Freed

(* Waking a process moves no thread out of a count.                         *)
LEMMA IInvManage ==
  ASSUME ContiguousIds, IInv, NEW p \in Proc, Manage(p)
  PROVE  IInv'
<1> USE DEF IInv
<1>1. p \in resps /\ resps' = resps \ {p} /\ at' = at /\ reqs' = reqs /\ bcount' = bcount
  BY DEF Manage
<1>2. /\ keys' = keys /\ done' = done \cup {<<p, c>> : c \in Customers[p]}
      /\ Freed' = Freed
  BY ManageWakesProcess
<1>3. \A g \in Group : Counted(g)' = Counted(g)
  BY <1>1, <1>2 DEF Counted
<1>4. CountIsExact'
  BY <1>1, <1>3 DEF CountIsExact
<1>5. TypeOK'
  <2>1. Customers[p] \subseteq Nat
    BY CustomersAssumption
  <2>2. QED
    BY <1>1, <1>2, <2>1 DEF TypeOK, Manage, history
<1>6. ResponseFindsAllWaiting'
  BY <1>1, <1>2 DEF ResponseFindsAllWaiting
<1>7. \A u \in Thread, h \in Group :
        (<<u, h>> \in reqs => at[u] = h /\ u \notin done /\ u[1] \notin resps)'
  BY <1>1, <1>2
<1>8. QED
  BY <1>1, <1>2, <1>4, <1>5, <1>6, <1>7

(* A thread that returns was free, so no request and no count is its own.   *)
LEMMA IInvLeave ==
  ASSUME IInv, NEW t \in Thread, Leave(t)
  PROVE  IInv'
<1> USE NoneAssumption DEF IInv, Leave, netVars
<1>1. t[1] \notin resps
  BY ThreadShape DEF ResponseFindsAllWaiting
<1>2. \A g \in Group : Counted(g)' = Counted(g)
  <2> SUFFICES ASSUME NEW g \in Group, NEW u \in Member[g]
               PROVE  u \in Counted(g)' <=> u \in Counted(g)
    BY DEF Counted
  <2> u \in Thread
    BY MemberShape
  <2>1. CASE u = t
    BY <2>1 DEF Counted, Freed, TypeOK
  <2>2. CASE u # t
    BY <2>2 DEF Counted, Freed, TypeOK
  <2>3. QED
    BY <2>1, <2>2
<1>3. CountIsExact'
  BY <1>2 DEF CountIsExact
<1>4. TypeOK'
  BY DEF TypeOK
<1>5. ResponseFindsAllWaiting'
  BY <1>1, ThreadShape DEF ResponseFindsAllWaiting, TypeOK
<1>6. QED
  BY <1>3, <1>4, <1>5 DEF TypeOK

(* Every step of the barrier preserves the invariant.                       *)
LEMMA IInvNext == ContiguousIds /\ IInv /\ [Next]_vars => IInv'
<1> SUFFICES ASSUME ContiguousIds, IInv, [Next]_vars PROVE IInv'
  OBVIOUS
<1>1. ASSUME NEW p \in Proc, NEW c \in Customers[p], AddCustomer(p, c) PROVE IInv'
  BY <1>1, IInvAddCustomer
<1>2. ASSUME NEW t \in Thread, NEW g \in Group, Enter(t, g) PROVE IInv'
  BY <1>2, IInvEnter
<1>3. ASSUME NEW t \in Thread, NEW g \in Group, CountRequest(t, g) PROVE IInv'
  BY <1>3, IInvCountRequest
<1>4. ASSUME NEW p \in Proc, Manage(p) PROVE IInv'
  BY <1>4, IInvManage
<1>5. ASSUME NEW t \in Thread, Leave(t) PROVE IInv'
  BY <1>5, IInvLeave
<1>6. CASE UNCHANGED vars
  BY <1>6 DEF IInv, TypeOK, CountIsExact, Counted, Freed, ResponseFindsAllWaiting, vars
<1>7. QED
  BY <1>1, <1>2, <1>3, <1>4, <1>5, <1>6 DEF Next

(* The scheduler's count is exact, every response finds its process asleep  *)
(* in one barrier, and the variables keep their types.                      *)
THEOREM BarrierInvariant ==
  ContiguousIds => (Spec => [](TypeOK /\ CountIsExact /\ ResponseFindsAllWaiting))
<1> SUFFICES ASSUME ContiguousIds
             PROVE  Spec => [](TypeOK /\ CountIsExact /\ ResponseFindsAllWaiting)
  OBVIOUS
<1>1. Init => IInv
  BY IInvInit
<1>2. IInv /\ [Next]_vars => IInv'
  BY IInvNext
<1>3. IInv => TypeOK /\ CountIsExact /\ ResponseFindsAllWaiting
  BY DEF IInv
<1>4. QED
  BY <1>1, <1>2, <1>3, PTL DEF Spec

----------------------------------------------------------------------------
(* The initial state maps to an initial state of the abstract barrier.      *)
LEMMA InitRefines == Init => Abs!Init
BY DEF Init, Abs!Init, Freed

(* A thread that enters a call is not free.                                 *)
LEMMA FreedEnter ==
  ASSUME IInv, NEW t \in Thread, NEW g \in Group, Enter(t, g)
  PROVE  Freed' = Freed
<1>1. t[1] \notin resps
  BY ThreadShape, NoneAssumption DEF IInv, ResponseFindsAllWaiting, Enter
<1>2. QED
  BY <1>1, NoneAssumption DEF Freed, Enter, IInv, TypeOK

(* A request sets nobody free or, when it is the last, the whole group,     *)
(* and then no request of the group is left.                                *)
LEMMA FreedCount ==
  ASSUME IInv, NEW t \in Thread, NEW g \in Group, CountRequest(t, g)
  PROVE  \/ Freed' = Freed
         \/ /\ \A u \in Member[g] : at[u] = g /\ u \notin Freed /\ <<u, g>> \notin reqs'
            /\ Freed' = Freed \cup Member[g]
<1>1. CASE bcount[g] + 1 = Cardinality(Member[g])
  <2>1. /\ \A u \in Member[g] : at[u] = g /\ u \notin Freed
        /\ Member[g] = Counted(g) \cup {t}
    BY <1>1, LastRequestMeets DEF CountRequest
  <2>2. resps' = resps \cup Procs(g) /\ at' = at /\ done' = done /\ reqs' = reqs \ {<<t, g>>}
    BY <1>1 DEF CountRequest
  <2>3. Freed' = Freed \cup Member[g]
    BY <2>1, <2>2, MemberShape, NoneAssumption DEF Freed
  <2>4. \A u \in Member[g] : <<u, g>> \notin reqs'
    BY <2>1, <2>2 DEF Counted
  <2>5. QED
    BY <2>1, <2>3, <2>4
<1>2. CASE bcount[g] + 1 # Cardinality(Member[g])
  BY <1>2 DEF CountRequest, Freed
<1>3. QED
  BY <1>1, <1>2

(* A thread that leaves its call was free and is no longer.                 *)
LEMMA FreedLeave ==
  ASSUME IInv, NEW t \in Thread, Leave(t)
  PROVE  t \in Freed /\ Freed' = Freed \ {t}
<1>1. t[1] \notin resps
  BY ThreadShape DEF IInv, ResponseFindsAllWaiting, Leave
<1>2. QED
  BY <1>1, NoneAssumption DEF Freed, Leave, netVars, IInv, TypeOK

(* Every step maps to a step of the abstract barrier or to a stutter.       *)
LEMMA NextRefines ==
  ContiguousIds /\ IInv /\ [Next]_vars => [Abs!Next]_(Abs!vars)
<1> SUFFICES ASSUME ContiguousIds, IInv, [Next]_vars
             PROVE  Abs!Next \/ UNCHANGED Abs!vars
  OBVIOUS
<1> USE NoneAssumption DEF Abs!vars
<1>1. ASSUME NEW p \in Proc, NEW c \in Customers[p], AddCustomer(p, c)
      PROVE  UNCHANGED Abs!vars
  BY <1>1 DEF AddCustomer, netVars, history, Freed
<1>2. ASSUME NEW t \in Thread, NEW g \in Group, Enter(t, g)
      PROVE  Abs!Enter(t, g)
  BY <1>2, FreedEnter DEF Enter, Abs!Enter
<1>3. ASSUME NEW t \in Thread, NEW g \in Group, CountRequest(t, g)
      PROVE  Abs!Release(g) \/ UNCHANGED Abs!vars
  <2>1. at' = at /\ UNCHANGED history
    BY <1>3 DEF CountRequest
  <2>2. QED
    BY <1>3, <2>1, FreedCount DEF history, Abs!Release
<1>4. ASSUME NEW p \in Proc, Manage(p) PROVE UNCHANGED Abs!vars
  BY <1>4, ManageWakesProcess DEF Manage, history
<1>5. ASSUME NEW t \in Thread, Leave(t) PROVE Abs!Leave(t)
  BY <1>5, FreedLeave DEF Leave, Abs!Leave
<1>6. CASE UNCHANGED vars
  BY <1>6 DEF vars, Freed
<1>7. QED
  BY <1>1, <1>2, <1>3, <1>4, <1>5, <1>6 DEF Next, Abs!Next

(* With contiguous customer ids, the barrier of ps-lite implements its      *)
(* abstract specification.                                                  *)
THEOREM BarrierRefines == ContiguousIds => (Spec => AbsSpec)
<1> SUFFICES ASSUME ContiguousIds PROVE Spec => AbsSpec
  OBVIOUS
<1>1. Init => IInv
  BY IInvInit
<1>2. IInv /\ [Next]_vars => IInv'
  BY IInvNext
<1>3. Init => Abs!Init
  BY InitRefines
<1>4. IInv /\ [Next]_vars => [Abs!Next]_(Abs!vars)
  BY NextRefines
<1>5. QED
  BY <1>1, <1>2, <1>3, <1>4, PTL DEF Spec, AbsSpec, Abs!Spec

----------------------------------------------------------------------------
(* The initial state satisfies the round invariant.                         *)
LEMMA RoundInvInit == Abs!ConstantsOK /\ Abs!Init => Abs!RoundInv
BY DEF Abs!ConstantsOK, Abs!Init, Abs!RoundInv, Abs!TypeOK, Abs!Met

(* Every step of the barrier preserves the round invariant.                 *)
LEMMA RoundInvNext == Abs!ConstantsOK /\ Abs!RoundInv /\ [Abs!Next]_(Abs!vars) => Abs!RoundInv'
<1> SUFFICES ASSUME Abs!ConstantsOK, Abs!RoundInv, [Abs!Next]_(Abs!vars) PROVE Abs!RoundInv'
  OBVIOUS
<1> USE DEF Abs!ConstantsOK
<1>1. ASSUME NEW t \in Thread, NEW g \in Group, Abs!Enter(t, g) PROVE Abs!RoundInv'
  BY <1>1 DEF Abs!RoundInv, Abs!TypeOK, Abs!Enter, Abs!Met
<1>2. ASSUME NEW g \in Group, Abs!Release(g) PROVE Abs!RoundInv'
  BY <1>2 DEF Abs!RoundInv, Abs!TypeOK, Abs!Release, Abs!Met
<1>3. ASSUME NEW t \in Thread, Abs!Leave(t) PROVE Abs!RoundInv'
  BY <1>3 DEF Abs!RoundInv, Abs!TypeOK, Abs!Leave, Abs!Met
<1>4. CASE UNCHANGED Abs!vars
  BY <1>4 DEF Abs!RoundInv, Abs!TypeOK, Abs!vars, Abs!Met
<1>5. QED
  BY <1>1, <1>2, <1>3, <1>4 DEF Abs!Next

(* The round invariant says what callers rely on: a thread that returned k  *)
(* times has met k rounds, so every member has, and has entered as many.    *)
LEMMA RoundInvImplies ==
  Abs!ConstantsOK /\ Abs!RoundInv => Abs!NoEarlyReturn /\ Abs!RoundsApart
<1> SUFFICES ASSUME Abs!ConstantsOK, Abs!RoundInv,
                    NEW g \in Group, NEW t \in Member[g], NEW u \in Member[g]
             PROVE  ended[t][g] <= begun[u][g] /\ begun[t][g] <= ended[u][g] + 2
  BY DEF Abs!NoEarlyReturn, Abs!RoundsApart
<1>1. t \in Thread /\ u \in Thread
  BY DEF Abs!ConstantsOK
<1>2. /\ Abs!Met(t, g) = Abs!Met(u, g)
      /\ begun[t][g] = ended[t][g] + (IF at[t] = g THEN 1 ELSE 0)
      /\ begun[u][g] = ended[u][g] + (IF at[u] = g THEN 1 ELSE 0)
  BY <1>1 DEF Abs!RoundInv
<1>3. ended[t][g] \in Nat /\ ended[u][g] \in Nat
  BY <1>1 DEF Abs!RoundInv, Abs!TypeOK
<1>4. QED
  BY <1>2, <1>3 DEF Abs!Met

(* What the abstract barrier promises through this mapping: no call returns *)
(* before all members have made theirs, and rounds do not run apart.        *)
LEMMA AbstractBarrierCorrect ==
  Abs!ConstantsOK => (Abs!Spec => [](Abs!NoEarlyReturn /\ Abs!RoundsApart))
<1> SUFFICES ASSUME Abs!ConstantsOK PROVE Abs!Spec => [](Abs!NoEarlyReturn /\ Abs!RoundsApart)
  OBVIOUS
<1>1. Abs!Init => Abs!RoundInv
  BY RoundInvInit
<1>2. Abs!RoundInv /\ [Abs!Next]_(Abs!vars) => Abs!RoundInv'
  BY RoundInvNext
<1>3. Abs!RoundInv => Abs!NoEarlyReturn /\ Abs!RoundsApart
  BY RoundInvImplies
<1>4. QED
  BY <1>1, <1>2, <1>3, PTL DEF Abs!Spec

(* Hence no call of Postoffice::Barrier returns before every member of its  *)
(* group has made the same call.                                            *)
THEOREM BarrierNoEarlyReturn == ContiguousIds => (Spec => []NoEarlyReturn)
<1> SUFFICES ASSUME ContiguousIds PROVE Spec => []NoEarlyReturn
  OBVIOUS
<1>1. Spec => Abs!Spec
  BY BarrierRefines DEF AbsSpec
<1>2. Abs!ConstantsOK
  BY NoneAssumption, MaxCallsAssumption, MemberShape DEF Abs!ConstantsOK, Member
<1>3. Abs!Spec => [](Abs!NoEarlyReturn /\ Abs!RoundsApart)
  BY <1>2, AbstractBarrierCorrect
<1>4. Abs!NoEarlyReturn => NoEarlyReturn
  BY DEF Abs!NoEarlyReturn, NoEarlyReturn
<1>5. QED
  BY <1>1, <1>3, <1>4, PTL

(* And a thread of a group is never two calls ahead of one that has not      *)
(* returned: it may be inside call k + 2 when another returned from call k,  *)
(* never further.                                                            *)
THEOREM BarrierRoundsApart == ContiguousIds => (Spec => []Abs!RoundsApart)
<1> SUFFICES ASSUME ContiguousIds PROVE Spec => []Abs!RoundsApart
  OBVIOUS
<1>1. Spec => Abs!Spec
  BY BarrierRefines DEF AbsSpec
<1>2. Abs!ConstantsOK
  BY NoneAssumption, MaxCallsAssumption, MemberShape DEF Abs!ConstantsOK, Member
<1>3. Abs!Spec => [](Abs!NoEarlyReturn /\ Abs!RoundsApart)
  BY <1>2, AbstractBarrierCorrect
<1>4. QED
  BY <1>1, <1>3, PTL

(* A response of Van::ProcessBarrierCommand never finds a member elsewhere:  *)
(* whatever groups and rounds overlap, all its process's threads sleep in    *)
(* the barrier it is for, so that setting every flag (Manage) wakes nobody   *)
(* too early.                                                                *)
THEOREM BarrierResponse == ContiguousIds => (Spec => []ResponseFindsAllWaiting)
<1> SUFFICES ASSUME ContiguousIds PROVE Spec => []ResponseFindsAllWaiting
  OBVIOUS
<1>1. Spec => [](TypeOK /\ CountIsExact /\ ResponseFindsAllWaiting)
  BY BarrierInvariant
<1>2. QED
  BY <1>1, PTL

(* Counters, flags, requests and responses stay in their types: what         *)
(* ProcessBarrierCommand resets was as large as the group, so that no count  *)
(* of barrier_count_ is ever negative.                                       *)
THEOREM BarrierTypeCorrect == ContiguousIds => (Spec => []TypeOK)
<1> SUFFICES ASSUME ContiguousIds PROVE Spec => []TypeOK
  OBVIOUS
<1>1. Spec => [](TypeOK /\ CountIsExact /\ ResponseFindsAllWaiting)
  BY BarrierInvariant
<1>2. QED
  BY <1>1, PTL

----------------------------------------------------------------------------
(* The scripts of a job. *)

(* The position of a thread's last barrier in its script, that of Finalize.  *)
Last(t) == IF Role[t[1]] = "scheduler" THEN 2
           ELSE IF Role[t[1]] = "server" THEN 4 ELSE 6 * (Iterations + 1) + 3
Calls(t, k, op) == k \in DOMAIN Script[t] /\ Script[t][k] = op
Ops == {"all", "create", "handle", "push", "pull", "wait", "workers", "stop", "clear", "destroy"}

(* Where the elements of two sequences are in the one made of both.          *)
LEMMA Joined ==
  ASSUME NEW S, NEW p \in Seq(S), NEW q \in Seq(S)
  PROVE  /\ p \o q \in Seq(S) /\ Len(p \o q) = Len(p) + Len(q)
         /\ \A i \in 1 .. Len(p) : (p \o q)[i] = p[i]
         /\ \A i \in 1 .. Len(q) : (p \o q)[Len(p) + i] = q[i]
<1>1. /\ p \o q \in Seq(S) /\ Len(p \o q) = Len(p) + Len(q)
      /\ \A i \in 1 .. Len(p) + Len(q) : (p \o q)[i] = IF i <= Len(p) THEN p[i] ELSE q[i - Len(p)]
  BY ConcatProperties
<1>2. Len(p) \in Nat /\ Len(q) \in Nat
  OBVIOUS
<1> DEFINE r == p \o q
<1> HIDE DEF r
<1>3. \A i \in 1 .. Len(p) + Len(q) : r[i] = IF i <= Len(p) THEN p[i] ELSE q[i - Len(p)]
  BY <1>1 DEF r
<1>4. \A i \in 1 .. Len(p) : r[i] = p[i]
  BY <1>2, <1>3
<1>5. \A i \in 1 .. Len(q) : r[Len(p) + i] = q[i]
  BY <1>2, <1>3
<1>6. QED
  BY <1>1, <1>4, <1>5 DEF r

(* The same of a sequence that has a name.                                   *)
LEMMA Glued ==
  ASSUME NEW p \in Seq(Ops), NEW q \in Seq(Ops), NEW r, r = p \o q
  PROVE  /\ r \in Seq(Ops) /\ Len(r) = Len(p) + Len(q)
         /\ \A i \in 1 .. Len(p) : r[i] = p[i]
         /\ \A i \in 1 .. Len(q) : r[Len(p) + i] = q[i]
BY Joined

(* The short sequences the scripts are made of.                              *)
LEMMA Pieces ==
  /\ pushAll \in Seq(Ops) /\ Len(pushAll) = 3
  /\ pushAll[1] = "push" /\ pushAll[2] = "wait" /\ pushAll[3] = "workers"
  /\ pullAll \in Seq(Ops) /\ Len(pullAll) = 3
  /\ pullAll[1] = "pull" /\ pullAll[2] = "wait" /\ pullAll[3] = "workers"
<1>1. <<"push", "wait", "workers">> \in Seq(Ops) /\ <<"pull", "wait", "workers">> \in Seq(Ops)
  BY DEF Ops
<1>2. /\ Len(<<"push", "wait", "workers">>) = 3 /\ Len(<<"pull", "wait", "workers">>) = 3
      /\ <<"push", "wait", "workers">>[1] = "push" /\ <<"push", "wait", "workers">>[2] = "wait"
      /\ <<"push", "wait", "workers">>[3] = "workers"
      /\ <<"pull", "wait", "workers">>[1] = "pull" /\ <<"pull", "wait", "workers">>[2] = "wait"
      /\ <<"pull", "wait", "workers">>[3] = "workers"
  OBVIOUS
<1>3. QED
  BY <1>1, <1>2 DEF pushAll, pullAll

(* The calls around those of fit.                                            *)
LEMMA Ends ==
  /\ <<"all">> \in Seq(Ops) /\ Len(<<"all">>) = 1 /\ <<"all">>[1] = "all"
  /\ <<"destroy">> \in Seq(Ops) /\ Len(<<"destroy">>) = 1 /\ <<"destroy">>[1] = "destroy"
  /\ <<"stop", "clear">> \in Seq(Ops) /\ Len(<<"stop", "clear">>) = 2
  /\ <<"stop", "clear">>[1] = "stop" /\ <<"stop", "clear">>[2] = "clear"
  /\ <<"all", "create">> \in Seq(Ops) /\ Len(<<"all", "create">>) = 2
  /\ <<"all", "create">>[1] = "all" /\ <<"all", "create">>[2] = "create"
  /\ <<"all", "create", "handle">> \in Seq(Ops) /\ Len(<<"all", "create", "handle">>) = 3
  /\ <<"all", "create", "handle">>[1] = "all" /\ <<"all", "create", "handle">>[2] = "create"
  /\ <<"all", "create", "handle">>[3] = "handle"
<1>1. /\ <<"all">> \in Seq(Ops) /\ <<"destroy">> \in Seq(Ops) /\ <<"stop", "clear">> \in Seq(Ops)
      /\ <<"all", "create">> \in Seq(Ops) /\ <<"all", "create", "handle">> \in Seq(Ops)
  BY DEF Ops
<1>2. QED
  BY <1>1

(* A turn is six calls, and fit repeats it.                                  *)
LEMMA TurnFacts ==
  /\ Len(Turn) = 6
  /\ Turn[1] = "push" /\ Turn[2] = "wait" /\ Turn[3] = "workers"
  /\ Turn[4] = "pull" /\ Turn[5] = "wait" /\ Turn[6] = "workers"
<1>1. PICK p \in Seq(Ops) : p = pushAll /\ Len(p) = 3 /\ p[1] = "push" /\ p[2] = "wait" /\ p[3] = "workers"
  BY Pieces
<1>2. PICK q \in Seq(Ops) : q = pullAll /\ Len(q) = 3 /\ q[1] = "pull" /\ q[2] = "wait" /\ q[3] = "workers"
  BY Pieces
<1>3. PICK r : r = p \o q
  OBVIOUS
<1>4. /\ Len(r) = Len(p) + Len(q) /\ \A i \in 1 .. Len(p) : r[i] = p[i]
      /\ \A i \in 1 .. Len(q) : r[Len(p) + i] = q[i]
  BY <1>3, Joined
<1>5. Len(r) = 6 /\ r[1] = p[1] /\ r[2] = p[2] /\ r[3] = p[3]
      /\ r[3 + 1] = q[1] /\ r[3 + 2] = q[2] /\ r[3 + 3] = q[3]
  BY <1>1, <1>2, <1>4
<1>6. QED
  BY <1>1, <1>2, <1>3, <1>5 DEF Turn

(* The calls of fit by their remainders.                                     *)
LEMMA FitFacts ==
  /\ Iterations \in Nat /\ Fit \in Seq(Ops) /\ Len(Fit) = 6 * (Iterations + 1)
  /\ \A k \in 1 .. 6 * (Iterations + 1) : \E r \in 0 .. 5 :
       /\ r = (k - 1) % 6 /\ Fit[k] = Turn[r + 1]
<1>1. Iterations \in Nat
  BY JobAssumption
<1>2. Fit = [k \in 1 .. 6 * (Iterations + 1) |-> Turn[((k - 1) % 6) + 1]]
  BY TurnFacts DEF Fit
<1>3. \A k \in 1 .. 6 * (Iterations + 1) : \E r \in 0 .. 5 :
       /\ r = (k - 1) % 6 /\ Fit[k] = Turn[r + 1]
  <2>1. ASSUME NEW k \in 1 .. 6 * (Iterations + 1) PROVE (k - 1) % 6 \in 0 .. 5
    BY <1>1
  <2>2. QED
    BY <1>2, <2>1
<1>4. \A r \in 0 .. 5 : Turn[r + 1] \in Ops
  <2>1. ASSUME NEW r \in 0 .. 5 PROVE Turn[r + 1] \in Ops
    <3>1. \/ r = 0 \/ r = 1 \/ r = 2 \/ r = 3 \/ r = 4 \/ r = 5
      OBVIOUS
    <3>2. QED
      BY <3>1, TurnFacts DEF Ops
  <2>2. QED
    BY <2>1
<1>5. 6 * (Iterations + 1) \in Nat
  BY <1>1
<1>6. \A k \in 1 .. 6 * (Iterations + 1) : Fit[k] \in Ops
  BY <1>3, <1>4
<1>7. Fit \in [1 .. 6 * (Iterations + 1) -> Ops]
  BY <1>2, <1>6
<1>8. Fit \in Seq(Ops) /\ Len(Fit) = 6 * (Iterations + 1)
  BY <1>5, <1>7
<1>9. QED
  BY <1>1, <1>3, <1>8

(* Where its calls are in a turn decides what the calls near one are.        *)
LEMMA FitOrder ==
  ASSUME NEW k \in 1 .. 6 * (Iterations + 1)
  PROVE  /\ Fit[k] \in {"push", "pull", "wait", "workers"}
         /\ Fit[k] \in {"push", "pull"} =>
              /\ k + 2 <= 6 * (Iterations + 1) /\ Fit[k + 1] = "wait" /\ Fit[k + 2] = "workers"
         /\ Fit[k] = "wait" => k > 1 /\ Fit[k - 1] \in {"push", "pull"}
         /\ Fit[k] = "workers" => k > 1 /\ Fit[k - 1] = "wait"
         /\ Fit[1] = "push" /\ (Fit[k] = "pull" => k > 3)
<1> DEFINE N == 6 * (Iterations + 1)
<1>1. Iterations \in Nat
  BY FitFacts
<1>2. PICK r \in 0 .. 5 : r = (k - 1) % 6 /\ Fit[k] = Turn[r + 1]
  BY FitFacts
<1>3. /\ r < 5 => k + 1 \in 1 .. N /\ (k + 1 - 1) % 6 = r + 1
      /\ r < 4 => k + 2 \in 1 .. N /\ (k + 2 - 1) % 6 = r + 2
      /\ r > 0 => k - 1 \in 1 .. N /\ (k - 1 - 1) % 6 = r - 1
      /\ r >= 3 => k > 3
      /\ (1 - 1) % 6 = 0 /\ 1 \in 1 .. N
  BY <1>1, <1>2
<1>4. /\ r < 5 => Fit[k + 1] = Turn[r + 1 + 1]
      /\ r < 4 => Fit[k + 2] = Turn[r + 2 + 1]
      /\ r > 0 => Fit[k - 1] = Turn[r - 1 + 1]
      /\ Fit[1] = Turn[0 + 1]
  <2>1. \A j \in 1 .. N : Fit[j] = Turn[((j - 1) % 6) + 1]
    BY FitFacts
  <2>2. ASSUME r < 5 PROVE Fit[k + 1] = Turn[r + 1 + 1]
    BY <1>3, <2>1, <2>2
  <2>3. ASSUME r < 4 PROVE Fit[k + 2] = Turn[r + 2 + 1]
    BY <1>3, <2>1, <2>3
  <2>4. ASSUME r > 0 PROVE Fit[k - 1] = Turn[r - 1 + 1]
    BY <1>3, <2>1, <2>4
  <2>5. Fit[1] = Turn[0 + 1]
    BY <1>3, <2>1
  <2>6. QED
    BY <2>2, <2>3, <2>4, <2>5
<1>5. \/ r = 0 \/ r = 1 \/ r = 2 \/ r = 3 \/ r = 4 \/ r = 5
  BY <1>2
<1>6. QED
  BY <1>1, <1>2, <1>3, <1>4, <1>5, TurnFacts

(* What a script ends with.                                                  *)
LEMMA TailFacts ==
  ASSUME NEW c
  PROVE  /\ Finalize(c) \in Seq(Ops) /\ Len(Finalize(c)) \in {1, 3} /\ Finalize(c)[1] = "all"
         /\ c # 0 => Len(Finalize(c)) = 1
         /\ c = 0 => Len(Finalize(c)) = 3 /\ Finalize(c)[2] = "stop" /\ Finalize(c)[3] = "clear"
<1>1. PICK p \in Seq(Ops) : p = <<"all">> /\ Len(p) = 1 /\ p[1] = "all"
  BY Ends
<1>2. CASE c = 0
  <2>1. PICK q \in Seq(Ops) : q = <<"stop", "clear">> /\ Len(q) = 2 /\ q[1] = "stop" /\ q[2] = "clear"
    BY Ends
  <2>2. PICK r : r = p \o q
    OBVIOUS
  <2>3. /\ r \in Seq(Ops) /\ Len(r) = Len(p) + Len(q) /\ \A i \in 1 .. Len(p) : r[i] = p[i]
        /\ \A i \in 1 .. Len(q) : r[Len(p) + i] = q[i]
    BY <2>2, Joined
  <2>4. Len(r) = 3 /\ r[1] = p[1] /\ r[1 + 1] = q[1] /\ r[1 + 2] = q[2]
    BY <1>1, <2>1, <2>3
  <2>5. Finalize(c) = r
    BY <1>1, <1>2, <2>1, <2>2 DEF Finalize
  <2>6. QED
    BY <1>1, <1>2, <2>1, <2>3, <2>4, <2>5
<1>3. CASE c # 0
  <2>1. Finalize(c) = p
    BY <1>1, <1>3, ConcatEmptySeq DEF Finalize
  <2>2. QED
    BY <1>1, <1>3, <2>1
<1>4. QED
  BY <1>2, <1>3

(* The scheduler's script: two barriers of all, then the end.                *)
LEMMA SchedulerScript ==
  ASSUME NEW t \in Thread, Role[t[1]] = "scheduler"
  PROVE  /\ t[2] = 0 /\ Script[t] \in Seq(Ops) /\ Len(Script[t]) = 4
         /\ Script[t][1] = "all" /\ Script[t][2] = "all"
         /\ Script[t][3] = "stop" /\ Script[t][4] = "clear"
<1>1. t[2] = 0
  BY ThreadShape, JobAssumption
<1>2. PICK p \in Seq(Ops) : p = <<"all">> /\ Len(p) = 1 /\ p[1] = "all"
  BY Ends
<1>3. PICK f \in Seq(Ops) : f = Finalize(t[2]) /\ Len(f) = 3 /\ f[1] = "all" /\ f[2] = "stop" /\ f[3] = "clear"
  BY <1>1, TailFacts
<1>4. PICK r : r = p \o f
  OBVIOUS
<1>5. r \in Seq(Ops)
  BY <1>4, Glued
<1>5a. /\ Len(r) = Len(p) + Len(f) /\ \A i \in 1 .. Len(p) : r[i] = p[i]
      /\ \A i \in 1 .. Len(f) : r[Len(p) + i] = f[i]
  BY <1>4, Glued
<1>6. Len(r) = 4 /\ r[1] = p[1] /\ r[1 + 1] = f[1] /\ r[1 + 2] = f[2] /\ r[1 + 3] = f[3]
  BY <1>2, <1>3, <1>5, <1>5a
<1>7. Script[t] = r
  BY <1>2, <1>3, <1>4 DEF Script
<1>8. QED
  BY <1>1, <1>2, <1>3, <1>5, <1>5a, <1>6, <1>7

(* A server's: its customer and handle between the barriers.                 *)
LEMMA ServerScript ==
  ASSUME NEW t \in Thread, Role[t[1]] = "server"
  PROVE  /\ t[2] = 0 /\ Script[t] \in Seq(Ops) /\ Len(Script[t]) = 7
         /\ Script[t][1] = "all" /\ Script[t][2] = "create" /\ Script[t][3] = "handle"
         /\ Script[t][4] = "all" /\ Script[t][5] = "stop" /\ Script[t][6] = "clear"
         /\ Script[t][7] = "destroy"
<1>1. t[2] = 0
  BY ThreadShape, JobAssumption
<1>2. PICK p \in Seq(Ops) : /\ p = <<"all", "create", "handle">> /\ Len(p) = 3
                             /\ p[1] = "all" /\ p[2] = "create" /\ p[3] = "handle"
  BY Ends
<1>3. PICK f \in Seq(Ops) : f = Finalize(t[2]) /\ Len(f) = 3 /\ f[1] = "all" /\ f[2] = "stop" /\ f[3] = "clear"
  BY <1>1, TailFacts
<1>4. PICK d \in Seq(Ops) : d = <<"destroy">> /\ Len(d) = 1 /\ d[1] = "destroy"
  BY Ends
<1>5. PICK r : r = p \o f
  OBVIOUS
<1>6. r \in Seq(Ops)
  BY <1>5, Glued
<1>6a. /\ Len(r) = Len(p) + Len(f) /\ \A i \in 1 .. Len(p) : r[i] = p[i]
      /\ \A i \in 1 .. Len(f) : r[Len(p) + i] = f[i]
  BY <1>5, Glued
<1>7. /\ Len(r) = 6 /\ r[1] = p[1] /\ r[2] = p[2] /\ r[3] = p[3]
      /\ r[3 + 1] = f[1] /\ r[3 + 2] = f[2] /\ r[3 + 3] = f[3]
  BY <1>2, <1>3, <1>6, <1>6a
<1>8. PICK q : q = r \o d
  OBVIOUS
<1>9. q \in Seq(Ops)
  BY <1>6, <1>8, Glued
<1>9a. /\ Len(q) = Len(r) + Len(d) /\ \A i \in 1 .. Len(r) : q[i] = r[i]
      /\ \A i \in 1 .. Len(d) : q[Len(r) + i] = d[i]
  BY <1>6, <1>8, Glued
<1>10. /\ Len(q) = 7 /\ q[1] = r[1] /\ q[2] = r[2] /\ q[3] = r[3] /\ q[4] = r[4]
       /\ q[5] = r[5] /\ q[6] = r[6] /\ q[6 + 1] = d[1]
  BY <1>4, <1>7, <1>9, <1>9a
<1>11. Script[t] = q
  BY <1>2, <1>3, <1>4, <1>5, <1>8 DEF Script
<1>12. QED
  BY <1>1, <1>2, <1>3, <1>4, <1>7, <1>9, <1>9a, <1>10, <1>11

(* A sequence of calls of a given length.                                    *)
Listed(r, n) == r \in Seq(Ops) /\ Len(r) = n

(* A sequence is two others joined.                                          *)
Joins(r, p, q) == r = p \o q

(* Their lengths add up, the elements of the second come after the first's. *)
LEMMA Joint ==
  ASSUME NEW m \in Nat, NEW n \in Nat, NEW p, Listed(p, m), NEW q, Listed(q, n),
         NEW r, Joins(r, p, q)
  PROVE  /\ Listed(r, m + n)
         /\ \A i \in 1 .. m : r[i] = p[i]
         /\ \A i \in 1 .. n : r[m + i] = q[i]
<1>1. p \in Seq(Ops) /\ q \in Seq(Ops) /\ Len(p) = m /\ Len(q) = n
  BY DEF Listed
<1>2. r = p \o q
  BY DEF Joins
<1>3. /\ r \in Seq(Ops) /\ Len(r) = Len(p) + Len(q)
      /\ \A i \in 1 .. Len(p) : r[i] = p[i]
      /\ \A i \in 1 .. Len(q) : r[Len(p) + i] = q[i]
  <2>1. p \in Seq(Ops) /\ q \in Seq(Ops)
    BY <1>1
  <2>2. QED
    BY <1>2, <2>1, Glued
<1>5. QED
  BY <1>1, <1>3 DEF Listed

(* Where the pieces of a worker's script come to lie.                        *)
LEMMA WorkerShape ==
  ASSUME NEW N \in Nat, NEW n \in Nat, n >= 1,
         NEW F, Listed(F, N), NEW p, Listed(p, 2), NEW f, Listed(f, n), NEW d, Listed(d, 1),
         NEW a, Joins(a, p, F), NEW r, Joins(r, a, f), NEW q, Joins(q, r, d)
  PROVE  /\ Listed(q, N + n + 3)
         /\ q[1] = p[1] /\ q[2] = p[2]
         /\ \A i \in 1 .. N : q[2 + i] = F[i]
         /\ \A i \in 1 .. n : q[N + 2 + i] = f[i]
         /\ q[N + n + 3] = d[1]
<1>3. /\ Listed(a, 2 + N) /\ \A i \in 1 .. 2 : a[i] = p[i]
      /\ \A i \in 1 .. N : a[2 + i] = F[i]
  BY Joint
<1>6. /\ Listed(r, 2 + N + n) /\ \A i \in 1 .. 2 + N : r[i] = a[i]
      /\ \A i \in 1 .. n : r[2 + N + i] = f[i]
  BY <1>3, Joint
<1>9. /\ Listed(q, 2 + N + n + 1) /\ \A i \in 1 .. 2 + N + n : q[i] = r[i]
      /\ \A i \in 1 .. 1 : q[2 + N + n + i] = d[1]
  <2>1. /\ Listed(q, 2 + N + n + 1) /\ \A i \in 1 .. 2 + N + n : q[i] = r[i]
        /\ \A i \in 1 .. 1 : q[2 + N + n + i] = d[i]
    BY <1>6, Joint
  <2>2. QED
    BY <2>1
<1>10. q[1] = p[1] /\ q[2] = p[2]
  BY <1>3, <1>6, <1>9
<1>11. ASSUME NEW i \in 1 .. N PROVE q[2 + i] = F[i]
  <2>1. 2 + i \in 1 .. 2 + N /\ 2 + i \in 1 .. 2 + N + n
    OBVIOUS
  <2>2. q[2 + i] = r[2 + i] /\ r[2 + i] = a[2 + i] /\ a[2 + i] = F[i]
    BY <1>3, <1>6, <1>9, <2>1
  <2>3. QED
    BY <2>2
<1>12. ASSUME NEW i \in 1 .. n PROVE q[N + 2 + i] = f[i]
  <2>1. 2 + N + i \in 1 .. 2 + N + n /\ 2 + N + i = N + 2 + i
    OBVIOUS
  <2>2. q[2 + N + i] = r[2 + N + i] /\ r[2 + N + i] = f[i]
    BY <1>6, <1>9, <2>1
  <2>3. QED
    BY <2>1, <2>2
<1>13. q[N + n + 3] = d[1] /\ Listed(q, N + n + 3)
  <2>1. 2 + N + n + 1 = N + n + 3
    OBVIOUS
  <2>2. q[2 + N + n + 1] = d[1]
    BY <1>9
  <2>3. QED
    BY <1>9, <2>1, <2>2
<1>14. QED
  BY <1>10, <1>11, <1>12, <1>13

(* A worker thread's: fit between the barriers.                              *)
LEMMA WorkerScript ==
  ASSUME NEW t \in WorkerThread, NEW N, N = 6 * (Iterations + 1)
  PROVE  /\ N \in Nat /\ N >= 6 /\ Script[t] \in Seq(Ops)
         /\ Script[t][1] = "all" /\ Script[t][2] = "create"
         /\ \A k \in 1 .. N : Script[t][2 + k] = Fit[k]
         /\ Script[t][N + 3] = "all"
         /\ t[2] # 0 => Len(Script[t]) = N + 4 /\ Script[t][N + 4] = "destroy"
         /\ t[2] = 0 => /\ Len(Script[t]) = N + 6 /\ Script[t][N + 4] = "stop"
                        /\ Script[t][N + 5] = "clear" /\ Script[t][N + 6] = "destroy"
<1>1. N \in Nat /\ N >= 6 /\ Listed(Fit, N)
  BY FitFacts DEF Listed
<1>2. PICK F : F = Fit
  OBVIOUS
<1>3. PICK p : p = <<"all", "create">> /\ Listed(p, 2) /\ p[1] = "all" /\ p[2] = "create"
  BY Ends DEF Listed
<1>4. PICK n \in Nat : n = IF t[2] = 0 THEN 3 ELSE 1
  OBVIOUS
<1>4a. PICK f : /\ f = Finalize(t[2]) /\ f[1] = "all" /\ Listed(f, n)
                /\ t[2] = 0 => f[2] = "stop" /\ f[3] = "clear"
  BY <1>4, TailFacts DEF Listed
<1>5. PICK d : d = <<"destroy">> /\ Listed(d, 1) /\ d[1] = "destroy"
  BY Ends DEF Listed
<1>6. PICK a : Joins(a, p, F)
  BY DEF Joins
<1>7. PICK r : Joins(r, a, f)
  BY DEF Joins
<1>8. PICK q : Joins(q, r, d)
  BY DEF Joins
<1>9. Role[t[1]] = "worker" /\ t \in Thread
  BY DEF WorkerThread
<1>10. Script[t] = <<"all", "create">> \o Fit \o Finalize(t[2]) \o <<"destroy">>
  BY <1>9 DEF Script
<1>11. Script[t] = q
  <2>1. p = <<"all", "create">> /\ f = Finalize(t[2]) /\ d = <<"destroy">>
    BY <1>3, <1>4a, <1>5
  <2>2. QED
    BY <1>2, <1>6, <1>7, <1>8, <1>10, <2>1, Zenon DEF Joins
<1>12. /\ Listed(q, N + n + 3)
       /\ q[1] = p[1] /\ q[2] = p[2]
       /\ \A i \in 1 .. N : q[2 + i] = F[i]
       /\ \A i \in 1 .. n : q[N + 2 + i] = f[i]
       /\ q[N + n + 3] = d[1]
  <2>1. n >= 1 /\ Listed(F, N) /\ Listed(p, 2) /\ Listed(f, n) /\ Listed(d, 1)
    BY <1>1, <1>2, <1>3, <1>4, <1>4a, <1>5
  <2>2. QED
    BY <1>1, <1>6, <1>7, <1>8, <2>1, WorkerShape
<1>13. q[N + 3] = "all"
  <2>1. 1 \in 1 .. n /\ N + 2 + 1 = N + 3
    BY <1>1, <1>4
  <2>2. QED
    BY <1>4a, <1>12, <2>1
<1>14. ASSUME t[2] # 0 PROVE Listed(q, N + 4) /\ q[N + 4] = "destroy"
  <2>1. N + n + 3 = N + 4
    BY <1>1, <1>4, <1>14
  <2>2. QED
    BY <1>5, <1>12, <2>1
<1>15. ASSUME t[2] = 0
       PROVE  Listed(q, N + 6) /\ q[N + 4] = "stop" /\ q[N + 5] = "clear" /\ q[N + 6] = "destroy"
  <2>1. n = 3 /\ N + n + 3 = N + 6
    BY <1>1, <1>4, <1>15
  <2>2. q[N + 2 + 2] = f[2] /\ q[N + 2 + 3] = f[3] /\ N + 2 + 2 = N + 4 /\ N + 2 + 3 = N + 5
    BY <1>1, <1>12, <2>1
  <2>3. QED
    BY <1>4a, <1>5, <1>12, <1>15, <2>1, <2>2
<1>16. QED
  <2>1. q \in Seq(Ops) /\ (t[2] # 0 => Len(q) = N + 4) /\ (t[2] = 0 => Len(q) = N + 6)
    BY <1>12, <1>14, <1>15 DEF Listed
  <2>2. q[1] = "all" /\ q[2] = "create" /\ \A i \in 1 .. N : q[2 + i] = Fit[i]
    BY <1>2, <1>3, <1>12
  <2>3. QED
    BY <1>1, <1>11, <1>13, <1>14, <1>15, <2>1, <2>2

(* The numbers between two that differ by four.                              *)
LEMMA NextThree ==
  ASSUME NEW n \in Nat, NEW k \in Nat, k > n + 3, k <= n + 6
  PROVE  k = n + 4 \/ k = n + 5 \/ k = n + 6
OBVIOUS

(* What a worker thread calls where.                                         *)
LEMMA WorkerCalls ==
  ASSUME NEW t \in WorkerThread, NEW N, N = 6 * (Iterations + 1), NEW k, NEW op, Calls(t, k, op)
  PROVE  /\ k \in Nat
         /\ \/ k = 1 /\ op = "all"
            \/ k = 2 /\ op = "create"
            \/ k - 2 \in 1 .. N /\ op = Fit[k - 2]
            \/ k = N + 3 /\ op = "all"
            \/ k > N + 3 /\ op \in {"stop", "clear", "destroy"} /\ (op = "stop" => t[2] = 0)
<1>1. PICK s \in Seq(Ops) : s = Script[t]
  BY WorkerScript
<1>2. k \in 1 .. Len(s) /\ op = s[k]
  BY <1>1 DEF Calls
<1>3. PICK n \in Nat : n = Len(s)
  BY <1>1
<1>4. /\ N \in Nat /\ s[1] = "all" /\ s[2] = "create"
      /\ \A i \in 1 .. N : s[2 + i] = Fit[i]
      /\ s[N + 3] = "all"
      /\ t[2] # 0 => n = N + 4 /\ s[N + 4] = "destroy"
      /\ t[2] = 0 => n = N + 6 /\ s[N + 4] = "stop" /\ s[N + 5] = "clear" /\ s[N + 6] = "destroy"
  BY <1>1, <1>3, WorkerScript
<1>5. k \in Nat /\ k >= 1 /\ k <= n
  BY <1>2, <1>3
<1>6. CASE k = 1 \/ k = 2 \/ k = N + 3
  BY <1>2, <1>4, <1>5, <1>6
<1>7. CASE k > 2 /\ k < N + 3
  <2>1. k - 2 \in 1 .. N /\ 2 + (k - 2) = k
    BY <1>4, <1>5, <1>7
  <2>2. s[2 + (k - 2)] = Fit[k - 2]
    BY <1>4, <2>1
  <2>3. QED
    BY <1>2, <1>5, <2>1, <2>2
<1>8. CASE k > N + 3 /\ t[2] # 0
  <2>1. k = N + 4
    BY <1>4, <1>5, <1>8
  <2>2. QED
    BY <1>2, <1>4, <1>5, <1>8, <2>1
<1>9. CASE k > N + 3 /\ t[2] = 0
  <2>1. /\ n = N + 6 /\ s[N + 4] = "stop" /\ s[N + 5] = "clear" /\ s[N + 6] = "destroy"
        /\ N \in Nat
    BY <1>4, <1>9
  <2>2. k \in Nat /\ k > N + 3 /\ k <= N + 6
    BY <1>5, <1>9, <2>1
  <2>3. k = N + 4 \/ k = N + 5 \/ k = N + 6
    BY <2>1, <2>2, NextThree
  <2>4. op = s[k]
    BY <1>2
  <2>5. QED
    BY <1>9, <2>1, <2>2, <2>3, <2>4
<1>10. QED
  BY <1>4, <1>5, <1>6, <1>7, <1>8, <1>9

(* Every call of a script is one that it lists.                              *)
LEMMA WorkerHas ==
  ASSUME NEW t \in WorkerThread, NEW N, N = 6 * (Iterations + 1)
  PROVE  /\ Calls(t, 1, "all") /\ Calls(t, N + 3, "all")
         /\ \A i \in 1 .. N : Calls(t, i + 2, Fit[i])
<1>1. PICK s \in Seq(Ops) : s = Script[t]
  BY WorkerScript
<1>2. PICK n \in Nat : n = Len(s)
  BY <1>1
<1>3. /\ N \in Nat /\ s[1] = "all" /\ \A i \in 1 .. N : s[2 + i] = Fit[i]
      /\ s[N + 3] = "all" /\ n >= N + 4
  BY <1>1, <1>2, WorkerScript
<1>4. DOMAIN s = 1 .. n
  BY <1>2
<1>5. \A i \in 1 .. N : 2 + i = i + 2 /\ i + 2 \in 1 .. n
  BY <1>3
<1>6. 1 \in 1 .. n /\ N + 3 \in 1 .. n
  BY <1>3
<1>7. \A i \in 1 .. N : s[i + 2] = Fit[i]
  BY <1>3, <1>5
<1>8. QED
  BY <1>1, <1>3, <1>4, <1>5, <1>6, <1>7 DEF Calls

(* What the other threads call where: none of them the calls of fit.         *)
LEMMA OtherCalls ==
  ASSUME NEW t \in Thread, t \notin WorkerThread
  PROVE  /\ Calls(t, 1, "all") /\ Last(t) \in {2, 4} /\ Calls(t, Last(t), "all") /\ t[2] = 0
         /\ \A k, op : Calls(t, k, op) =>
              /\ k \in Nat
              /\ \/ op = "all" /\ (k = 1 \/ k = Last(t))
                 \/ op \in {"create", "handle"} /\ k > 1 /\ k < Last(t)
                 \/ op \in {"stop", "clear", "destroy"} /\ k > Last(t)
<1>1. Role[t[1]] \in Roles /\ Role[t[1]] # "worker"
  BY RoleAssumption, ThreadShape DEF WorkerThread
<1>2. CASE Role[t[1]] = "scheduler"
  <2>1. PICK s \in Seq(Ops) : s = Script[t]
    BY <1>2, SchedulerScript
  <2>2. /\ t[2] = 0 /\ Len(s) = 4
        /\ s[1] = "all" /\ s[2] = "all" /\ s[3] = "stop" /\ s[4] = "clear"
    BY <1>2, <2>1, SchedulerScript
  <2>3. Last(t) = 2
    BY <1>2 DEF Last
  <2>4. DOMAIN s = {1, 2, 3, 4}
    BY <2>2
  <2>5. QED
    BY <2>1, <2>2, <2>3, <2>4 DEF Calls
<1>3. CASE Role[t[1]] = "server"
  <2>1. PICK s \in Seq(Ops) : s = Script[t]
    BY <1>3, ServerScript
  <2>2. /\ t[2] = 0 /\ Len(s) = 7 /\ s[1] = "all" /\ s[2] = "create" /\ s[3] = "handle"
        /\ s[4] = "all" /\ s[5] = "stop" /\ s[6] = "clear" /\ s[7] = "destroy"
    BY <1>3, <2>1, ServerScript
  <2>3. Last(t) = 4
    BY <1>3 DEF Last
  <2>4. DOMAIN s = {1, 2, 3, 4, 5, 6, 7}
    BY <2>2
  <2>5. QED
    BY <2>1, <2>2, <2>3, <2>4 DEF Calls
<1>4. QED
  BY <1>1, <1>2, <1>3 DEF Roles

(* A position has one call.                                                  *)
LEMMA OneCall ==
  ASSUME NEW t, NEW k, NEW a, NEW b, Calls(t, k, a), Calls(t, k, b)
  PROVE  a = b
BY DEF Calls

(* In every script the barriers of all are the first call and the one of     *)
(* Finalize; what takes something down comes after that one, and the calls   *)
(* of fit are a worker's before it.                                          *)
LEMMA ScriptFacts ==
  ASSUME NEW t \in Thread
  PROVE  /\ Last(t) \in Nat /\ Last(t) > 1 /\ Calls(t, 1, "all") /\ Calls(t, Last(t), "all")
         /\ \A k, op : Calls(t, k, op) =>
              /\ k \in Nat
              /\ op = "all" => k = 1 \/ k = Last(t)
              /\ op \in {"stop", "clear", "destroy"} <=> k > Last(t)
              /\ op = "stop" => t[2] = 0
              /\ op \in {"push", "pull", "wait", "workers"} => t \in WorkerThread /\ k > 2 /\ k < Last(t)
<1>1. CASE t \in WorkerThread
  <2>1. PICK N : N = 6 * (Iterations + 1)
    OBVIOUS
  <2>2. N \in Nat /\ N >= 6
    BY <1>1, <2>1, WorkerScript
  <2>3. Last(t) = N + 3
    BY <1>1, <2>1 DEF Last, WorkerThread
  <2>4. Calls(t, 1, "all") /\ Calls(t, N + 3, "all")
    BY <1>1, <2>1, WorkerHas
  <2>5. ASSUME NEW k, NEW op, Calls(t, k, op)
        PROVE  /\ k \in Nat
               /\ op = "all" => k = 1 \/ k = Last(t)
               /\ op \in {"stop", "clear", "destroy"} <=> k > Last(t)
               /\ op = "stop" => t[2] = 0
               /\ op \in {"push", "pull", "wait", "workers"} => k > 2 /\ k < Last(t)
    <3>1. /\ k \in Nat
          /\ \/ k = 1 /\ op = "all"
             \/ k = 2 /\ op = "create"
             \/ k - 2 \in 1 .. N /\ op = Fit[k - 2]
             \/ k = N + 3 /\ op = "all"
             \/ k > N + 3 /\ op \in {"stop", "clear", "destroy"} /\ (op = "stop" => t[2] = 0)
      BY <1>1, <2>1, <2>5, WorkerCalls
    <3>2. ASSUME k - 2 \in 1 .. N, op = Fit[k - 2]
          PROVE  op \in {"push", "pull", "wait", "workers"} /\ k > 2 /\ k < N + 3
      <4>1. Fit[k - 2] \in {"push", "pull", "wait", "workers"}
        BY <2>1, <3>2, FitOrder
      <4>2. QED
        BY <2>2, <3>1, <3>2, <4>1
    <3>3. QED
      BY <2>2, <2>3, <3>1, <3>2
  <2>6. QED
    BY <1>1, <2>2, <2>3, <2>4, <2>5
<1>2. CASE t \notin WorkerThread
  BY <1>2, OtherCalls
<1>3. QED
  BY <1>1, <1>2

(* All worker threads do the same up to Finalize.                            *)
LEMMA SameScripts ==
  ASSUME NEW t \in WorkerThread, NEW u \in WorkerThread
  PROVE  /\ Last(t) = Last(u)
         /\ \A k, op : Calls(t, k, op) /\ k <= Last(t) => Calls(u, k, op)
<1>1. PICK N : N = 6 * (Iterations + 1)
  OBVIOUS
<1>2. Last(t) = N + 3 /\ Last(u) = N + 3 /\ N \in Nat
  BY <1>1, WorkerScript DEF Last, WorkerThread
<1>3. ASSUME NEW k, NEW op, Calls(t, k, op), k <= Last(t) PROVE Calls(u, k, op)
  <2>1. /\ k \in Nat
        /\ \/ k = 1 /\ op = "all"
           \/ k = 2 /\ op = "create"
           \/ k - 2 \in 1 .. N /\ op = Fit[k - 2]
           \/ k = N + 3 /\ op = "all"
           \/ k > N + 3
    BY <1>1, <1>3, WorkerCalls
  <2>2. CASE (k = 1 \/ k = N + 3) /\ op = "all"
    BY <1>1, <2>2, WorkerHas
  <2>3. CASE k - 2 \in 1 .. N /\ op = Fit[k - 2]
    <3>1. Calls(u, k - 2 + 2, Fit[k - 2])
      BY <1>1, <2>3, WorkerHas
    <3>2. k - 2 + 2 = k
      BY <2>1
    <3>3. QED
      BY <2>3, <3>1, <3>2
  <2>4. CASE k = 2 /\ op = "create"
    <3>1. Script[u] \in Seq(Ops) /\ Script[u][2] = "create" /\ Len(Script[u]) >= N + 4
      BY <1>1, <1>2, WorkerScript
    <3>2. QED
      BY <1>2, <2>4, <3>1 DEF Calls
  <2>5. QED
    BY <1>2, <1>3, <2>1, <2>2, <2>3, <2>4
<1>4. QED
  BY <1>2, <1>3

(* Around a request: it is waited for at once, then comes the barrier of the *)
(* workers; the first is a push.                                             *)
LEMMA FitCalls ==
  ASSUME NEW t \in WorkerThread
  PROVE  /\ Calls(t, 3, "push")
         /\ \A k : /\ Calls(t, k, "push") \/ Calls(t, k, "pull") =>
                        Calls(t, k + 1, "wait") /\ Calls(t, k + 2, "workers")
                   /\ Calls(t, k, "pull") => k > 5
                   /\ Calls(t, k, "wait") => Calls(t, k - 1, "push") \/ Calls(t, k - 1, "pull")
                   /\ Calls(t, k, "workers") => Calls(t, k - 1, "wait")
<1>1. PICK N : N = 6 * (Iterations + 1)
  OBVIOUS
<1>2. N \in Nat /\ N >= 6
  BY <1>1, WorkerScript
<1>3. \A i \in 1 .. N : Calls(t, i + 2, Fit[i])
  BY <1>1, WorkerHas
<1>4. Calls(t, 3, "push")
  <2>1. 1 \in 1 .. N /\ 1 + 2 = 3
    BY <1>2
  <2>2. Fit[1] = "push"
    BY <1>1, <2>1, FitOrder
  <2>3. Calls(t, 1 + 2, Fit[1])
    BY <1>3, <2>1
  <2>4. QED
    BY <2>1, <2>2, <2>3
<1>5. ASSUME NEW k, NEW op \in {"push", "pull", "wait", "workers"}, Calls(t, k, op)
      PROVE  /\ op \in {"push", "pull"} => Calls(t, k + 1, "wait") /\ Calls(t, k + 2, "workers")
             /\ op = "pull" => k > 5
             /\ op = "wait" => Calls(t, k - 1, "push") \/ Calls(t, k - 1, "pull")
             /\ op = "workers" => Calls(t, k - 1, "wait")
  <2>1. k \in Nat /\ k - 2 \in 1 .. N /\ op = Fit[k - 2]
    BY <1>1, <1>5, WorkerCalls
  <2>2. PICK i \in 1 .. N : i = k - 2
    BY <2>1
  <2>3. /\ Fit[i] \in {"push", "pull"} => i + 2 <= N /\ Fit[i + 1] = "wait" /\ Fit[i + 2] = "workers"
        /\ Fit[i] = "wait" => i > 1 /\ Fit[i - 1] \in {"push", "pull"}
        /\ Fit[i] = "workers" => i > 1 /\ Fit[i - 1] = "wait"
        /\ Fit[i] = "pull" => i > 3
    BY <1>1, FitOrder
  <2>4. op = Fit[i] /\ k = i + 2
    BY <2>1, <2>2
  <2>5. ASSUME op \in {"push", "pull"} PROVE Calls(t, k + 1, "wait") /\ Calls(t, k + 2, "workers")
    <3>1. i + 2 <= N /\ Fit[i + 1] = "wait" /\ Fit[i + 2] = "workers"
      BY <2>3, <2>4, <2>5
    <3>2. i + 1 \in 1 .. N /\ i + 2 \in 1 .. N /\ i + 1 + 2 = k + 1 /\ i + 2 + 2 = k + 2
      BY <1>2, <2>4, <3>1
    <3>3. Calls(t, i + 1 + 2, Fit[i + 1]) /\ Calls(t, i + 2 + 2, Fit[i + 2])
      BY <1>3, <3>2
    <3>4. QED
      BY <3>1, <3>2, <3>3
  <2>6. ASSUME op = "wait" \/ op = "workers" PROVE Calls(t, k - 1, Fit[i - 1])
    <3>1. i - 1 \in 1 .. N /\ i - 1 + 2 = k - 1
      BY <1>2, <2>3, <2>4, <2>6
    <3>2. Calls(t, i - 1 + 2, Fit[i - 1])
      BY <1>3, <3>1
    <3>3. QED
      BY <3>1, <3>2
  <2>7. op = "pull" => k > 5
    BY <2>3, <2>4
  <2>8. QED
    BY <2>3, <2>4, <2>5, <2>6, <2>7
<1>6. QED
  <2>1. ASSUME NEW k
        PROVE  /\ Calls(t, k, "push") \/ Calls(t, k, "pull") =>
                    Calls(t, k + 1, "wait") /\ Calls(t, k + 2, "workers")
               /\ Calls(t, k, "pull") => k > 5
               /\ Calls(t, k, "wait") => Calls(t, k - 1, "push") \/ Calls(t, k - 1, "pull")
               /\ Calls(t, k, "workers") => Calls(t, k - 1, "wait")
    BY <1>5
  <2>2. QED
    BY <1>4, <2>1

----------------------------------------------------------------------------
(* The invariant of a job. *)

(* A thread has passed its call at k, a barrier, or has been set free in it. *)
Passed(t, k) == pc[t] > k \/ (pc[t] = k /\ t \in Freed)

(* Who waits in a barrier is at a call of it.                                *)
Placed ==
  /\ pc \in [Thread -> Nat \ {0}] /\ at \in [Thread -> Group \cup {None}]
  /\ \A t \in Thread : at[t] # None =>
       \/ at[t] = All /\ Calls(t, pc[t], "all")
       \/ at[t] = Workers /\ Calls(t, pc[t], "workers")

(* Nobody is through the barrier of Finalize, and through another of a group *)
(* are all its threads or none.                                              *)
Together ==
  /\ \A t \in Thread : ~ Passed(t, Last(t))
  /\ \A t, u \in Thread : Passed(t, 1) => Passed(u, 1)
  /\ \A t, u \in WorkerThread : \A k : Calls(t, k, "workers") /\ Passed(t, k) => Passed(u, k)

(* A request is one that its thread waits for, the only one to its server.   *)
Messages ==
  /\ net \subseteq [from : WorkerThread, server : Server, op : Nat,
                    where : {"sent", "held", "queued", "answered"}]
  /\ \A m \in net : /\ pc[m.from] = m.op + 1
                    /\ Calls(m.from, m.op, "push") \/ Calls(m.from, m.op, "pull")
  /\ \A m1, m2 \in net : m1.from = m2.from /\ m1.server = m2.server => m1 = m2

(* A server has what was pushed and is not still on its way to it.           *)
Open(t, s) == \E m \in net : m.from = t /\ m.server = s /\ m.where # "answered"
Stored ==
  /\ store \in [Server -> SUBSET (WorkerThread \X Nat)]
  /\ \A s \in Server : \A x \in store[s] : Calls(x[1], x[2], "push")
  /\ \A s \in Server, t \in WorkerThread : \A k : Calls(t, k, "push") =>
       (<<t, k>> \in store[s] <=> pc[t] > k + 1 \/ (pc[t] = k + 1 /\ ~ Open(t, s)))

(* The job up to the barrier of Finalize,                                    *)
Early == IInv /\ Together /\ Messages /\ Stored /\ stopped = {}

(* and after it, when all that is left are the scheduler's responses.        *)
Late ==
  /\ \A t \in Thread : pc[t] >= Last(t) /\ (pc[t] = Last(t) => at[t] = All)
  /\ reqs = {} /\ net = {}
  /\ resps \subseteq Proc
  /\ \A p \in resps : \A c \in Customers[p] : at[<<p, c>>] # None /\ <<p, c>> \notin done
  /\ stopped \subseteq Proc /\ \A p \in stopped : pc[<<p, 0>>] > Last(<<p, 0>>)

Reads ==
  /\ read \in [WorkerThread -> [Server -> [op : Nat, pushes : SUBSET (WorkerThread \X Nat)]]]
  /\ failed \in [Proc -> {None, "no app", "no handle", "no matrix"}]
  /\ RoundsAreSynchronous

JobInv == Placed /\ Reads /\ (Early \/ Late)

----------------------------------------------------------------------------
(* What makes the barriers hold is what has passed them.                     *)
LEMMA TogetherStays ==
  ASSUME Together,
         \A u \in Thread : \A k : Calls(u, k, "all") \/ Calls(u, k, "workers") =>
           (Passed(u, k)' <=> Passed(u, k))
  PROVE  Together'
<1>1. \A t \in Thread : Calls(t, 1, "all") /\ Calls(t, Last(t), "all")
  BY ScriptFacts
<1>2. WorkerThread \subseteq Thread
  BY DEF WorkerThread
<1>3. \A t, u \in WorkerThread : \A k : Calls(t, k, "workers") => Calls(u, k, "workers")
  <2>1. ASSUME NEW t \in WorkerThread, NEW u \in WorkerThread, NEW k, Calls(t, k, "workers")
        PROVE  Calls(u, k, "workers")
    <3>1. k \in Nat /\ k < Last(t) /\ Last(t) \in Nat
      BY <1>2, <2>1, ScriptFacts
    <3>2. k <= Last(t)
      BY <3>1
    <3>3. QED
      BY <2>1, <3>2, SameScripts
  <2>2. QED
    BY <2>1
<1>4. \A t \in Thread : ~ Passed(t, Last(t))'
  BY <1>1 DEF Together
<1>5. \A t, u \in Thread : Passed(t, 1)' => Passed(u, 1)'
  BY <1>1 DEF Together
<1>6. \A t, u \in WorkerThread : \A k : Calls(t, k, "workers") /\ Passed(t, k)' => Passed(u, k)'
  BY <1>2, <1>3 DEF Together
<1>7. QED
  BY <1>4, <1>5, <1>6 DEF Together

(* Of a thread at another call nothing has passed, and it may go on.         *)
LEMMA GoesOn ==
  ASSUME Placed, NEW t \in Thread, NEW op, op # "all", op # "workers",
         Calls(t, pc[t], op), Step(t), UNCHANGED vars
  PROVE  /\ Placed'
         /\ \A u \in Thread : \A k : Calls(u, k, "all") \/ Calls(u, k, "workers") =>
              (Passed(u, k)' <=> Passed(u, k))
<1>1. at[t] = None
  <2>1. ~ Calls(t, pc[t], "all") /\ ~ Calls(t, pc[t], "workers")
    BY OneCall
  <2>2. QED
    BY <2>1 DEF Placed
<1>2. at' = at /\ Freed' = Freed
  BY DEF vars, Freed
<1>3. pc' = [pc EXCEPT ![t] = pc[t] + 1] /\ pc[t] \in Nat
  BY DEF Step, Placed
<1>4. Placed'
  BY <1>1, <1>2, <1>3 DEF Placed
<1>5. ASSUME NEW u \in Thread, NEW k, Calls(u, k, "all") \/ Calls(u, k, "workers")
      PROVE  Passed(u, k)' <=> Passed(u, k)
  <2>1. CASE u # t
    BY <1>2, <1>3, <2>1 DEF Passed, Placed
  <2>2. CASE u = t
    <3>1. k # pc[t]
      BY <1>5, <2>2, OneCall
    <3>2. k \in Nat
      BY <1>5, ScriptFacts
    <3>3. pc'[t] = pc[t] + 1 /\ t \notin Freed
      BY <1>1, <1>3 DEF Placed, Freed
    <3>4. QED
      BY <1>2, <1>3, <2>2, <3>1, <3>2, <3>3 DEF Passed
  <2>3. QED
    BY <2>1, <2>2
<1>6. QED
  BY <1>4, <1>5

(* To leave a barrier changes nothing in what has passed.                    *)
LEMMA LeavesPassed ==
  ASSUME Placed, IInv, NEW t \in Thread, Leave(t), Step(t)
  PROVE  /\ Placed'
         /\ \A u \in Thread : \A k : Calls(u, k, "all") \/ Calls(u, k, "workers") =>
              (Passed(u, k)' <=> Passed(u, k))
<1>1. t \in Freed /\ Freed' = Freed \ {t}
  BY FreedLeave
<1>2. at' = [at EXCEPT ![t] = None]
  BY DEF Leave
<1>3. pc' = [pc EXCEPT ![t] = pc[t] + 1] /\ pc[t] \in Nat
  BY DEF Step, Placed
<1>4. Placed'
  BY <1>2, <1>3 DEF Placed
<1>5. ASSUME NEW u \in Thread, NEW k, Calls(u, k, "all") \/ Calls(u, k, "workers")
      PROVE  Passed(u, k)' <=> Passed(u, k)
  <2>1. CASE u # t
    BY <1>1, <1>3, <2>1 DEF Passed, Placed
  <2>2. CASE u = t
    <3>1. k \in Nat
      BY <1>5, ScriptFacts
    <3>2. pc'[t] = pc[t] + 1
      BY <1>3 DEF Placed
    <3>3. QED
      BY <1>1, <1>3, <2>2, <3>1, <3>2 DEF Passed
  <2>3. QED
    BY <2>1, <2>2
<1>6. QED
  BY <1>4, <1>5

(* Before the last barrier nothing is taken down.                            *)
LEMMA NotDownYet ==
  ASSUME Placed, Together, NEW t \in Thread, NEW op \in {"stop", "clear", "destroy"},
         Calls(t, pc[t], op)
  PROVE  FALSE
<1>1. pc[t] > Last(t)
  BY ScriptFacts
<1>2. QED
  BY <1>1 DEF Together, Passed

(* What threads do beside requests leaves requests and stores as they are.   *)
LEMMA DataStays ==
  ASSUME Messages, Stored, UNCHANGED <<pc, net, store>>
  PROVE  Messages' /\ Stored'
BY DEF Messages, Stored, Open

(* Nor does a call that is neither a request nor the wait for one.          *)
LEMMA DataGoesOn ==
  ASSUME Placed, Messages, Stored, NEW t \in Thread, NEW op, op \notin {"push", "pull", "wait"},
         Calls(t, pc[t], op), Step(t), UNCHANGED <<net, store>>
  PROVE  Messages' /\ Stored'
<1>1. pc' = [pc EXCEPT ![t] = pc[t] + 1] /\ pc[t] \in Nat /\ pc'[t] = pc[t] + 1
  BY DEF Step, Placed
<1>2. \A m \in net : m.from # t
  <2>1. ASSUME NEW m \in net, m.from = t PROVE FALSE
    <3>1. m.from \in WorkerThread /\ Calls(t, m.op + 1, "wait") /\ pc[t] = m.op + 1
      BY <2>1, FitCalls DEF Messages
    <3>2. QED
      BY <3>1, OneCall
  <2>2. QED
    BY <2>1
<1>3. Messages'
  BY <1>1, <1>2 DEF Messages, Placed, WorkerThread
<1>4. \A u, s : Open(u, s)' <=> Open(u, s)
  BY DEF Open
<1>5. ASSUME NEW s \in Server, NEW u \in WorkerThread, NEW k, Calls(u, k, "push")
      PROVE  (<<u, k>> \in store[s] <=> pc[u] > k + 1 \/ (pc[u] = k + 1 /\ ~ Open(u, s)))'
  <2>1. <<u, k>> \in store[s] <=> pc[u] > k + 1 \/ (pc[u] = k + 1 /\ ~ Open(u, s))
    BY <1>5 DEF Stored
  <2>2. CASE u # t
    BY <1>1, <1>4, <2>1, <2>2 DEF Placed, WorkerThread
  <2>3. CASE u = t
    <3>1. k \in Nat
      BY <1>5, <2>3, ScriptFacts
    <3>2. pc[t] # k /\ pc[t] # k + 1
      <4>1. Calls(u, k + 1, "wait")
        BY <1>5, FitCalls
      <4>2. QED
        BY <1>5, <2>3, <4>1, OneCall
    <3>3. QED
      BY <1>1, <1>4, <2>1, <2>3, <3>1, <3>2
  <2>4. QED
    BY <2>2, <2>3
<1>6. Stored'
  BY <1>5 DEF Stored
<1>7. QED
  BY <1>3, <1>6

----------------------------------------------------------------------------
(* The steps of a job before its last barrier. *)

(* A thread enters a barrier.                                               *)
LEMMA EnterEarly ==
  ASSUME Placed, Early, NEW t \in Thread, EnterBarrier(t)
  PROVE  Placed' /\ Early'
<1>1. UNCHANGED <<pc, net, store, stopped>>
  BY DEF EnterBarrier
<1>2. PICK g \in Group : /\ Enter(t, g)
                         /\ \/ g = All /\ Calls(t, pc[t], "all")
                            \/ g = Workers /\ Calls(t, pc[t], "workers")
  BY JobAssumption DEF EnterBarrier, Doing, Calls
<1>3. IInv' /\ Freed' = Freed
  BY <1>2, IInvEnter, FreedEnter DEF Early
<1>4. Together'
  BY <1>1, <1>3, TogetherStays DEF Early, Passed
<1>5. Messages' /\ Stored'
  BY <1>1, DataStays DEF Early
<1>6. Placed'
  BY <1>1, <1>2 DEF Placed, Enter
<1>7. QED
  BY <1>1, <1>3, <1>4, <1>5, <1>6 DEF Early

(* A thread that was set free leaves one.                                   *)
LEMMA LeaveEarly ==
  ASSUME Placed, Early, NEW t \in Thread, LeaveBarrier(t)
  PROVE  Placed' /\ Early'
<1>1. Leave(t) /\ Step(t) /\ UNCHANGED <<net, store, stopped>>
  BY DEF LeaveBarrier
<1>2. IInv'
  BY <1>1, IInvLeave DEF Early
<1>3. /\ Placed'
      /\ \A u \in Thread : \A k : Calls(u, k, "all") \/ Calls(u, k, "workers") =>
           (Passed(u, k)' <=> Passed(u, k))
  BY <1>1, LeavesPassed DEF Early
<1>4. Together'
  BY <1>3, TogetherStays DEF Early
<1>5. PICK op \in {"all", "workers"} : Calls(t, pc[t], op)
  BY <1>1 DEF Leave, Placed
<1>6. Messages' /\ Stored'
  BY <1>1, <1>5, DataGoesOn DEF Early
<1>7. QED
  BY <1>1, <1>2, <1>3, <1>4, <1>6 DEF Early

(* A response sets its process free.                                        *)
LEMMA ManageEarly ==
  ASSUME ContiguousIds, Placed, Early, NEW p \in Proc, ManageBarrier(p)
  PROVE  Placed' /\ Early'
<1>1. Manage(p) /\ UNCHANGED <<pc, net, store, stopped>>
  BY DEF ManageBarrier
<1>2. IInv' /\ Freed' = Freed /\ at' = at
  BY <1>1, IInvManage, ManageWakesProcess DEF Early, Manage
<1>3. Together'
  BY <1>1, <1>2, TogetherStays DEF Early, Passed
<1>4. Messages' /\ Stored'
  BY <1>1, DataStays DEF Early
<1>5. QED
  BY <1>1, <1>2, <1>3, <1>4 DEF Early, Placed

(* Nothing but the barrier's own steps touches its variables.                *)
LEMMA BarrierIdle ==
  ASSUME ContiguousIds, IInv, UNCHANGED vars
  PROVE  IInv' /\ Freed' = Freed /\ at' = at
<1>1. IInv'
  BY IInvNext
<1>2. QED
  BY <1>1 DEF vars, Freed

(* A customer, or a server's handle, is there.                              *)
LEMMA CreateEarly ==
  ASSUME ContiguousIds, Placed, Early, NEW t \in Thread, Create(t) \/ SetHandle(t)
  PROVE  Placed' /\ Early'
<1>1. Step(t) /\ UNCHANGED vars /\ UNCHANGED <<net, store, stopped>>
  BY DEF Create, SetHandle
<1>2. PICK op \in {"create", "handle"} : Calls(t, pc[t], op)
  BY DEF Create, SetHandle, Doing, Calls
<1>3. IInv'
  BY <1>1, BarrierIdle DEF Early
<1>4. /\ Placed'
      /\ \A u \in Thread : \A k : Calls(u, k, "all") \/ Calls(u, k, "workers") =>
           (Passed(u, k)' <=> Passed(u, k))
  BY <1>1, <1>2, GoesOn
<1>5. Together'
  BY <1>4, TogetherStays DEF Early
<1>6. Messages' /\ Stored'
  BY <1>1, <1>2, DataGoesOn DEF Early
<1>7. QED
  BY <1>1, <1>3, <1>4, <1>5, <1>6 DEF Early

(* A request is new, and of the thread's own.                                *)
LEMMA RequestEarly ==
  ASSUME ContiguousIds, Placed, Early, NEW t \in Thread, Request(t)
  PROVE  Placed' /\ Early'
<1> DEFINE New == {[from |-> t, server |-> s, op |-> pc[t], where |-> "sent"] : s \in Server}
<1>1. Step(t) /\ UNCHANGED vars /\ UNCHANGED <<store, stopped>> /\ net' = net \cup New
  BY DEF Request
<1>2. PICK op \in {"push", "pull"} : Calls(t, pc[t], op)
  BY DEF Request, Doing, Calls
<1>3. IInv'
  BY <1>1, BarrierIdle DEF Early
<1>4. /\ Placed'
      /\ \A u \in Thread : \A k : Calls(u, k, "all") \/ Calls(u, k, "workers") =>
           (Passed(u, k)' <=> Passed(u, k))
  BY <1>1, <1>2, GoesOn
<1>5. Together'
  BY <1>4, TogetherStays DEF Early
<1>6. t \in WorkerThread
  BY <1>2, ScriptFacts
<1>7. pc' = [pc EXCEPT ![t] = pc[t] + 1] /\ pc[t] \in Nat /\ pc'[t] = pc[t] + 1
  BY <1>1 DEF Step, Placed
<1>8. \A m \in net : m.from # t
  <2>1. ASSUME NEW m \in net, m.from = t PROVE FALSE
    <3>1. Calls(t, m.op + 1, "wait") /\ pc[t] = m.op + 1
      BY <1>6, <2>1, FitCalls DEF Early, Messages
    <3>2. QED
      BY <1>2, <3>1, OneCall
  <2>2. QED
    BY <2>1
<1>9. \A m \in New : /\ m \in [from : WorkerThread, server : Server, op : Nat,
                               where : {"sent", "held", "queued", "answered"}]
                     /\ m.from = t /\ m.op = pc[t] /\ m.where = "sent"
  BY <1>6, <1>7
<1>10. \A m1, m2 \in New : m1.server = m2.server => m1 = m2
  OBVIOUS
<1>11. \A s \in Server : \E m \in New : m.server = s
  <2>1. ASSUME NEW s \in Server PROVE \E m \in New : m.server = s
    <3>1. PICK m : m = [from |-> t, server |-> s, op |-> pc[t], where |-> "sent"]
      OBVIOUS
    <3>2. m \in New /\ m.server = s
      BY <3>1
    <3>3. QED
      BY <3>2
  <2>2. QED
    BY <2>1
<1> HIDE DEF New
<1>12. Messages'
  <2>1. net' \subseteq [from : WorkerThread, server : Server, op : Nat,
                        where : {"sent", "held", "queued", "answered"}]
    BY <1>1, <1>9 DEF Early, Messages
  <2>2. ASSUME NEW m \in net'
        PROVE  /\ pc'[m.from] = m.op + 1
               /\ Calls(m.from, m.op, "push") \/ Calls(m.from, m.op, "pull")
    <3>1. CASE m \in net
      BY <1>7, <1>8, <3>1 DEF Early, Messages, Placed, WorkerThread
    <3>2. CASE m \in New
      BY <1>2, <1>7, <1>9, <3>2
    <3>3. QED
      BY <1>1, <3>1, <3>2
  <2>3. \A m1, m2 \in net' : m1.from = m2.from /\ m1.server = m2.server => m1 = m2
    BY <1>1, <1>8, <1>9, <1>10 DEF Early, Messages
  <2>4. QED
    BY <2>1, <2>2, <2>3 DEF Messages
<1>13. \A u, s : u # t => (Open(u, s)' <=> Open(u, s))
  BY <1>1, <1>9 DEF Open
<1>14. \A s \in Server : Open(t, s)'
  BY <1>1, <1>9, <1>11 DEF Open
<1>15. ASSUME NEW s \in Server, NEW u \in WorkerThread, NEW k, Calls(u, k, "push")
       PROVE  (<<u, k>> \in store[s] <=> pc[u] > k + 1 \/ (pc[u] = k + 1 /\ ~ Open(u, s)))'
  <2>1. <<u, k>> \in store[s] <=> pc[u] > k + 1 \/ (pc[u] = k + 1 /\ ~ Open(u, s))
    BY <1>15 DEF Early, Stored
  <2>2. CASE u # t
    BY <1>1, <1>7, <1>13, <2>1, <2>2 DEF Placed, WorkerThread
  <2>3. CASE u = t
    <3>1. k \in Nat
      BY <1>15, <2>3, ScriptFacts
    <3>2. pc[t] # k + 1
      <4>1. Calls(u, k + 1, "wait")
        BY <1>15, FitCalls
      <4>2. QED
        BY <1>2, <2>3, <4>1, OneCall
    <3>3. QED
      BY <1>1, <1>7, <1>14, <2>1, <2>3, <3>1, <3>2
  <2>4. QED
    BY <2>2, <2>3
<1>16. Stored'
  BY <1>1, <1>15 DEF Early, Stored
<1>17. QED
  BY <1>1, <1>3, <1>4, <1>5, <1>12, <1>16 DEF Early

(* A thread that has waited has no request left.                             *)
LEMMA WaitEarly ==
  ASSUME ContiguousIds, Placed, Early, NEW t \in Thread, Wait(t)
  PROVE  Placed' /\ Early'
<1>1. Step(t) /\ UNCHANGED vars /\ UNCHANGED <<net, store, stopped>>
  BY DEF Wait
<1>2. Calls(t, pc[t], "wait")
  BY DEF Wait, Doing, Calls
<1>3. IInv'
  BY <1>1, BarrierIdle DEF Early
<1>4. /\ Placed'
      /\ \A u \in Thread : \A k : Calls(u, k, "all") \/ Calls(u, k, "workers") =>
           (Passed(u, k)' <=> Passed(u, k))
  BY <1>1, <1>2, GoesOn
<1>5. Together'
  BY <1>4, TogetherStays DEF Early
<1>6. t \in WorkerThread
  BY <1>2, ScriptFacts
<1>7. pc' = [pc EXCEPT ![t] = pc[t] + 1] /\ pc[t] \in Nat /\ pc'[t] = pc[t] + 1
  BY <1>1 DEF Step, Placed
<1>8. \A m \in net : m.from # t
  <2>1. ASSUME NEW m \in net, m.from = t PROVE FALSE
    <3>1. m.op \in Nat /\ pc[t] = m.op + 1
      BY <2>1 DEF Early, Messages
    <3>2. m.op = pc[t] - 1
      BY <1>7, <3>1
    <3>3. QED
      BY <2>1, <3>2 DEF Wait
  <2>2. QED
    BY <2>1
<1>9. Messages'
  BY <1>1, <1>7, <1>8 DEF Early, Messages, Placed, WorkerThread
<1>10. /\ \A u, s : Open(u, s)' <=> Open(u, s)
       /\ \A s : ~ Open(t, s)
  BY <1>1, <1>8 DEF Open
<1>11. ASSUME NEW s \in Server, NEW u \in WorkerThread, NEW k, Calls(u, k, "push")
       PROVE  (<<u, k>> \in store[s] <=> pc[u] > k + 1 \/ (pc[u] = k + 1 /\ ~ Open(u, s)))'
  <2>1. <<u, k>> \in store[s] <=> pc[u] > k + 1 \/ (pc[u] = k + 1 /\ ~ Open(u, s))
    BY <1>11 DEF Early, Stored
  <2>2. CASE u # t
    BY <1>1, <1>7, <1>10, <2>1, <2>2 DEF Placed, WorkerThread
  <2>3. CASE u = t
    <3>1. k \in Nat
      BY <1>11, <2>3, ScriptFacts
    <3>2. pc[t] # k
      BY <1>2, <1>11, <2>3, OneCall
    <3>3. QED
      BY <1>1, <1>7, <1>10, <2>1, <2>3, <3>1, <3>2
  <2>4. QED
    BY <2>2, <2>3
<1>12. Stored'
  BY <1>1, <1>11 DEF Early, Stored
<1>13. QED
  BY <1>1, <1>3, <1>4, <1>5, <1>9, <1>12 DEF Early

(* A request that moves on is still the same request.                        *)
LEMMA MovesOn ==
  ASSUME Messages, NEW m \in net, NEW w \in {"sent", "held", "queued", "answered"},
         net' = Moved(m, w), pc' = pc
  PROVE  /\ Messages'
         /\ \A u, s : ~ (u = m.from /\ s = m.server) => (Open(u, s)' <=> Open(u, s))
         /\ Open(m.from, m.server)' <=> w # "answered"
<1>1. PICK x : x = [m EXCEPT !.where = w]
  OBVIOUS
<1>2. m \in [from : WorkerThread, server : Server, op : Nat,
             where : {"sent", "held", "queued", "answered"}]
  BY DEF Messages
<1>3. /\ x \in [from : WorkerThread, server : Server, op : Nat,
                where : {"sent", "held", "queued", "answered"}]
      /\ x.from = m.from /\ x.server = m.server /\ x.op = m.op /\ x.where = w
  BY <1>1, <1>2
<1>4. net' = (net \ {m}) \cup {x}
  BY <1>1 DEF Moved
<1>5. \A y \in net : y.from = m.from /\ y.server = m.server => y = m
  BY DEF Messages
<1>6. Messages'
  <2>1. net' \subseteq [from : WorkerThread, server : Server, op : Nat,
                        where : {"sent", "held", "queued", "answered"}]
    BY <1>3, <1>4 DEF Messages
  <2>2. \A y \in net' : /\ pc[y.from] = y.op + 1
                        /\ Calls(y.from, y.op, "push") \/ Calls(y.from, y.op, "pull")
    BY <1>3, <1>4 DEF Messages
  <2>3. \A m1, m2 \in net' : m1.from = m2.from /\ m1.server = m2.server => m1 = m2
    BY <1>3, <1>4, <1>5 DEF Messages
  <2>4. QED
    BY <2>1, <2>2, <2>3 DEF Messages
<1>7. ASSUME NEW u, NEW s, ~ (u = m.from /\ s = m.server)
      PROVE  Open(u, s)' <=> Open(u, s)
  BY <1>3, <1>4, <1>7 DEF Open
<1>8. Open(m.from, m.server)' <=> w # "answered"
  BY <1>3, <1>4, <1>5 DEF Open
<1>9. QED
  BY <1>6, <1>7, <1>8

(* On its way to the store it changes nothing there.                         *)
LEMMA QueueEarly ==
  ASSUME ContiguousIds, Placed, Early, NEW m \in net, ReceiveRequest(m) \/ FindApp(m)
  PROVE  Placed' /\ Early'
<1>1. UNCHANGED vars /\ UNCHANGED <<pc, store, stopped>>
  BY DEF ReceiveRequest, FindApp
<1>2. PICK w \in {"held", "queued"} : net' = Moved(m, w)
  BY DEF ReceiveRequest, FindApp
<1>3. IInv' /\ Freed' = Freed /\ at' = at
  BY <1>1, BarrierIdle DEF Early
<1>4. Together'
  BY <1>1, <1>3, TogetherStays DEF Early, Passed
<1>5. Open(m.from, m.server)
  BY DEF ReceiveRequest, FindApp, Open
<1>6. /\ Messages'
      /\ \A u, s : ~ (u = m.from /\ s = m.server) => (Open(u, s)' <=> Open(u, s))
      /\ Open(m.from, m.server)' <=> w # "answered"
  BY <1>1, <1>2, MovesOn DEF Early
<1>7. \A u, s : Open(u, s)' <=> Open(u, s)
  BY <1>5, <1>6
<1>8. Stored'
  BY <1>1, <1>7 DEF Early, Stored
<1>9. QED
  BY <1>1, <1>3, <1>4, <1>6, <1>8 DEF Early, Placed

(* An answer that arrives ends a request that is served.                     *)
LEMMA AnswerEarly ==
  ASSUME ContiguousIds, Placed, Early, NEW m \in net, ReceiveAnswer(m)
  PROVE  Placed' /\ Early'
<1>1. UNCHANGED vars /\ UNCHANGED <<pc, store, stopped>> /\ net' = net \ {m} /\ m.where = "answered"
  BY DEF ReceiveAnswer
<1>2. IInv' /\ Freed' = Freed /\ at' = at
  BY <1>1, BarrierIdle DEF Early
<1>3. Together'
  BY <1>1, <1>2, TogetherStays DEF Early, Passed
<1>4. Messages'
  BY <1>1 DEF Early, Messages
<1>5. \A u, s : Open(u, s)' <=> Open(u, s)
  BY <1>1 DEF Open
<1>6. Stored'
  BY <1>1, <1>5 DEF Early, Stored
<1>7. QED
  BY <1>1, <1>2, <1>3, <1>4, <1>6 DEF Early, Placed

(* A pull that is served finds what was pushed before it: the barriers after *)
(* those pushes are passed, its own is not.                                  *)
LEMMA PullFinds ==
  ASSUME Placed, Early, NEW m \in net, m.where = "queued", Calls(m.from, m.op, "pull")
  PROVE  store[m.server] = Before(m.op) /\ store[m.server] # {}
<1>1. /\ m.from \in WorkerThread /\ m.server \in Server /\ m.op \in Nat
      /\ pc[m.from] = m.op + 1
  BY DEF Early, Messages
<1>2. PICK t \in WorkerThread : t = m.from
  BY <1>1
<1>3. PICK s \in Server : s = m.server
  BY <1>1
<1>4. PICK k \in Nat : k = m.op
  BY <1>1
<1>5. /\ pc[t] = k + 1 /\ Calls(t, k, "pull") /\ k > 5 /\ k < Last(t) /\ Last(t) \in Nat
      /\ Calls(t, k + 1, "wait") /\ Calls(t, k + 2, "workers")
  BY <1>1, <1>2, <1>4, FitCalls, ScriptFacts DEF WorkerThread
<1>6. WorkerThread \subseteq Thread
  BY DEF WorkerThread
<1>7. \A u \in WorkerThread : Calls(u, k, "pull") /\ Calls(u, k + 1, "wait") /\ Calls(u, k + 2, "workers")
  <2>1. ASSUME NEW u \in WorkerThread
        PROVE  Calls(u, k, "pull") /\ Calls(u, k + 1, "wait") /\ Calls(u, k + 2, "workers")
    <3>1. k + 1 < Last(t) /\ k + 2 < Last(t)
      BY <1>5, <1>6, ScriptFacts
    <3>2. k <= Last(t) /\ k + 1 <= Last(t) /\ k + 2 <= Last(t)
      BY <1>5, <3>1
    <3>3. QED
      BY <1>5, <3>2, SameScripts
  <2>2. QED
    BY <2>1
<1>8. ASSUME NEW u \in WorkerThread, NEW j \in Nat, Calls(u, j, "push")
      PROVE  <<u, j>> \in store[s] <=> j <= k - 1
  <2>1. <<u, j>> \in store[s] <=> pc[u] > j + 1 \/ (pc[u] = j + 1 /\ ~ Open(u, s))
    BY <1>8 DEF Early, Stored
  <2>2. Calls(u, j + 1, "wait") /\ Calls(u, j + 2, "workers")
    BY <1>8, FitCalls
  <2>3. j # k /\ j # k + 1 /\ j # k + 2
    BY <1>7, <1>8, OneCall
  <2>4. pc[u] \in Nat /\ u \in Thread
    BY <1>6 DEF Placed
  <2>5. CASE j > k
    <3>1. ~ Passed(t, k + 2)
      BY <1>5 DEF Passed
    <3>2. ~ Passed(u, k + 2)
      BY <1>7, <3>1 DEF Early, Together
    <3>3. pc[u] <= k + 2
      BY <2>4, <3>2 DEF Passed
    <3>4. pc[u] < j + 1
      BY <2>3, <2>4, <2>5, <3>3
    <3>5. QED
      BY <2>1, <2>4, <2>5, <3>4
  <2>6. CASE j < k
    <3>1. j + 2 # k /\ j + 1 # k
      BY <1>7, <2>2, OneCall
    <3>2. pc[t] > j + 2
      BY <1>5, <2>6, <3>1
    <3>3. Passed(t, j + 2)
      BY <3>2 DEF Passed
    <3>4. Calls(t, j + 2, "workers")
      <4>1. j + 2 <= Last(u)
        BY <1>6, <2>2, ScriptFacts
      <4>2. QED
        BY <2>2, <4>1, SameScripts
    <3>5. Passed(u, j + 2)
      BY <3>3, <3>4 DEF Early, Together
    <3>6. pc[u] > j + 1
      BY <2>4, <3>5 DEF Passed
    <3>7. QED
      BY <2>1, <2>6, <3>6
  <2>7. QED
    BY <2>3, <2>5, <2>6
<1>9. \A x \in store[s] : /\ x = <<x[1], x[2]>> /\ x[1] \in WorkerThread /\ x[2] \in Nat
                          /\ Calls(x[1], x[2], "push")
  BY DEF Early, Stored
<1>10. \A u \in WorkerThread : \A j \in 1 .. k - 1 : Calls(u, j, "push") <=> Script[u][j] = "push"
  <2>1. ASSUME NEW u \in WorkerThread, NEW j \in 1 .. k - 1 PROVE j \in DOMAIN Script[u]
    <3>1. Calls(u, k, "pull")
      BY <1>7
    <3>2. Script[u] \in Seq(Ops)
      BY WorkerScript
    <3>3. QED
      BY <1>5, <3>1, <3>2 DEF Calls
  <2>2. QED
    BY <2>1 DEF Calls
<1>11. ASSUME NEW x PROVE x \in store[s] <=> x \in Before(k)
  <2>1. ASSUME x \in store[s] PROVE x \in Before(k)
    <3>1. /\ x = <<x[1], x[2]>> /\ x[1] \in WorkerThread /\ x[2] \in Nat
          /\ Calls(x[1], x[2], "push")
      BY <1>9, <2>1
    <3>2. x[2] <= k - 1 /\ x[2] > 2
      BY <1>6, <1>8, <2>1, <3>1, ScriptFacts
    <3>3. x[2] \in 1 .. k - 1
      BY <3>1, <3>2
    <3>4. QED
      BY <1>10, <3>1, <3>3 DEF Before
  <2>2. ASSUME x \in Before(k) PROVE x \in store[s]
    <3>1. /\ x = <<x[1], x[2]>> /\ x[1] \in WorkerThread /\ x[2] \in 1 .. k - 1
          /\ Script[x[1]][x[2]] = "push"
      BY <2>2 DEF Before
    <3>2. Calls(x[1], x[2], "push") /\ x[2] \in Nat /\ x[2] <= k - 1
      BY <1>10, <3>1
    <3>3. <<x[1], x[2]>> \in store[s]
      BY <1>8, <3>1, <3>2
    <3>4. QED
      BY <3>1, <3>3
  <2>3. QED
    BY <2>1, <2>2
<1>12. store[s] = Before(k)
  <2>1. \A x \in store[s] : x \in Before(k)
    BY <1>11
  <2>2. \A x \in Before(k) : x \in store[s]
    BY <1>11
  <2>3. QED
    BY <2>1, <2>2
<1>13. <<t, 3>> \in store[s]
  <2>1. Calls(t, 3, "push") /\ 3 \in Nat /\ 3 <= k - 1
    BY <1>5, FitCalls
  <2>2. QED
    BY <1>8, <2>1
<1>14. QED
  BY <1>3, <1>4, <1>12, <1>13

(* A push that is served is in the store, and answered.                      *)
LEMMA PushStores ==
  ASSUME Placed, Messages, Stored, NEW m \in net, Calls(m.from, m.op, "push"),
         store' = [store EXCEPT ![m.server] = store[m.server] \cup {<<m.from, m.op>>}],
         net' = Moved(m, "answered"), pc' = pc
  PROVE  Messages' /\ Stored'
<1>1. /\ m.from \in WorkerThread /\ m.server \in Server /\ m.op \in Nat
      /\ pc[m.from] = m.op + 1
  BY DEF Messages
<1>2. /\ Messages'
      /\ \A u, s : ~ (u = m.from /\ s = m.server) => (Open(u, s)' <=> Open(u, s))
      /\ ~ Open(m.from, m.server)'
  BY MovesOn
<1>3. \A s \in Server : \A x : x \in store'[s] <=>
        x \in store[s] \/ (s = m.server /\ x = <<m.from, m.op>>)
  BY <1>1 DEF Stored
<1>4. store' \in [Server -> SUBSET (WorkerThread \X Nat)]
  BY <1>1 DEF Stored
<1>5. \A s \in Server : \A x \in store'[s] : Calls(x[1], x[2], "push")
  BY <1>3 DEF Stored
<1>6. ASSUME NEW s \in Server, NEW u \in WorkerThread, NEW k, Calls(u, k, "push")
      PROVE  <<u, k>> \in store'[s] <=> pc[u] > k + 1 \/ (pc[u] = k + 1 /\ ~ Open(u, s)')
  <2>1. <<u, k>> \in store[s] <=> pc[u] > k + 1 \/ (pc[u] = k + 1 /\ ~ Open(u, s))
    BY <1>6 DEF Stored
  <2>2. k \in Nat /\ pc[u] \in Nat
    BY <1>6, ScriptFacts DEF WorkerThread, Placed
  <2>3. CASE ~ (u = m.from /\ s = m.server)
    BY <1>2, <1>3, <2>1, <2>3
  <2>4. CASE u = m.from /\ s = m.server
    <3>1. CASE k = m.op
      BY <1>1, <1>2, <1>3, <2>4, <3>1
    <3>2. CASE k # m.op
      <4>1. pc[u] # k + 1
        BY <1>1, <2>2, <2>4, <3>2
      <4>2. <<u, k>> \in store'[s] <=> <<u, k>> \in store[s]
        BY <1>3, <3>2
      <4>3. QED
        BY <2>1, <4>1, <4>2
    <3>3. QED
      BY <3>1, <3>2
  <2>5. QED
    BY <2>3, <2>4
<1>7. Stored'
  BY <1>4, <1>5, <1>6 DEF Stored
<1>8. QED
  BY <1>2, <1>7

(* To answer a pull leaves the stores as they are.                           *)
LEMMA PullLeaves ==
  ASSUME Placed, Messages, Stored, NEW m \in net, m.where = "queued",
         Calls(m.from, m.op, "pull"),
         store' = store, net' = Moved(m, "answered"), pc' = pc
  PROVE  Messages' /\ Stored'
<1>1. /\ m.from \in WorkerThread /\ m.server \in Server /\ m.op \in Nat
      /\ pc[m.from] = m.op + 1
  BY DEF Messages
<1>2. /\ Messages'
      /\ \A u, s : ~ (u = m.from /\ s = m.server) => (Open(u, s)' <=> Open(u, s))
  BY MovesOn
<1>3. ASSUME NEW s \in Server, NEW u \in WorkerThread, NEW k, Calls(u, k, "push")
      PROVE  <<u, k>> \in store'[s] <=> pc[u] > k + 1 \/ (pc[u] = k + 1 /\ ~ Open(u, s)')
  <2>1. <<u, k>> \in store[s] <=> pc[u] > k + 1 \/ (pc[u] = k + 1 /\ ~ Open(u, s))
    BY <1>3 DEF Stored
  <2>2. k \in Nat
    BY <1>3, ScriptFacts DEF WorkerThread
  <2>3. CASE ~ (u = m.from /\ s = m.server)
    BY <1>2, <2>1, <2>3
  <2>4. CASE u = m.from /\ s = m.server
    <3>1. k # m.op
      BY <1>3, <2>4, OneCall
    <3>2. pc[u] # k + 1
      BY <1>1, <2>2, <2>4, <3>1
    <3>3. QED
      BY <2>1, <3>2
  <2>5. QED
    BY <2>3, <2>4
<1>4. Stored'
  BY <1>3 DEF Stored
<1>5. QED
  BY <1>2, <1>4

(* A server that serves a request: a pull reads what was pushed before it.   *)
LEMMA ServeEarly ==
  ASSUME ContiguousIds, Placed, Reads, Early, NEW m \in net, Serve(m)
  PROVE  Placed' /\ Reads' /\ Early'
<1>1. UNCHANGED vars /\ UNCHANGED <<pc, stopped>> /\ m.where = "queued"
  BY DEF Serve, Queue
<1>2. IInv' /\ Freed' = Freed /\ at' = at
  BY <1>1, BarrierIdle DEF Early
<1>3. Together'
  BY <1>1, <1>2, TogetherStays DEF Early, Passed
<1>4. Placed'
  BY <1>1, <1>2 DEF Placed
<1>5. /\ m.from \in WorkerThread /\ m.server \in Server /\ m.op \in Nat
      /\ Calls(m.from, m.op, "push") \/ Calls(m.from, m.op, "pull")
  BY DEF Early, Messages
<1>6. m.server \in Proc
  BY <1>5 DEF Server
<1>7. CASE Fail(m.server, "no handle") /\ UNCHANGED <<net, store, read>>
  <2>1. Messages' /\ Stored'
    BY <1>1, <1>7, DataStays DEF Early
  <2>2. \A p \in Proc : failed'[p] = failed[p] \/ failed'[p] = "no handle"
    BY <1>6, <1>7 DEF Fail, Reads
  <2>3. failed' \in [Proc -> {None, "no app", "no handle", "no matrix"}]
    BY <1>6, <1>7 DEF Fail, Reads
  <2>4. Reads'
    BY <1>7, <2>2, <2>3 DEF Reads, RoundsAreSynchronous, Server
  <2>5. QED
    BY <1>1, <1>2, <1>3, <1>4, <2>1, <2>4 DEF Early
<1>8. CASE /\ Script[m.from][m.op] = "push"
           /\ store' = [store EXCEPT ![m.server] = store[m.server] \cup {<<m.from, m.op>>}]
           /\ net' = Moved(m, "answered")
           /\ UNCHANGED <<read, failed>>
  <2>1. Calls(m.from, m.op, "push")
    BY <1>5, <1>8 DEF Calls
  <2>2. Messages' /\ Stored'
    BY <1>1, <1>8, <2>1, PushStores DEF Early
  <2>3. Reads'
    BY <1>8 DEF Reads, RoundsAreSynchronous
  <2>4. QED
    BY <1>1, <1>2, <1>3, <1>4, <2>2, <2>3 DEF Early
<1>9. CASE Script[m.from][m.op] # "push"
  <2>1. Calls(m.from, m.op, "pull")
    BY <1>5, <1>9 DEF Calls
  <2>2. store[m.server] = Before(m.op) /\ store[m.server] # {}
    BY <1>1, <2>1, PullFinds
  <2>3. CASE app[<<m.server, 0>>] = "handling"
    <3>1. /\ read' = [read EXCEPT ![m.from][m.server] = [op |-> m.op, pushes |-> store[m.server]]]
          /\ net' = Moved(m, "answered")
          /\ UNCHANGED <<store, failed>>
      BY <1>9, <2>2, <2>3 DEF Serve
    <3>2. Messages' /\ Stored'
      BY <1>1, <2>1, <3>1, PullLeaves DEF Early
    <3>3. PICK r : r = [op |-> m.op, pushes |-> store[m.server]]
      OBVIOUS
    <3>4. /\ r \in [op : Nat, pushes : SUBSET (WorkerThread \X Nat)]
          /\ r.op = m.op /\ r.pushes = Before(r.op)
      BY <1>5, <2>2, <3>3 DEF Early, Stored
    <3>5. read' = [read EXCEPT ![m.from][m.server] = r]
      BY <3>1, <3>3
    <3>6. \A t \in WorkerThread, s \in Server :
            read'[t][s] = IF t = m.from /\ s = m.server THEN r ELSE read[t][s]
      BY <1>5, <3>5 DEF Reads
    <3>7. read' \in [WorkerThread -> [Server -> [op : Nat, pushes : SUBSET (WorkerThread \X Nat)]]]
      BY <1>5, <3>4, <3>5 DEF Reads
    <3>8. RoundsAreSynchronous'
      <4>1. ASSUME NEW t \in WorkerThread, NEW s \in Server
            PROVE  /\ read'[t][s].op # 0 => read'[t][s].pushes = Before(read'[t][s].op)
                   /\ failed'[s] # "no matrix"
        <5>1. /\ read[t][s].op # 0 => read[t][s].pushes = Before(read[t][s].op)
              /\ failed'[s] # "no matrix"
          BY <3>1 DEF Reads, RoundsAreSynchronous
        <5>2. CASE t = m.from /\ s = m.server
          <6>1. read'[t][s] = r
            BY <3>6, <5>2
          <6>2. QED
            BY <3>4, <5>1, <6>1
        <5>3. CASE ~ (t = m.from /\ s = m.server)
          <6>1. read'[t][s] = read[t][s]
            BY <3>6, <5>3
          <6>2. QED
            BY <5>1, <6>1
        <5>4. QED
          BY <5>2, <5>3
      <4>2. QED
        BY <4>1 DEF RoundsAreSynchronous
    <3>9. Reads'
      BY <3>1, <3>7, <3>8 DEF Reads
    <3>10. QED
      BY <1>1, <1>2, <1>3, <1>4, <3>2, <3>9 DEF Early
  <2>4. CASE app[<<m.server, 0>>] # "handling"
    BY <1>7, <2>4 DEF Serve
  <2>5. QED
    BY <2>3, <2>4
<1>10. QED
  BY <1>7, <1>8, <1>9 DEF Serve

(* A server that gives up on its application takes no request with it.       *)
LEMMA GiveUpEarly ==
  ASSUME ContiguousIds, Placed, Reads, Early, NEW m \in net, GiveUpOnApp(m)
  PROVE  Placed' /\ Reads' /\ Early'
<1>1. /\ UNCHANGED vars /\ UNCHANGED <<pc, net, store, read, stopped>>
      /\ failed' = [failed EXCEPT ![m.server] = "no app"]
  BY DEF GiveUpOnApp, Fail
<1>2. IInv' /\ Freed' = Freed /\ at' = at
  BY <1>1, BarrierIdle DEF Early
<1>3. Together'
  BY <1>1, <1>2, TogetherStays DEF Early, Passed
<1>4. Messages' /\ Stored'
  BY <1>1, DataStays DEF Early
<1>5. m.server \in Proc
  BY DEF Early, Messages, Server
<1>6. /\ \A p \in Proc : failed'[p] = failed[p] \/ failed'[p] = "no app"
      /\ failed' \in [Proc -> {None, "no app", "no handle", "no matrix"}]
  BY <1>1, <1>5 DEF Reads
<1>7. Reads'
  BY <1>1, <1>6 DEF Reads, RoundsAreSynchronous, Server
<1>8. QED
  BY <1>1, <1>2, <1>3, <1>4, <1>7 DEF Early, Placed

(* The request that completes a group, all of whose threads are then at the  *)
(* same call: they are set free together, and when it is the barrier of      *)
(* Finalize only responses are left.                                         *)
LEMMA CountEarly ==
  ASSUME Placed, Early, NEW t \in Thread, NEW g \in Group, CountBarrier(t, g)
  PROVE  Placed' /\ (Early' \/ Late')
<1>1. CountRequest(t, g) /\ UNCHANGED <<pc, net, store, stopped>> /\ at' = at
  BY DEF CountBarrier, CountRequest
<1>2. IInv'
  BY <1>1, IInvCountRequest DEF Early
<1>3. Placed'
  BY <1>1 DEF Placed
<1>4. Messages' /\ Stored'
  BY <1>1, DataStays DEF Early
<1>5. CASE Freed' = Freed
  <2>1. Together'
    BY <1>1, <1>5, TogetherStays DEF Early, Passed
  <2>2. QED
    BY <1>1, <1>2, <1>3, <1>4, <2>1 DEF Early
<1>6. CASE /\ \A u \in Member[g] : at[u] = g /\ u \notin Freed /\ <<u, g>> \notin reqs'
           /\ Freed' = Freed \cup Member[g]
  <2>1. t \in Member[g] /\ at[t] = g
    BY <1>1, <1>6, NoneAssumption DEF CountRequest, Early, IInv
  <2>2. Member[g] \subseteq Thread /\ g # None
    BY MemberShape, NoneAssumption
  <2>3. g = All \/ g = Workers
    BY <2>1, <2>2 DEF Placed
  <2>3a. Workers # All
    <3>1. "server" \in All /\ "server" \notin Workers
      BY DEF Workers, All, Roles
    <3>2. QED
      BY <3>1
  <2>4. \A u \in Thread : \A k : pc[u] > k => Passed(u, k) /\ Passed(u, k)'
    BY <1>1 DEF Passed
  <2>5. \A u \in Thread : \A k : Passed(u, k)' <=> Passed(u, k) \/ (pc[u] = k /\ u \in Member[g])
    BY <1>1, <1>6 DEF Passed
  <2>6. \A u \in Member[g] : \A k : Passed(u, k) <=> pc[u] > k
    BY <1>6 DEF Passed
  <2>7. \A u \in Thread : pc[u] \in Nat /\ pc[u] >= 1
    BY DEF Placed
  <2>8. CASE g = Workers
    <3>1. \A u \in Thread : u \in Member[g] <=> u \in WorkerThread
      BY <2>8 DEF Member, Workers, WorkerThread
    <3>2. \A u \in WorkerThread : u \in Thread /\ Calls(u, pc[u], "workers") /\ pc[u] < Last(u) /\ pc[u] > 2
      <4>1. ASSUME NEW u \in WorkerThread
            PROVE  u \in Thread /\ Calls(u, pc[u], "workers") /\ pc[u] < Last(u) /\ pc[u] > 2
        <5>1. u \in Thread /\ u \in Member[g]
          BY <3>1 DEF WorkerThread
        <5>2. at[u] = Workers /\ Workers # All /\ at[u] # None
          BY <1>6, <2>2, <2>3a, <2>8, <5>1
        <5>3. Calls(u, pc[u], "workers")
          BY <5>1, <5>2 DEF Placed
        <5>4. QED
          BY <5>1, <5>3, ScriptFacts
      <4>2. QED
        BY <4>1
    <3>3. \A u, v \in WorkerThread : pc[u] = pc[v]
      <4>1. ASSUME NEW u \in WorkerThread, NEW v \in WorkerThread, pc[v] > pc[u] PROVE FALSE
        <5>1. Calls(u, pc[u], "workers") /\ pc[u] <= Last(u) /\ u \in Member[g] /\ u \in Thread /\ v \in Thread
          BY <2>7, <3>1, <3>2, ScriptFacts
        <5>2. Calls(v, pc[u], "workers")
          BY <5>1, SameScripts
        <5>3. Passed(v, pc[u])
          BY <4>1 DEF Passed
        <5>4. Passed(u, pc[u])
          BY <5>2, <5>3 DEF Early, Together
        <5>5. QED
          BY <2>6, <2>7, <5>1, <5>4
      <4>2. QED
        BY <2>7, <3>2, <4>1
    <3>4. \A u \in Thread : Passed(u, 1)' <=> Passed(u, 1)
      BY <2>5, <3>1, <3>2
    <3>5. \A u \in Thread : ~ Passed(u, Last(u))'
      BY <2>5, <3>1, <3>2, ScriptFacts DEF Early, Together
    <3>6. ASSUME NEW u \in WorkerThread, NEW v \in WorkerThread, NEW k, Calls(u, k, "workers"), Passed(u, k)'
          PROVE  Passed(v, k)'
      <4>1. u \in Thread /\ v \in Thread /\ v \in Member[g]
        BY <3>1, <3>2
      <4>2. Passed(u, k) \/ pc[u] = k
        BY <2>5, <3>6, <4>1
      <4>3. CASE Passed(u, k)
        BY <2>5, <3>6, <4>1, <4>3 DEF Early, Together
      <4>4. CASE pc[u] = k
        BY <2>5, <3>3, <4>1, <4>4
      <4>5. QED
        BY <4>2, <4>3, <4>4
    <3>7. Together'
      BY <3>4, <3>5, <3>6 DEF Early, Together
    <3>8. QED
      BY <1>1, <1>2, <1>3, <1>4, <3>7 DEF Early
  <2>9. CASE g = All
    <3>1. \A u \in Thread : u \in Member[g]
      BY <2>9, ThreadShape, RoleAssumption DEF Member, All
    <3>2. \A u \in Thread : Calls(u, pc[u], "all") /\ (pc[u] = 1 \/ pc[u] = Last(u)) /\ at[u] = All
      <4>1. ASSUME NEW u \in Thread
            PROVE  Calls(u, pc[u], "all") /\ (pc[u] = 1 \/ pc[u] = Last(u)) /\ at[u] = All
        <5>1. at[u] = All /\ Workers # All /\ at[u] # None
          BY <1>6, <2>2, <2>3a, <2>9, <3>1
        <5>2. Calls(u, pc[u], "all")
          BY <5>1 DEF Placed
        <5>3. QED
          BY <5>1, <5>2, ScriptFacts
      <4>2. QED
        BY <4>1
    <3>3. CASE \E u \in Thread : pc[u] = 1
      <4>1. PICK u \in Thread : pc[u] = 1
        BY <3>3
      <4>2. ~ Passed(u, 1)
        BY <2>6, <3>1, <4>1
      <4>3. \A v \in Thread : ~ Passed(v, 1)
        BY <4>2 DEF Early, Together
      <4>4. \A v \in Thread : pc[v] = 1
        BY <2>6, <2>7, <3>1, <4>3
      <4>5. \A v \in Thread : Passed(v, 1)'
        BY <2>5, <3>1, <4>4
      <4>6. \A v \in Thread : ~ Passed(v, Last(v))'
        BY <2>5, <4>4, ScriptFacts DEF Early, Together
      <4>7. ASSUME NEW v \in WorkerThread, NEW k, Calls(v, k, "workers"), Passed(v, k)'
            PROVE  FALSE
        <5>1. v \in Thread /\ k \in Nat /\ k > 2
          BY <4>7, ScriptFacts DEF WorkerThread
        <5>2. Passed(v, k) \/ pc[v] = k
          BY <2>5, <4>7, <5>1
        <5>3. QED
          BY <2>6, <3>1, <4>4, <5>1, <5>2
      <4>8. Together'
        BY <4>5, <4>6, <4>7 DEF Together
      <4>9. QED
        BY <1>1, <1>2, <1>3, <1>4, <4>8 DEF Early
    <3>4. CASE \A u \in Thread : pc[u] = Last(u)
      <4>1. reqs' = {}
        <5>1. reqs' \subseteq Thread \X Group
          BY <1>2 DEF IInv, TypeOK
        <5>2. ASSUME NEW u \in Thread, NEW h \in Group, <<u, h>> \in reqs' PROVE FALSE
          <6>1. at'[u] = h
            BY <1>2, <5>2 DEF IInv
          <6>2. h = g /\ u \in Member[g]
            BY <1>1, <2>9, <3>1, <3>2, <6>1
          <6>3. QED
            BY <1>6, <5>2, <6>2
        <5>3. QED
          BY <5>1, <5>2
      <4>2. net' = {}
        <5>1. ASSUME NEW m \in net PROVE FALSE
          <6>1. /\ m.from \in WorkerThread /\ pc[m.from] = m.op + 1
                /\ Calls(m.from, m.op, "push") \/ Calls(m.from, m.op, "pull")
            BY DEF Early, Messages
          <6>2. Calls(m.from, pc[m.from], "wait") /\ m.from \in Thread
            BY <6>1, FitCalls DEF WorkerThread
          <6>3. Calls(m.from, pc[m.from], "all")
            BY <3>2, <6>2
          <6>4. QED
            BY <6>2, <6>3, OneCall
        <5>2. QED
          BY <1>1, <5>1
      <4>3. resps' \subseteq Proc
        BY <1>2 DEF IInv, TypeOK
      <4>4. \A p \in resps' : \A c \in Customers[p] : at'[<<p, c>>] # None /\ <<p, c>> \notin done'
        BY <1>2, <4>3, NoneAssumption DEF IInv, ResponseFindsAllWaiting
      <4>5. \A u \in Thread : pc'[u] >= Last(u) /\ (pc'[u] = Last(u) => at'[u] = All)
        BY <1>1, <2>7, <3>2, <3>4
      <4>6. stopped' = {}
        BY <1>1 DEF Early
      <4>7. Late'
        BY <4>1, <4>2, <4>3, <4>4, <4>5, <4>6 DEF Late
      <4>8. QED
        BY <1>3, <4>7
    <3>5. QED
      BY <3>2, <3>3, <3>4
  <2>10. QED
    BY <2>3, <2>8, <2>9
<1>7. QED
  BY <1>1, <1>5, <1>6, FreedCount DEF Early

----------------------------------------------------------------------------
(* After the barrier of Finalize. *)

(* What is left to be called are the ends.                                   *)
LEMMA LateCalls ==
  ASSUME Placed, Late, NEW t \in Thread, NEW op, Calls(t, pc[t], op)
  PROVE  \/ op = "all" /\ at[t] = All
         \/ op \in {"stop", "clear", "destroy"} /\ at[t] = None /\ pc[t] > Last(t)
<1>1. /\ pc[t] \in Nat /\ pc[t] >= Last(t) /\ (pc[t] = Last(t) => at[t] = All)
      /\ Last(t) \in Nat /\ Last(t) > 1 /\ Calls(t, Last(t), "all")
  BY ScriptFacts DEF Late, Placed
<1>2. CASE pc[t] = Last(t)
  BY <1>1, <1>2, OneCall
<1>3. CASE pc[t] > Last(t)
  <2>1. op \in {"stop", "clear", "destroy"}
    BY <1>3, ScriptFacts
  <2>2. ~ Calls(t, pc[t], "all") /\ ~ Calls(t, pc[t], "workers")
    BY <2>1, OneCall
  <2>3. at[t] = None
    BY <2>2 DEF Placed
  <2>4. QED
    BY <1>3, <2>1, <2>3
<1>4. QED
  BY <1>1, <1>2, <1>3

(* To leave the last barrier, once set free, is to go on.                    *)
LEMMA LeaveLate ==
  ASSUME Placed, Late, NEW t \in Thread, LeaveBarrier(t)
  PROVE  Placed' /\ Late'
<1>1. /\ at' = [at EXCEPT ![t] = None] /\ t \in done /\ at[t] # None
      /\ pc' = [pc EXCEPT ![t] = pc[t] + 1]
      /\ UNCHANGED <<done, reqs, resps, net, stopped>>
  BY DEF LeaveBarrier, Leave, Step, netVars
<1>2. pc[t] \in Nat /\ pc'[t] = pc[t] + 1
  BY <1>1 DEF Placed
<1>3. Placed'
  BY <1>1, <1>2 DEF Placed
<1>4. \A u \in Thread : Last(u) \in Nat
  BY ScriptFacts
<1>5. \A u \in Thread : pc'[u] >= Last(u) /\ (pc'[u] = Last(u) => at'[u] = All)
  BY <1>1, <1>2, <1>4 DEF Late, Placed
<1>6. \A p \in resps : \A c \in Customers[p] : at'[<<p, c>>] # None
  BY <1>1, ThreadShape DEF Late, Placed
<1>7. \A p \in stopped : <<p, 0>> \in Thread
  BY ThreadShape, JobAssumption DEF Late
<1>8. \A p \in stopped : pc'[<<p, 0>>] > Last(<<p, 0>>)
  <2>1. ASSUME NEW p \in stopped PROVE pc'[<<p, 0>>] > Last(<<p, 0>>)
    <3>1. PICK u \in Thread : u = <<p, 0>>
      BY <1>7
    <3>2. pc[u] > Last(u) /\ pc[u] \in Nat /\ Last(u) \in Nat
      BY <3>1, ScriptFacts DEF Late, Placed
    <3>3. pc'[u] = pc[u] \/ pc'[u] = pc[u] + 1
      BY <1>1, <1>2, <1>4 DEF Placed
    <3>4. pc'[u] > Last(u)
      BY <3>2, <3>3
    <3>5. QED
      BY <3>1, <3>4
  <2>2. QED
    BY <2>1
<1>9. QED
  BY <1>1, <1>3, <1>5, <1>6, <1>8 DEF Late

(* A step of the ends takes nothing away that is still of use.               *)
LEMMA EndsLate ==
  ASSUME Placed, Late, NEW t \in Thread, NEW op \in {"stop", "clear", "destroy"},
         Calls(t, pc[t], op), Step(t), at' = at, done' \subseteq done,
         reqs' \subseteq reqs, resps' \subseteq resps, net' \subseteq net,
         stopped' = stopped \/ (op = "stop" /\ stopped' = stopped \cup {t[1]})
  PROVE  Placed' /\ Late'
<1>1. at[t] = None /\ pc[t] > Last(t)
  BY LateCalls
<1>2. pc' = [pc EXCEPT ![t] = pc[t] + 1] /\ pc[t] \in Nat /\ pc'[t] = pc[t] + 1 /\ Last(t) \in Nat
  BY ScriptFacts DEF Placed, Step
<1>3. Placed'
  BY <1>1, <1>2 DEF Placed
<1>4. \A u \in Thread : pc'[u] >= Last(u) /\ (pc'[u] = Last(u) => at'[u] = All)
  BY <1>1, <1>2 DEF Late, Placed
<1>5. \A p \in stopped : <<p, 0>> \in Thread
  BY ThreadShape, JobAssumption DEF Late
<1>6. \A p \in stopped : pc'[<<p, 0>>] > Last(<<p, 0>>)
  <2>1. ASSUME NEW p \in stopped PROVE pc'[<<p, 0>>] > Last(<<p, 0>>)
    <3>1. PICK u \in Thread : u = <<p, 0>>
      BY <1>5
    <3>2. pc[u] > Last(u) /\ pc[u] \in Nat /\ Last(u) \in Nat
      BY <3>1, ScriptFacts DEF Late, Placed
    <3>3. pc'[u] = pc[u] \/ pc'[u] = pc[u] + 1
      BY <1>1, <1>2 DEF Placed
    <3>4. pc'[u] > Last(u)
      BY <3>2, <3>3
    <3>5. QED
      BY <3>1, <3>4
  <2>2. QED
    BY <2>1
<1>7. ASSUME op = "stop" PROVE t = <<t[1], 0>> /\ t[1] \in Proc
  BY <1>7, ScriptFacts, ThreadShape
<1>8. stopped' \subseteq Proc /\ \A p \in stopped' : pc'[<<p, 0>>] > Last(<<p, 0>>)
  BY <1>1, <1>2, <1>6, <1>7 DEF Late
<1>9. QED
  BY <1>3, <1>4, <1>8 DEF Late

(* A response that arrives sets free its own process.                        *)
LEMMA ManageLate ==
  ASSUME Placed, Late, NEW p \in Proc, ManageBarrier(p)
  PROVE  Placed' /\ Late'
<1>1. /\ resps' = resps \ {p} /\ \E C : done' = done \cup {<<p, c>> : c \in C}
      /\ UNCHANGED <<at, pc, reqs, net, stopped>>
  BY DEF ManageBarrier, Manage
<1>2. \A q \in resps' : \A c \in Customers[q] : at'[<<q, c>>] # None /\ <<q, c>> \notin done'
  BY <1>1 DEF Late
<1>3. QED
  BY <1>1, <1>2 DEF Late, Placed

----------------------------------------------------------------------------
(* The invariant holds of every job. *)

(* All threads are at their first call.                                     *)
LEMMA JobInitially == JobInit => JobInv
<1> SUFFICES ASSUME JobInit PROVE JobInv
  OBVIOUS
<1>1. IInv
  BY IInvInit DEF JobInit
<1>2. /\ pc = [t \in Thread |-> 1] /\ at = [t \in Thread |-> None] /\ net = {} /\ stopped = {}
      /\ store = [s \in Server |-> {}]
      /\ read = [t \in WorkerThread |-> [s \in Server |-> [op |-> 0, pushes |-> {}]]]
      /\ failed = [p \in Proc |-> None]
  BY DEF JobInit, Init
<1>3. Placed
  BY <1>2 DEF Placed
<1>4. Freed = {}
  BY <1>2 DEF Freed
<1>5. Together
  BY <1>2, <1>4, ScriptFacts DEF Together, Passed, WorkerThread
<1>6. Messages
  BY <1>2 DEF Messages
<1>7. ASSUME NEW s \in Server, NEW t \in WorkerThread, NEW k, Calls(t, k, "push")
      PROVE  pc[t] = 1 /\ k > 2 /\ k \in Nat
  BY <1>2, <1>7, ScriptFacts DEF WorkerThread
<1>8. Stored
  BY <1>2, <1>7 DEF Stored
<1>9. Reads
  <2>1. failed \in [Proc -> {None, "no app", "no handle", "no matrix"}]
    BY <1>2
  <2>2. \A s \in Server : failed[s] # "no matrix"
    BY <1>2, JobAssumption DEF Server
  <2>3. \A t \in WorkerThread, s \in Server : read[t][s] = [op |-> 0, pushes |-> {}]
    BY <1>2
  <2>4. read \in [WorkerThread -> [Server -> [op : Nat, pushes : SUBSET (WorkerThread \X Nat)]]]
    BY <1>2
  <2>5. \A t \in WorkerThread, s \in Server : read[t][s].op = 0
    BY <2>3
  <2>6. RoundsAreSynchronous
    BY <2>2, <2>5 DEF RoundsAreSynchronous
  <2>7. QED
    BY <2>1, <2>4, <2>6 DEF Reads
<1>10. QED
  BY <1>1, <1>2, <1>3, <1>5, <1>6, <1>8, <1>9 DEF JobInv, Early

(* Before the barrier of Finalize every step keeps the invariant; the last   *)
(* that a group waited for may end this phase.                               *)
LEMMA EarlyNext ==
  ASSUME ContiguousIds, Placed, Reads, Early, JobNext
  PROVE  JobInv'
<1>1. ASSUME UNCHANGED <<read, failed>> PROVE Reads'
  BY <1>1 DEF Reads, RoundsAreSynchronous
<1>2. ASSUME NEW t \in Thread, EnterBarrier(t) PROVE JobInv'
  BY <1>1, <1>2, EnterEarly DEF JobInv, EnterBarrier
<1>3. ASSUME NEW t \in Thread, LeaveBarrier(t) PROVE JobInv'
  BY <1>1, <1>3, LeaveEarly DEF JobInv, LeaveBarrier
<1>4. ASSUME NEW t \in Thread, Create(t) \/ SetHandle(t) PROVE JobInv'
  BY <1>1, <1>4, CreateEarly DEF JobInv, Create, SetHandle
<1>5. ASSUME NEW t \in Thread, Destroy(t) \/ Stop(t) \/ Clear(t) PROVE FALSE
  <2>1. PICK op \in {"stop", "clear", "destroy"} : Calls(t, pc[t], op)
    BY <1>5 DEF Destroy, Stop, Clear, Doing, Calls
  <2>2. QED
    BY <2>1, NotDownYet DEF Early
<1>6. ASSUME NEW t \in Thread, Request(t) PROVE JobInv'
  BY <1>1, <1>6, RequestEarly DEF JobInv, Request
<1>7. ASSUME NEW t \in Thread, Wait(t) PROVE JobInv'
  BY <1>1, <1>7, WaitEarly DEF JobInv, Wait
<1>8. ASSUME NEW t \in Thread, NEW g \in Group, CountBarrier(t, g) PROVE JobInv'
  BY <1>1, <1>8, CountEarly DEF JobInv, CountBarrier
<1>9. ASSUME NEW p \in Proc, ManageBarrier(p) PROVE JobInv'
  BY <1>1, <1>9, ManageEarly DEF JobInv, ManageBarrier
<1>10. ASSUME NEW m \in net, ReceiveRequest(m) \/ FindApp(m) PROVE JobInv'
  BY <1>1, <1>10, QueueEarly DEF JobInv, ReceiveRequest, FindApp
<1>11. ASSUME NEW m \in net, GiveUpOnApp(m) PROVE JobInv'
  BY <1>11, GiveUpEarly DEF JobInv
<1>12. ASSUME NEW m \in net, Serve(m) PROVE JobInv'
  BY <1>12, ServeEarly DEF JobInv
<1>13. ASSUME NEW m \in net, ReceiveAnswer(m) PROVE JobInv'
  BY <1>1, <1>13, AnswerEarly DEF JobInv, ReceiveAnswer
<1>14. QED
  BY <1>2, <1>3, <1>4, <1>5, <1>6, <1>7, <1>8, <1>9, <1>10, <1>11, <1>12, <1>13 DEF JobNext

(* After the barrier of Finalize.                                           *)
LEMMA LateNext ==
  ASSUME Placed, Reads, Late, JobNext
  PROVE  JobInv'
<1>1. ASSUME UNCHANGED <<read, failed>> PROVE Reads'
  BY <1>1 DEF Reads, RoundsAreSynchronous
<1>2. ASSUME NEW t \in Thread, NEW op, op \notin {"all", "stop", "clear", "destroy"}, Doing(t, op)
      PROVE  FALSE
  <2>1. Calls(t, pc[t], op)
    BY <1>2 DEF Doing, Calls
  <2>2. QED
    BY <1>2, <2>1, LateCalls
<1>3. ASSUME NEW t \in Thread, EnterBarrier(t) PROVE FALSE
  <2>1. at[t] = None /\ Doing(t, "all")
    BY <1>2, <1>3 DEF EnterBarrier, Enter
  <2>2. at[t] = All
    BY <2>1, LateCalls DEF Doing, Calls
  <2>3. QED
    BY <2>1, <2>2, JobAssumption, NoneAssumption
<1>4. ASSUME NEW t \in Thread, LeaveBarrier(t) PROVE JobInv'
  BY <1>1, <1>4, LeaveLate DEF JobInv, LeaveBarrier
<1>5. ASSUME NEW t \in Thread, Create(t) \/ SetHandle(t) \/ Request(t) \/ Wait(t) PROVE FALSE
  BY <1>2, <1>5 DEF Create, SetHandle, Request, Wait
<1>6. ASSUME NEW t \in Thread, Destroy(t) PROVE JobInv'
  <2>1. /\ Calls(t, pc[t], "destroy") /\ Step(t) /\ net' \subseteq net
        /\ UNCHANGED <<at, done, reqs, resps, stopped, read, failed>>
    BY <1>6 DEF Destroy, Doing, Calls, vars
  <2>2. QED
    BY <1>1, <2>1, EndsLate DEF JobInv
<1>7. ASSUME NEW t \in Thread, Stop(t) PROVE JobInv'
  <2>1. /\ Calls(t, pc[t], "stop") /\ Step(t) /\ stopped' = stopped \cup {t[1]}
        /\ resps' \subseteq resps /\ reqs' \subseteq reqs /\ net' \subseteq net
        /\ UNCHANGED <<at, done, read, failed>>
    BY <1>7 DEF Stop, CloseSockets, Doing, Calls
  <2>2. QED
    BY <1>1, <2>1, EndsLate DEF JobInv
<1>8. ASSUME NEW t \in Thread, Clear(t) PROVE JobInv'
  <2>1. /\ Calls(t, pc[t], "clear") /\ Step(t) /\ done' \subseteq done
        /\ UNCHANGED <<at, reqs, resps, net, stopped, read, failed>>
    BY <1>8 DEF Clear, Doing, Calls, netVars
  <2>2. QED
    BY <1>1, <2>1, EndsLate DEF JobInv
<1>9. ASSUME NEW t \in Thread, NEW g \in Group, CountBarrier(t, g) PROVE FALSE
  BY <1>9 DEF CountBarrier, CountRequest, Late
<1>10. ASSUME NEW p \in Proc, ManageBarrier(p) PROVE JobInv'
  BY <1>1, <1>10, ManageLate DEF JobInv, ManageBarrier
<1>11. net = {}
  BY DEF Late
<1>12. QED
  BY <1>3, <1>4, <1>5, <1>6, <1>7, <1>8, <1>9, <1>10, <1>11 DEF JobNext

(* Any step of a job keeps the invariant.                                   *)
LEMMA JobStep == ContiguousIds /\ JobInv /\ [JobNext]_jobVars => JobInv'
<1> SUFFICES ASSUME ContiguousIds, JobInv, [JobNext]_jobVars PROVE JobInv'
  OBVIOUS
<1>1. CASE JobNext
  BY <1>1, EarlyNext, LateNext DEF JobInv
<1>2. CASE UNCHANGED jobVars
  <2>1. UNCHANGED vars /\ UNCHANGED <<pc, net, store, read, stopped, failed>>
    BY <1>2 DEF jobVars
  <2>2. Placed' /\ Reads'
    BY <2>1 DEF vars, Placed, Reads, RoundsAreSynchronous, JobInv
  <2>3. CASE Early
    <3>1. IInv' /\ Freed' = Freed
      BY <2>1, <2>3, BarrierIdle DEF Early
    <3>2. Together'
      BY <2>1, <2>3, <3>1, TogetherStays DEF Early, Passed
    <3>3. Messages' /\ Stored'
      BY <2>1, <2>3, DataStays DEF Early
    <3>4. QED
      BY <2>1, <2>2, <2>3, <3>1, <3>2, <3>3 DEF Early, JobInv
  <2>4. CASE Late
    BY <2>1, <2>2, <2>4 DEF vars, Late, JobInv
  <2>5. QED
    BY <2>3, <2>4 DEF JobInv
<1>3. QED
  BY <1>1, <1>2

(* Once a process has stopped, all threads are past their last barrier or    *)
(* asleep in it, and only the scheduler's responses to others are left.      *)
LEMMA StopsQuietly == JobInv => QuietStop
<1> SUFFICES ASSUME JobInv, NEW p \in stopped
             PROVE  /\ \A m \in net : m.from[1] # p /\ m.server # p
                    /\ \A r \in reqs : r[1][1] # p /\ p # Scheduler
                    /\ p \notin resps
                    /\ \A t \in WorkerThread :
                         at[t] \in {None, All} /\ pc[t] > Len(Script[t]) - Len(Finalize(t[2])) - 1
  BY DEF QuietStop
<1>1. Placed /\ Late
  BY DEF JobInv, Early
<1>2. net = {} /\ reqs = {}
  BY <1>1 DEF Late
<1>3. p \notin resps
  <2>1. <<p, 0>> \in Thread /\ 0 \in Customers[p]
    BY <1>1, ThreadShape, JobAssumption DEF Late
  <2>2. PICK u \in Thread : u = <<p, 0>>
    BY <2>1
  <2>3. pc[u] > Last(u) /\ pc[u] \in Nat
    BY <1>1, <2>2 DEF Late, Placed
  <2>4. Last(u) \in Nat /\ Last(u) > 1
    BY ScriptFacts
  <2>5. ~ Calls(u, pc[u], "all") /\ ~ Calls(u, pc[u], "workers")
    BY <2>3, <2>4, ScriptFacts
  <2>6. at[u] = None
    BY <1>1, <2>5 DEF Placed
  <2>7. QED
    BY <1>1, <2>1, <2>2, <2>6 DEF Late
<1>4. ASSUME NEW t \in WorkerThread
      PROVE  at[t] \in {None, All} /\ pc[t] > Len(Script[t]) - Len(Finalize(t[2])) - 1
  <2>1. PICK N : N = 6 * (Iterations + 1)
    OBVIOUS
  <2>2. /\ N \in Nat /\ Last(t) = N + 3 /\ t \in Thread
        /\ Len(Script[t]) = N + 3 + Len(Finalize(t[2])) /\ Len(Finalize(t[2])) \in {1, 3}
    <3>1. N \in Nat /\ Last(t) = N + 3 /\ t \in Thread
      BY <2>1, WorkerScript DEF Last, WorkerThread
    <3>2. CASE t[2] = 0
      <4>1. Len(Script[t]) = N + 6
        BY <2>1, <3>2, WorkerScript
      <4>2. Len(Finalize(t[2])) = 3
        BY <3>2, TailFacts
      <4>3. QED
        BY <3>1, <4>1, <4>2
    <3>3. CASE t[2] # 0
      <4>1. Len(Script[t]) = N + 4
        BY <2>1, <3>3, WorkerScript
      <4>2. Len(Finalize(t[2])) = 1
        BY <3>3, TailFacts
      <4>3. QED
        BY <3>1, <4>1, <4>2
    <3>4. QED
      BY <3>2, <3>3
  <2>3. pc[t] \in Nat /\ pc[t] >= Last(t)
    BY <1>1, <2>2 DEF Late, Placed
  <2>4. ~ Calls(t, pc[t], "workers")
    BY <2>2, <2>3, ScriptFacts
  <2>5. at[t] \in {None, All}
    BY <1>1, <2>2, <2>4 DEF Placed
  <2>6. QED
    BY <2>2, <2>3, <2>5
<1>5. QED
  BY <1>2, <1>3, <1>4

(* Training is synchronous: for any numbers of servers, workers, customers   *)
(* and iterations, a pull of Client::PullAll finds at every server the       *)
(* pushes that all workers make before it in their programs, and no other,   *)
(* and no server is asked for a matrix that it does not have.                *)
THEOREM TrainingIsSynchronous == ContiguousIds => (JobSpec => []RoundsAreSynchronous)
<1> SUFFICES ASSUME ContiguousIds PROVE JobSpec => []RoundsAreSynchronous
  OBVIOUS
<1>1. JobInit => JobInv
  BY JobInitially
<1>2. JobInv /\ [JobNext]_jobVars => JobInv'
  BY JobStep
<1>3. JobInv => RoundsAreSynchronous
  BY DEF JobInv, Reads
<1>4. QED
  BY <1>1, <1>2, <1>3, PTL DEF JobSpec

(* The barrier of Postoffice::Finalize lets Van::Stop close with no linger:  *)
(* when a process stops nothing that it sent or that is for it is under way  *)
(* but the scheduler's responses, and no worker will ask for anything more.  *)
THEOREM StopIsQuiet == ContiguousIds => (JobSpec => []QuietStop)
<1> SUFFICES ASSUME ContiguousIds PROVE JobSpec => []QuietStop
  OBVIOUS
<1>1. JobInit => JobInv
  BY JobInitially
<1>2. JobInv /\ [JobNext]_jobVars => JobInv'
  BY JobStep
<1>3. JobInv => QuietStop
  BY StopsQuietly
<1>4. QED
  BY <1>1, <1>2, <1>3, PTL DEF JobSpec

=============================================================================
