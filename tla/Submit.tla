------------------------------- MODULE Submit ------------------------------
(* tracker.submit and the launcher dmlc_local.py: a job with servers runs as *)
(* processes of ps-lite (module Job), one of them the scheduler that         *)
(* PSTracker starts, a job without as workers of rabit under a RabitTracker  *)
(* (module Tracker). submit returns when the scheduler's process, or the     *)
(* tracker's thread, has ended; the threads of the launcher are daemons.     *)
EXTENDS Job

CONSTANTS Slave, Host, MaxErrors, MaxBreaks  \* of Tracker

ASSUME SubmitAssumption ==
  /\ IsFiniteSet(Slave) /\ Slave # {}
  /\ Host \in [Slave -> Nat]
  /\ MaxErrors \in Nat /\ MaxBreaks \in Nat

VARIABLES nserver, slave, tracker, faults

T == INSTANCE Tracker

submitVars == <<jobVars, nserver, slave, tracker, faults>>

SubmitInit ==
  /\ nserver \in {0, Cardinality(Server)}
  /\ JobInit
  /\ T!Init

RunRabit == nserver = 0 /\ T!Next /\ UNCHANGED <<jobVars, nserver>>
RunPS == nserver # 0 /\ JobNext /\ UNCHANGED <<nserver, slave, tracker, faults>>

SubmitNext == RunRabit \/ RunPS

(* Every script is finite and every message is used up, so it is enough that *)
(* the job does not stop while one of its threads, or a message, can go on.  *)
SubmitSpec == SubmitInit /\ [][SubmitNext]_submitVars /\ WF_submitVars(SubmitNext)

----------------------------------------------------------------------------
(* The tracker's counts and links, see module Tracker.                       *)
LinksMatch == T!LinksMatch

TrackerReturns == tracker.ended # None \/ Cardinality(tracker.shutdown) = T!nslave

(* Every job comes to an end: submit returns, and each thread of each        *)
(* process gets through its script. What may keep a thread from it is a      *)
(* server that has ended while the job started, a response that the          *)
(* scheduler had not got out when it stopped, or that customer 0 of its      *)
(* process was faster in clearing barrier_done_.                             *)
SubmitReturns ==
  <>(\/ nserver = 0 /\ TrackerReturns
     \/ nserver # 0 /\ \E s \in Server : ~ Alive(s)
     \/ nserver # 0 /\ Done(<<Scheduler, 0>>) /\ \A t \in Thread :
          Done(t) \/ t[1] \in lost \/ (t[2] # 0 /\ t[1] \in stopped /\ keys[t[1]] = {}))
=============================================================================
