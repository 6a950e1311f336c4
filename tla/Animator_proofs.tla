--------------------------- MODULE Animator_proofs ---------------------------
(* Proofs about module Animator, for any signals and any stopping threads.  *)
EXTENDS Animator, TLAPS

\* Where the destructor is, and whether it has set m_stop.
StopSet ==
    /\ m_stop <=> ui \in {"stopNotify", "join", "destroyed"}
    /\ worker = "exited" => m_stop

\* The inductive invariant.  PostsOnlyRegistered needs to know that nothing is
\* left to post outside the locked block.
Inv ==
    /\ TypeOK
    /\ UniqueSignals
    /\ NoLostWakeup
    /\ PostsOnlyRegistered
    /\ StopSet
    /\ Unlocked => unposted = {}

LEMMA InitInv == Init => Inv
<1> SUFFICES ASSUME Init PROVE Inv
    OBVIOUS
<1>1. TypeOK
      BY DEF Init, TypeOK
<1>2. UniqueSignals /\ NoLostWakeup /\ PostsOnlyRegistered
      BY DEF Init, UniqueSignals, NoLostWakeup, PostsOnlyRegistered
<1>3. StopSet /\ unposted = {}
      BY DEF Init, StopSet
<1>4. QED BY <1>1, <1>2, <1>3 DEF Inv

\* The worker's steps leave the vector and m_stop alone; the predicate that it
\* tests before it blocks is the one NoLostWakeup speaks of.
LEMMA WorkerInv ==
    ASSUME Inv, WorkerStep \/ SpuriousWakeup
    PROVE  Inv'
<1> USE DEF Inv, TypeOK, UniqueSignals, NoLostWakeup, PostsOnlyRegistered, StopSet,
            Unlocked, HasWork, Registered
<1>1. CASE CheckPredicate
      BY <1>1 DEF CheckPredicate
<1>2. CASE UnlockThenSleep
      BY <1>2 DEF UnlockThenSleep
<1>3. CASE SleepOver
      BY <1>3 DEF SleepOver
<1>4. ASSUME NEW s \in Signals, PostEvent(s) PROVE Inv'
      BY <1>4 DEF PostEvent
<1>5. CASE SpuriousWakeup
      BY <1>5 DEF SpuriousWakeup
<1>6. QED BY <1>1, <1>2, <1>3, <1>4, <1>5 DEF WorkerStep

\* start() and stop() change the vector only while the worker is not posting,
\* and owe a notification afterwards.
LEMMA CallerInv ==
    ASSUME Inv,
           \/ \E s \in Signals : Start(s)
           \/ StartNotify
           \/ \E t \in Stoppers, s \in Signals : Stop(t, s)
           \/ \E t \in Stoppers : StopNotify(t)
    PROVE  Inv'
<1> USE DEF Inv, TypeOK, UniqueSignals, NoLostWakeup, PostsOnlyRegistered, StopSet,
            Unlocked, HasWork, Registered
<1>1. ASSUME NEW s \in Signals, Start(s) PROVE Inv'
      BY <1>1 DEF Start
<1>2. CASE StartNotify
      BY <1>2 DEF StartNotify, NotifyOne
<1>3. ASSUME NEW t \in Stoppers, NEW s \in Signals, Stop(t, s) PROVE Inv'
      BY <1>3 DEF Stop
<1>4. ASSUME NEW t \in Stoppers, StopNotify(t) PROVE Inv'
      BY <1>4 DEF StopNotify, NotifyOne
<1>5. QED BY <1>1, <1>2, <1>3, <1>4

LEMMA DestructorInv ==
    ASSUME Inv, Exit \/ DestructorStop \/ DestructorNotify \/ Join \/ Destroyed
    PROVE  Inv'
<1> USE DEF Inv, TypeOK, UniqueSignals, NoLostWakeup, PostsOnlyRegistered, StopSet,
            Unlocked, HasWork, Registered
<1>1. CASE Exit
      BY <1>1 DEF Exit
<1>2. CASE DestructorStop
      BY <1>2 DEF DestructorStop
<1>3. CASE DestructorNotify
      BY <1>3 DEF DestructorNotify, NotifyOne
<1>4. CASE Join
      BY <1>4 DEF Join
<1>5. CASE Destroyed
      BY <1>5 DEF Destroyed, vars
<1>6. QED BY <1>1, <1>2, <1>3, <1>4, <1>5

\* Every step keeps the inductive invariant.
LEMMA NextInv == Inv /\ [Next]_vars => Inv'
<1> SUFFICES ASSUME Inv, [Next]_vars PROVE Inv'
    OBVIOUS
<1>1. CASE Next
      BY <1>1, WorkerInv, CallerInv, DestructorInv DEF Next
<1>2. CASE UNCHANGED vars
      BY <1>2 DEF vars, Inv, TypeOK, UniqueSignals, NoLostWakeup, PostsOnlyRegistered,
                  StopSet, Unlocked, HasWork, Registered
<1>3. QED BY <1>1, <1>2

LEMMA InvHolds == Spec => []Inv
BY InitInv, NextInv, PTL DEF Spec

\* The animator's variables always have their types.
THEOREM TypeCorrect == Spec => []TypeOK
BY InvHolds, PTL DEF Inv

\* However many threads stop signals, start() never registers one twice.
THEOREM SignalsStayUnique == Spec => []UniqueSignals
BY InvHolds, PTL DEF Inv

\* The worker is never left blocked with work to do and nobody to notify it.
THEOREM WakeupsAreNotLost == Spec => []NoLostWakeup
BY InvHolds, PTL DEF Inv

\* The worker's for_each never reaches an entry that stop() has erased.
THEOREM PostsAreRegistered == Spec => []PostsOnlyRegistered
BY InvHolds, PTL DEF Inv
=============================================================================
