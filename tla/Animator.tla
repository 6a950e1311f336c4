------------------------------ MODULE Animator ------------------------------
(***************************************************************************)
(* The spinner thread of main_component.hpp: a worker blocked on a         *)
(* condition variable until some signal is registered, which then posts    *)
(* every registered signal to the screen each 0.2 s.  Signals are          *)
(* registered by the UI thread (start), removed by the library's threads   *)
(* (stop), and the worker is joined by the destructor on the UI thread.    *)
(***************************************************************************)
EXTENDS Naturals, FiniteSets

CONSTANTS
    Signals,    \* the event names passed to start() and stop()
    Stoppers    \* the library threads that call stop()

VARIABLES
    m_signals,  \* how often each signal occurs in the vector m_signals
    m_stop,     \* m_stop
    worker,     \* where the worker is; it owns m_m exactly while "posting"
    unposted,   \* what std::for_each has still to visit while "posting"
    ui,         \* where the UI thread is in start() or ~Animator()
    stopper     \* where each library thread is in stop()

vars == <<m_signals, m_stop, worker, unposted, ui, stopper>>

TypeOK ==
    /\ m_signals \in [Signals -> Nat]
    /\ m_stop \in BOOLEAN
    /\ worker \in {"lock", "blocked", "posting", "sleep", "exited"}
    /\ unposted \subseteq Signals
    /\ ui \in {"loop", "startNotify", "exit", "stopNotify", "join", "destroyed"}
    /\ stopper \in [Stoppers -> {"out", "notify"}]

Init ==
    /\ m_signals = [s \in Signals |-> 0]
    /\ m_stop = FALSE
    /\ worker = "lock"
    /\ unposted = {}
    /\ ui = "loop"
    /\ stopper = [t \in Stoppers |-> "out"]

-----------------------------------------------------------------------------
\* The mutex m_m is held over several steps by the worker only; every other
\* critical section is short and is one step.
Unlocked == worker # "posting"

Registered == {s \in Signals : m_signals[s] > 0}

\* The predicate handed to m_cv.wait.
HasWork == Registered # {} \/ m_stop

\* notify_one reaches the worker only if it is blocked at that moment; a woken
\* worker must take m_m and test the predicate again.
NotifyOne == worker' = IF worker = "blocked" THEN "lock" ELSE worker

\* The worker owns m_m and tests the predicate: wait, leave or post.
CheckPredicate ==
    /\ worker = "lock"
    /\ \/ ~HasWork /\ worker' = "blocked" /\ UNCHANGED unposted
       \/ m_stop /\ worker' = "exited" /\ UNCHANGED unposted
       \/ /\ HasWork /\ ~m_stop
          /\ worker' = "posting"
          /\ unposted' = Registered
    /\ UNCHANGED <<m_signals, m_stop, ui, stopper>>

\* The standard lets a condition variable return without a notification.
SpuriousWakeup ==
    /\ worker = "blocked"
    /\ worker' = "lock"
    /\ UNCHANGED <<m_signals, m_stop, unposted, ui, stopper>>

\* One m_screen.PostEvent(Event::Special(sig)) of the for_each.
PostEvent(s) ==
    /\ worker = "posting"
    /\ s \in unposted
    /\ unposted' = unposted \ {s}
    /\ UNCHANGED <<m_signals, m_stop, worker, ui, stopper>>

\* Mutant: after a tick, wait without testing the predicate first.
UnlockThenWait ==
    /\ worker = "posting"
    /\ unposted = {}
    /\ worker' = "blocked"
    /\ UNCHANGED <<m_signals, m_stop, unposted, ui, stopper>>

\* The end of the locked block, then sleep_for(0.2s).
UnlockThenSleep ==
    /\ worker = "posting"
    /\ unposted = {}
    /\ worker' = "sleep"
    /\ UNCHANGED <<m_signals, m_stop, unposted, ui, stopper>>

SleepOver ==
    /\ worker = "sleep"
    /\ worker' = "lock"
    /\ UNCHANGED <<m_signals, m_stop, unposted, ui, stopper>>

-----------------------------------------------------------------------------
\* Mutant: push_back without the none_of test.
StartAlwaysPushes(s) ==
    /\ ui = "loop"
    /\ Unlocked
    /\ m_signals[s] < 2
    /\ m_signals' = [m_signals EXCEPT ![s] = @ + 1]
    /\ ui' = "startNotify"
    /\ UNCHANGED <<m_stop, worker, unposted, stopper>>

\* Mutant: start() without m_cv.notify_one().
StartWithoutNotify(s) ==
    /\ ui = "loop"
    /\ Unlocked
    /\ m_signals' = [m_signals EXCEPT ![s] = 1]
    /\ UNCHANGED <<m_stop, worker, unposted, ui, stopper>>

\* The locked part of start(), on the UI thread.
Start(s) ==
    /\ ui = "loop"
    /\ Unlocked
    /\ m_signals' = [m_signals EXCEPT ![s] = IF @ = 0 THEN @ + 1 ELSE @]
    /\ ui' = "startNotify"
    /\ UNCHANGED <<m_stop, worker, unposted, stopper>>

StartNotify ==
    /\ ui = "startNotify"
    /\ NotifyOne
    /\ ui' = "loop"
    /\ UNCHANGED <<m_signals, m_stop, unposted, stopper>>

\* Mutant: stop() that erases without taking m_m.
StopWithoutLock(t, s) ==
    /\ ui # "destroyed"
    /\ stopper[t] = "out"
    /\ m_signals' = [m_signals EXCEPT ![s] = 0]
    /\ stopper' = [stopper EXCEPT ![t] = "notify"]
    /\ UNCHANGED <<m_stop, worker, unposted, ui>>

\* Mutant: erase of one occurrence, present or not.
StopErasesOne(t, s) ==
    /\ ui # "destroyed"
    /\ stopper[t] = "out"
    /\ Unlocked
    /\ m_signals' = [m_signals EXCEPT ![s] = @ - 1]
    /\ stopper' = [stopper EXCEPT ![t] = "notify"]
    /\ UNCHANGED <<m_stop, worker, unposted, ui>>

\* The locked part of stop(): erase-remove takes out every occurrence.  Calls
\* that arrive after the destructor are the subject of module Lifecycle.
Stop(t, s) ==
    /\ ui # "destroyed"
    /\ stopper[t] = "out"
    /\ Unlocked
    /\ m_signals' = [m_signals EXCEPT ![s] = 0]
    /\ stopper' = [stopper EXCEPT ![t] = "notify"]
    /\ UNCHANGED <<m_stop, worker, unposted, ui>>

StopNotify(t) ==
    /\ stopper[t] = "notify"
    /\ NotifyOne
    /\ stopper' = [stopper EXCEPT ![t] = "out"]
    /\ UNCHANGED <<m_signals, m_stop, unposted, ui>>

-----------------------------------------------------------------------------
\* screen.Loop has returned and main leaves the scope of the animator.
Exit ==
    /\ ui = "loop"
    /\ ui' = "exit"
    /\ UNCHANGED <<m_signals, m_stop, worker, unposted, stopper>>

\* Mutant: ~Animator that joins without notifying.
DestructorWithoutNotify ==
    /\ ui = "exit"
    /\ Unlocked
    /\ m_stop' = TRUE
    /\ ui' = "join"
    /\ UNCHANGED <<m_signals, worker, unposted, stopper>>

\* The locked part of ~Animator().
DestructorStop ==
    /\ ui = "exit"
    /\ Unlocked
    /\ m_stop' = TRUE
    /\ ui' = "stopNotify"
    /\ UNCHANGED <<m_signals, worker, unposted, stopper>>

DestructorNotify ==
    /\ ui = "stopNotify"
    /\ NotifyOne
    /\ ui' = "join"
    /\ UNCHANGED <<m_signals, m_stop, unposted, stopper>>

\* m_thread.join() returns once the worker has left its loop.
Join ==
    /\ ui = "join"
    /\ worker = "exited"
    /\ ui' = "destroyed"
    /\ UNCHANGED <<m_signals, m_stop, worker, unposted, stopper>>

\* Nothing is left of the animator.
Destroyed == ui = "destroyed" /\ UNCHANGED vars

WorkerStep ==
    CheckPredicate \/ UnlockThenSleep \/ SleepOver \/ \E s \in Signals : PostEvent(s)

Next ==
    \/ WorkerStep
    \/ SpuriousWakeup
    \/ \E s \in Signals : Start(s)
    \/ StartNotify
    \/ \E t \in Stoppers, s \in Signals : Stop(t, s)
    \/ \E t \in Stoppers : StopNotify(t)
    \/ Exit \/ DestructorStop \/ DestructorNotify \/ Join
    \/ Destroyed

Spec == Init /\ [][Next]_vars

\* The scheduler runs every thread that can run.  ~Animator needs m_m, which
\* the worker gives up for 0.2 s after each tick: strong fairness.  Nothing
\* makes the user start or exit, or the condition variable wake spuriously.
FairSpec ==
    /\ Spec
    /\ WF_vars(WorkerStep)
    /\ WF_vars(StartNotify \/ DestructorNotify \/ Join)
    /\ SF_vars(DestructorStop)
    /\ \A t \in Stoppers : WF_vars(StopNotify(t))

-----------------------------------------------------------------------------
(* Properties                                                              *)

\* However starts and stops interleave, a signal is registered at most once
\* (otherwise its spinner would turn faster after every fetch): the none_of
\* test and the push_back of start() are one critical section.
UniqueSignals == \A s \in Signals : m_signals[s] <= 1

\* start(), stop() and ~Animator() notify after they have released m_m.  No
\* wakeup is lost in that gap: if the worker is blocked although there is work,
\* somebody is still going to call notify_one.
NoLostWakeup ==
    worker = "blocked" /\ HasWork =>
        \/ ui \in {"startNotify", "stopNotify"}
        \/ \E t \in Stoppers : stopper[t] = "notify"

\* The for_each over m_signals never visits an entry that a concurrent stop()
\* has erased: what is left to post is registered.
PostsOnlyRegistered == unposted \subseteq Registered

\* ~Animator() returns: the worker is never left blocked, or ticking for ever,
\* while main waits in join().
DestructorReturns == ui = "exit" ~> ui = "destroyed"

\* As long as a signal stays registered, its spinner keeps being refreshed.
KeepsTicking ==
    \A s \in Signals :
        <>[](s \in Registered /\ ~m_stop) => []<><<PostEvent(s)>>_vars

=============================================================================
