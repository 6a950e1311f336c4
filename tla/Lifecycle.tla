------------------------------ MODULE Lifecycle ------------------------------
(***************************************************************************)
(* How dmon starts, keeps its session and exits.  main() connects, creates *)
(* its locals, asks for notifications of subscriptions and runs the screen *)
(* loop; then it destroys the locals in the reverse order of construction: *)
(* the component, the animator, the screen, and last the Session, whose    *)
(* destructor frees the credentials before it closes the library's         *)
(* session.  From Session::connect until then the library's two threads    *)
(* run: "ws" may be anywhere in Session::on... and the lambda of main.cpp  *)
(* that it calls, "ses" recovers the connection and discards conversations.*)
(*                                                                         *)
(* Two mutexes are held over several steps: m_operationMutex, by a request *)
(* of the user until the library has opened its conversations, and the     *)
(* library's handler mutex, while the conversations are discarded.         *)
(***************************************************************************)
EXTENDS Integers, Sequences

CONSTANTS
    MaxOpen,      \* bound: conversations open at a time
    MaxDrops      \* bound: times the connection is lost

ASSUME ConstantsAssumption == MaxOpen \in Nat /\ MaxDrops \in Nat

VARIABLES
    m_session,  \* has session_create returned a session?
    main,       \* where main() is: in the screen loop, in Session::fetch or
                \* subscribe; at exit, the object it destroys next
    alive,      \* the objects that exist
    at,         \* the object that a library thread is about to use
    open,       \* open conversations
    subscribed, \* has a subscribe request been made?
    notified,   \* has notify registered its two callbacks?
    \* The library's session: its state, reconnections attempted since the
    \* connection was lost, how often that was; are its conversations being
    \* discarded, and has session_close told its threads to end?
    state, attempts, drops, discarding, closing,
    logged      \* the new state in the last line of on_session_state_changed

mainVars == <<m_session, main, alive, notified>>
libVars == <<state, attempts, drops, discarding, closing, logged>>
convVars == <<open, subscribed>>
vars == <<mainVars, libVars, convVars, at>>

Threads == {"ws", "ses"}

Locals == {"screen", "animator", "component"}

\* SESSION_STATE_T, and a member of the reconnection strategy that connect sets;
\* the option -r, "5" by default, is not looked at.
SESSION_STATE_T ==
    [SESSION_STATE_UNKNOWN |-> -1, CONNECTING |-> 0, CONNECTED_INITIALISING |-> 1,
     CONNECTED_ACTIVE |-> 2, RECOVERING_RECONNECT |-> 3, RECOVERING_FAILOVER |-> 4,
     CLOSED_BY_CLIENT |-> 5, CLOSED_BY_SERVER |-> 6, CLOSED_FAILED |-> 7]

retry_count == 3

\* Mutant: without the entry for -1.
NameAt(st) ==
    <<"CONNECTING", "CONNECTED_INITIALISING", "CONNECTED_ACTIVE", "RECOVERING_RECONNECT",
      "RECOVERING_FAILOVER", "CLOSED_BY_CLIENT", "CLOSED_BY_SERVER", "CLOSED_FAILED", "????">>[st + 2]

\* The table has an entry for -1, but st > 8 compares it as a size_t, and so
\* every negative number is out of range.
state2String(st) ==
    IF st < 0 \/ st > 8 THEN "????"
    ELSE <<"SESSION_STATE_UNKNOWN", "CONNECTING", "CONNECTED_INITIALISING", "CONNECTED_ACTIVE",
           "RECOVERING_RECONNECT", "RECOVERING_FAILOVER", "CLOSED_BY_CLIENT",
           "CLOSED_BY_SERVER", "CLOSED_FAILED">>[st + 2]

TypeOK ==
    /\ m_session \in BOOLEAN
    /\ main \in {"connect", "construct", "notify", "loop", "fetch", "reply", "subscribe",
                 "component", "animator", "screen", "credentials", "close", "join",
                 "session", "returned"}
    /\ alive \subseteq Locals \cup {"credentials", "library", "session"}
    /\ at \in [Threads -> {"idle", "store", "append", "update", "session", "animator",
                         "take", "screen", "credentials", "ended"}]
    /\ open \in 0..MaxOpen
    /\ subscribed \in BOOLEAN
    /\ notified \in BOOLEAN
    /\ state \in DOMAIN SESSION_STATE_T
    /\ attempts \in 0..retry_count
    /\ drops \in 0..MaxDrops
    /\ discarding \in BOOLEAN
    /\ closing \in BOOLEAN
    /\ logged \in DOMAIN SESSION_STATE_T \cup {"nothing", "????"}

\* main() is in Session::connect, which has created the credentials.
Init ==
    /\ m_session = FALSE
    /\ main = "connect"
    /\ alive = {"credentials", "session"}
    /\ at = [t \in Threads |-> "ended"]
    /\ open = 0
    /\ subscribed = FALSE
    /\ notified = FALSE
    /\ state = "CONNECTING"
    /\ attempts = 0
    /\ drops = 0
    /\ discarding = FALSE
    /\ closing = FALSE
    /\ logged = "nothing"

\* The session changes its state and tells its listener.
Become(new) ==
    /\ state' = new
    /\ logged' = state2String(SESSION_STATE_T[new])

-----------------------------------------------------------------------------
(* main()                                                                  *)

Goto(next) == main' = next

\* session_create connects, with the library's threads running from then on.
Connect ==
    /\ main = "connect"
    /\ m_session' = TRUE
    /\ alive' = alive \cup {"library"}
    /\ at' = [t \in Threads |-> "idle"]
    /\ Become("CONNECTED_ACTIVE")
    /\ Goto("construct")
    /\ UNCHANGED <<notified, convVars, attempts, drops, discarding, closing>>

\* It returns no session; main returns.
ConnectFails ==
    /\ main = "connect"
    /\ Goto("credentials")
    /\ UNCHANGED <<m_session, alive, notified, libVars, at, convVars>>

\* The screen, the animator, the component and the callbacks of the session.
Construct ==
    /\ main = "construct"
    /\ alive' = alive \cup Locals
    /\ Goto("notify")
    /\ UNCHANGED <<m_session, notified, libVars, at, convVars>>

notify ==
    /\ main = "notify"
    /\ notified' = m_session
    /\ Goto("loop")
    /\ UNCHANGED <<m_session, alive, libVars, at, convVars>>

\* A button handler calls Session::fetch or subscribe, which takes
\* m_operationMutex and keeps it until it returns.  A request that is turned
\* away changes nothing here.
Fetch ==
    /\ main = "loop"
    /\ open + 2 <= MaxOpen
    /\ Goto("fetch")
    /\ UNCHANGED <<m_session, alive, notified, libVars, at, convVars>>

Subscribe ==
    /\ main = "loop"
    /\ open + 1 <= MaxOpen
    /\ Goto("subscribe")
    /\ UNCHANGED <<m_session, alive, notified, libVars, at, convVars>>

OperationFree == main \notin {"fetch", "reply", "subscribe"}

\* The session thread keeps the handler mutex while it discards conversations.
HandlerFree == ~discarding

\* ::fetch returns silently if the session has no transport; else it opens two
\* conversations, each under the handler mutex, and queues the request.
FetchWithoutTransport ==
    /\ main = "fetch"
    /\ state # "CONNECTED_ACTIVE"
    /\ Goto("loop")
    /\ UNCHANGED <<m_session, alive, notified, libVars, at, convVars>>

OpenConversation(from, to) ==
    /\ main = from
    /\ HandlerFree
    /\ open' = open + 1
    /\ Goto(to)
    /\ UNCHANGED <<m_session, alive, notified, libVars, at>>

AddCommand ==
    /\ state = "CONNECTED_ACTIVE"
    /\ OpenConversation("fetch", "reply")
    /\ UNCHANGED subscribed

AddReply == OpenConversation("reply", "loop") /\ UNCHANGED subscribed

\* ::subscribe does not look at the transport.
AddSubscribe == OpenConversation("subscribe", "loop") /\ subscribed' = TRUE

\* screen.Loop returns; the locals go out of scope.
LeaveLoop ==
    /\ main = "loop"
    /\ Goto("component")
    /\ UNCHANGED <<m_session, alive, notified, libVars, at, convVars>>

Destroy(object, next) ==
    /\ main = object
    /\ alive' = alive \ {object}
    /\ Goto(next)
    /\ UNCHANGED <<m_session, notified, libVars, at, convVars>>

DestroyLocals ==
    \/ Destroy("component", "animator")
    \/ Destroy("animator", "screen")
    \/ Destroy("screen", "credentials")

\* ~Session: credentials_free, then session_close if there is a session.
FreeCredentials == Destroy("credentials", IF m_session THEN "close" ELSE "session")

\* Mutant: the threads are joined without being told to end.
CloseQuietly ==
    /\ main = "close"
    /\ Goto("join")
    /\ UNCHANGED <<m_session, alive, notified, libVars, at, convVars>>

SessionClose ==
    /\ main = "close"
    /\ closing' = TRUE
    /\ IF state \in {"CONNECTED_ACTIVE", "RECOVERING_RECONNECT"}
       THEN Become("CLOSED_BY_CLIENT") ELSE UNCHANGED <<state, logged>>
    /\ Goto("join")
    /\ UNCHANGED <<m_session, alive, notified, at, convVars, attempts, drops, discarding>>

\* Mutant: session_close does not wait for the threads.
FreeWithoutJoin ==
    /\ main = "join"
    /\ alive' = alive \ {"library"}
    /\ Goto("session")
    /\ UNCHANGED <<m_session, notified, libVars, at, convVars>>

\* session_close returns when both threads have ended; then session_free.
SessionFree ==
    /\ main = "join"
    /\ \A t \in Threads : at[t] = "ended"
    /\ alive' = alive \ {"library"}
    /\ Goto("session")
    /\ UNCHANGED <<m_session, notified, libVars, at, convVars>>

\* The members of Session, m_operationMutex and the lambdas among them.
DestroyMembers == Destroy("session", "returned")

\* The process is over.
Returned == main = "returned" /\ UNCHANGED vars

MainStep ==
    \/ Connect \/ ConnectFails \/ Construct \/ notify
    \/ FetchWithoutTransport \/ AddCommand \/ AddReply \/ AddSubscribe
    \/ DestroyLocals \/ FreeCredentials \/ SessionClose \/ SessionFree \/ DestroyMembers

-----------------------------------------------------------------------------
(* The transport thread, and the ends of conversations                     *)

Move(t, to) == at' = [at EXCEPT ![t] = to]

\* A message is received, and its conversation looked up under the handler mutex.
Receiving == at["ws"] = "idle" /\ state = "CONNECTED_ACTIVE" /\ HandlerFree /\ ~closing

\* The thread enters onFetchTopic, onSubscribeTopic or, for a notification, the
\* function onTopicSubscriptionEvent, which appends to a vector without a lock ...
OnFetchTopic ==
    /\ Receiving
    /\ open > 0
    /\ Move("ws", "store")
    /\ UNCHANGED <<mainVars, libVars, convVars>>

OnSubscribeTopic ==
    /\ Receiving
    /\ subscribed
    /\ Move("ws", "update")
    /\ UNCHANGED <<mainVars, libVars, convVars>>

OnTopicSubscriptionEvent ==
    /\ Receiving
    /\ notified
    /\ Move("ws", "append")
    /\ UNCHANGED <<mainVars, libVars, convVars>>

\* ... or a callback that ends a conversation.  Those for the status message of
\* a fetch and for the discarding of a subscribe request only log.
EndConversation(t) ==
    /\ at[t] = "idle"
    /\ open > 0
    /\ open' = open - 1
    /\ \E to \in {"session", "idle"} : Move(t, to)
    /\ UNCHANGED <<mainVars, libVars, subscribed>>

Answer == Receiving /\ EndConversation("ws")

\* Where a callback goes on: to the lambda of main.cpp, which calls
\* animator.stop, then takes the topics out of the session, if it has any to
\* show, and calls screen.Post.  An update goes there unless a subscribe
\* request is in progress.
Continuations ==
    [store |-> {"idle"}, append |-> {"idle"}, update |-> {"animator", "idle"},
     session |-> {"animator"}, animator |-> {"take", "screen"},
     take |-> {"screen"}, screen |-> {"idle"}]

Locking == {"store", "update", "session", "take"}

\* A callback takes its next step, for which it may need m_operationMutex.  A
\* discarded fetch has no topics to show.
Proceed(t) ==
    /\ at[t] \in DOMAIN Continuations
    /\ at[t] \in Locking => OperationFree
    /\ \E to \in Continuations[at[t]] \ (IF t = "ses" THEN {"take"} ELSE {}) : Move(t, to)
    /\ UNCHANGED <<mainVars, libVars, convVars>>

End(t) ==
    /\ at[t] = "idle" /\ closing
    /\ t = "ses" => open = 0
    /\ Move(t, "ended")
    /\ UNCHANGED <<mainVars, libVars, convVars>>

-----------------------------------------------------------------------------
(* The session thread                                                      *)

\* Mutant: a conversation is discarded twice.
DiscardTwice ==
    /\ closing
    /\ at["ses"] = "idle"
    /\ open > 0
    /\ open' = open - 2
    /\ Move("ses", "session")
    /\ UNCHANGED <<mainVars, libVars, subscribed>>

\* What is open when the session ends, or is replaced, is discarded, each
\* conversation with a call of on_fetch_discard.
Discard == (closing \/ discarding) /\ EndConversation("ses")

DiscardingDone ==
    /\ discarding /\ at["ses"] = "idle" /\ open = 0
    /\ discarding' = FALSE
    /\ UNCHANGED <<mainVars, state, attempts, drops, closing, logged, at, convVars>>

\* The connection is lost, or the server closes the session, while no callback
\* is running.
Interrupted(new) ==
    /\ Receiving /\ at["ses"] = "idle" /\ ~discarding
    /\ Become(new)
    /\ UNCHANGED <<mainVars, at, convVars, closing>>

LinkDown ==
    /\ drops < MaxDrops
    /\ Interrupted("RECOVERING_RECONNECT")
    /\ drops' = drops + 1
    /\ attempts' = 0
    /\ UNCHANGED discarding

ClosedByServer ==
    /\ Interrupted("CLOSED_BY_SERVER")
    /\ discarding' = TRUE
    /\ UNCHANGED <<drops, attempts>>

\* The session thread attempts to reconnect, with the session's credentials.
Reconnect ==
    /\ state = "RECOVERING_RECONNECT" /\ ~closing
    /\ at["ses"] = "idle"
    /\ attempts' = attempts + 1
    /\ Move("ses", "credentials")
    /\ UNCHANGED <<mainVars, convVars, state, drops, discarding, closing, logged>>

\* The attempt succeeds, with the old session or a new one ...
Reconnected ==
    /\ at["ses"] = "credentials" /\ ~closing
    /\ Become("CONNECTED_ACTIVE")
    /\ discarding' \in BOOLEAN
    /\ Move("ses", "idle")
    /\ UNCHANGED <<mainVars, convVars, attempts, drops, closing>>

\* Mutant: the library never gives up.
RetriesForEver ==
    /\ at["ses"] = "credentials" /\ ~closing
    /\ attempts' = 0
    /\ Move("ses", "idle")
    /\ UNCHANGED <<mainVars, convVars, state, drops, discarding, closing, logged>>

\* ... or fails, and is the last if retry_count have been made.
AttemptFails ==
    /\ at["ses"] = "credentials" /\ ~closing
    /\ IF attempts = retry_count
       THEN Become("CLOSED_FAILED") /\ discarding' = TRUE
       ELSE UNCHANGED <<state, logged, discarding>>
    /\ Move("ses", "idle")
    /\ UNCHANGED <<mainVars, convVars, attempts, drops, closing>>

\* The session is closed meanwhile.
AttemptAborted ==
    /\ at["ses"] = "credentials" /\ closing
    /\ Move("ses", "idle")
    /\ UNCHANGED <<mainVars, libVars, convVars>>

WsStep == Proceed("ws") \/ End("ws")
SesStep ==
    \/ Reconnect \/ Reconnected \/ AttemptFails \/ AttemptAborted
    \/ Discard \/ DiscardingDone \/ Proceed("ses") \/ End("ses")

Next ==
    \/ Fetch \/ Subscribe \/ LeaveLoop \/ MainStep \/ Returned
    \/ OnFetchTopic \/ OnSubscribeTopic \/ OnTopicSubscriptionEvent \/ Answer
    \/ LinkDown \/ ClosedByServer \/ WsStep \/ SesStep

Spec == Init /\ [][Next]_vars

\* Threads that can run do run, the library's two even if m_operationMutex is
\* taken again and again: it is free between two requests of the user.  Nothing
\* makes messages arrive, the connection break, or the user act or quit.
FairSpec == Spec /\ WF_vars(MainStep) /\ SF_vars(WsStep) /\ SF_vars(SesStep)

-----------------------------------------------------------------------------
(* Properties                                                              *)

\* The Session, with the mutex that every callback locks and the vector that
\* notifications are appended to without one, and the library's session outlive
\* the library's threads.
SessionOutlivesThreads ==
    \A t \in Threads :
        at[t] # "ended" => "session" \in alive /\ "library" \in alive

\* Once the user has quit, the program ends: no callback in flight, no attempt
\* to reconnect and no conversation left open keeps ~Session from returning.
ExitCompletes == main = "component" ~> main = "returned"

\* The session thread, which discards, waits in onFetchDiscard for
\* m_operationMutex; the request that holds it waits for the handler mutex.
LockedOut ==
    /\ discarding /\ at["ses"] = "session"
    /\ \/ main \in {"reply", "subscribe"}
       \/ main = "fetch" /\ state = "CONNECTED_ACTIVE"

\* A lost connection is not recovered for ever: the session is connected again,
\* or closed with the user told of the end of every fetch that was open.  Only
\* the two threads that lock each other out can keep the conversations of the
\* old session from being discarded.
RecoveryEnds ==
    state = "RECOVERING_RECONNECT" ~>
        \/ state = "CONNECTED_ACTIVE" /\ ~discarding
        \/ state # "RECOVERING_RECONNECT" /\ open = 0
        \/ LockedOut

\* The log names the state that the session is in: state2String agrees with the
\* enumeration for every state that a session gets into.
LogNamesState == logged \in {state, "nothing"}

\* What a library thread is about to use still exists: the credentials, for
\* as long as the session may reconnect, and the animator and the screen that
\* the session's lambdas refer to.
UsesOnlyLiving ==
    \A t \in Threads : at[t] \in {"animator", "screen", "credentials"} => at[t] \in alive

=============================================================================
