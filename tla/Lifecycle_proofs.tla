-------------------------- MODULE Lifecycle_proofs --------------------------
(***************************************************************************)
(* Proofs about Lifecycle, for any number of conversations and lost        *)
(* connections: type correctness, with the bound on attempts to reconnect, *)
(* and that the session outlives the library's threads.                    *)
(***************************************************************************)
EXTENDS Lifecycle, TLAPS

Places == {"idle", "store", "append", "update", "session", "animator", "take", "screen",
           "credentials", "ended"}

-----------------------------------------------------------------------------
(* Lemmas                                                                  *)

\* state2String names every state that the session becomes.
LEMMA NameOfState ==
    ASSUME NEW st \in {"CONNECTED_ACTIVE", "RECOVERING_RECONNECT", "CLOSED_BY_CLIENT",
                       "CLOSED_BY_SERVER", "CLOSED_FAILED"}
    PROVE  st \in DOMAIN SESSION_STATE_T /\ state2String(SESSION_STATE_T[st]) = st
BY DEF SESSION_STATE_T, state2String

\* So a change of state leaves both well typed, and the log with its name.
LEMMA BecomeNames ==
    ASSUME NEW st \in {"CONNECTED_ACTIVE", "RECOVERING_RECONNECT", "CLOSED_BY_CLIENT",
                       "CLOSED_BY_SERVER", "CLOSED_FAILED"},
           Become(st)
    PROVE  state' = st /\ logged' = st /\ state' \in DOMAIN SESSION_STATE_T
BY NameOfState DEF Become

\* A thread that moves goes to a place.
LEMMA MoveIsTyped ==
    ASSUME at \in [Threads -> Places], NEW t \in Threads, NEW to \in Places, Move(t, to)
    PROVE  at' \in [Threads -> Places]
BY DEF Move

\* And a callback goes on to one.
LEMMA ContinuationIsPlace ==
    ASSUME NEW from \in DOMAIN Continuations, NEW to \in Continuations[from]
    PROVE  from \in Locking \cup {"append", "animator", "screen"} /\ to \in Places
BY DEF Continuations, Places, Locking

-----------------------------------------------------------------------------
(* Type correctness                                                        *)

\* What TypeOK says but for the bound on attempts, and the room that a request
\* under way has for its conversations.
Typed ==
    /\ m_session \in BOOLEAN
    /\ main \in {"connect", "construct", "notify", "loop", "fetch", "reply", "subscribe",
                 "component", "animator", "screen", "credentials", "close", "join",
                 "session", "returned"}
    /\ alive \subseteq Locals \cup {"credentials", "library", "session"}
    /\ at \in [Threads -> Places]
    /\ open \in 0..MaxOpen
    /\ main = "fetch" => open + 2 <= MaxOpen
    /\ main \in {"reply", "subscribe"} => open + 1 <= MaxOpen
    /\ subscribed \in BOOLEAN
    /\ notified \in BOOLEAN
    /\ state \in DOMAIN SESSION_STATE_T
    /\ drops \in 0..MaxDrops
    /\ discarding \in BOOLEAN
    /\ closing \in BOOLEAN
    /\ logged \in DOMAIN SESSION_STATE_T \cup {"nothing", "????"}

\* Between two attempts to reconnect, one is left.
AttemptsInv ==
    /\ attempts \in 0..3
    /\ state = "RECOVERING_RECONNECT" =>
           ~closing /\ (at["ses"] # "credentials" => attempts < 3)

LEMMA NotifyIsTyped ==
    ASSUME Typed, notify
    PROVE  Typed'
<1>1. m_session \in BOOLEAN
    BY DEF Typed
<1>2. CASE m_session = TRUE
    BY <1>2 DEF Typed, notify, libVars, convVars, Goto
<1>3. CASE m_session = FALSE
    BY <1>3 DEF Typed, notify, libVars, convVars, Goto
<1> QED BY <1>1, <1>2, <1>3, Zenon

LEMMA TypedStep ==
    ASSUME Typed, [Next]_vars
    PROVE  Typed'
<1>1. notify => Typed'
    BY NotifyIsTyped
<1> USE ConstantsAssumption DEF Typed, mainVars, libVars, convVars, Goto, Threads, Locals, Places
<1>2. CASE Connect
    <2>1. logged' = state' /\ state' \in DOMAIN SESSION_STATE_T
        BY <1>2, BecomeNames DEF Connect
    <2> QED BY <1>2, <2>1 DEF Connect, Places
<1>3. CASE ConnectFails \/ Construct
    BY <1>3 DEF ConnectFails, Construct
<1>4. CASE Fetch \/ Subscribe \/ FetchWithoutTransport \/ AddCommand \/ AddReply \/ AddSubscribe
    <2>1. CASE Fetch \/ Subscribe \/ FetchWithoutTransport
        BY <2>1 DEF Fetch, Subscribe, FetchWithoutTransport
    <2>2. CASE AddCommand
        BY <2>2 DEF AddCommand, OpenConversation
    <2>3. CASE AddReply
        BY <2>3 DEF AddReply, OpenConversation
    <2>4. CASE AddSubscribe
        BY <2>4 DEF AddSubscribe, OpenConversation
    <2> QED BY <1>4, <2>1, <2>2, <2>3, <2>4
<1>5. CASE LeaveLoop
    BY <1>5 DEF LeaveLoop
<1>6. ASSUME NEW object,
             NEW next \in {"animator", "screen", "credentials", "close", "session", "returned"},
             Destroy(object, next)
      PROVE  Typed'
    BY <1>6 DEF Destroy
<1>7. CASE SessionClose
    <2>1. /\ state' \in DOMAIN SESSION_STATE_T
          /\ logged' \in DOMAIN SESSION_STATE_T \cup {"nothing", "????"}
        BY <1>7, BecomeNames DEF SessionClose
    <2> QED BY <1>7, <2>1 DEF SessionClose
<1>8. CASE SessionFree
    BY <1>8 DEF SessionFree
<1>9. CASE OnFetchTopic \/ OnSubscribeTopic \/ OnTopicSubscriptionEvent
    BY <1>9, MoveIsTyped DEF OnFetchTopic, OnSubscribeTopic, OnTopicSubscriptionEvent
<1>10. ASSUME NEW t \in Threads, EndConversation(t) PROVE Typed'
    <2>1. at' \in [Threads -> Places]
        BY <1>10, MoveIsTyped DEF EndConversation
    <2> QED BY <1>10, <2>1 DEF EndConversation
<1>11. ASSUME NEW t \in Threads, Proceed(t) PROVE Typed'
    <2>1. at' \in [Threads -> Places]
        BY <1>11, ContinuationIsPlace, MoveIsTyped DEF Proceed
    <2> QED BY <1>11, <2>1 DEF Proceed
<1>12. ASSUME NEW t \in Threads, End(t) PROVE Typed'
    BY <1>12, MoveIsTyped DEF End
<1>13. CASE DiscardingDone
    BY <1>13 DEF DiscardingDone
<1>14. ASSUME NEW st \in {"RECOVERING_RECONNECT", "CLOSED_BY_SERVER"}, Interrupted(st)
       PROVE  UNCHANGED <<mainVars, at, convVars, closing>> /\ logged' = state'
              /\ state' \in DOMAIN SESSION_STATE_T
    BY <1>14, BecomeNames DEF Interrupted
<1>15. CASE LinkDown
    <2>1. drops' \in 0..MaxDrops /\ discarding' = discarding
        BY <1>15 DEF LinkDown
    <2> QED BY <1>14, <1>15, <2>1 DEF LinkDown
<1>16. CASE ClosedByServer
    BY <1>14, <1>16 DEF ClosedByServer
<1>17. CASE Reconnect
    BY <1>17, MoveIsTyped DEF Reconnect
<1>18. CASE Reconnected \/ AttemptFails
    <2>1. /\ state' \in DOMAIN SESSION_STATE_T
          /\ logged' \in DOMAIN SESSION_STATE_T \cup {"nothing", "????"}
        BY <1>18, BecomeNames DEF Reconnected, AttemptFails
    <2>2. at' \in [Threads -> Places]
        BY <1>18, MoveIsTyped DEF Reconnected, AttemptFails
    <2> QED BY <1>18, <2>1, <2>2 DEF Reconnected, AttemptFails
<1>19. CASE AttemptAborted
    BY <1>19, MoveIsTyped DEF AttemptAborted
<1>20. CASE UNCHANGED vars
    BY <1>20 DEF vars
<1>21. DestroyLocals \/ FreeCredentials \/ DestroyMembers => Typed'
    BY <1>6 DEF DestroyLocals, FreeCredentials, DestroyMembers
<1> QED BY <1>1, <1>2, <1>3, <1>4, <1>5, <1>7, <1>8, <1>9, <1>10, <1>11,
           <1>12, <1>13, <1>15, <1>16, <1>17, <1>18, <1>19, <1>20, <1>21
        DEF Next, MainStep, WsStep, SesStep, Answer, Discard, Returned

\* The bound on attempts.  An attempt that fails either leaves another, or closes
\* the session; and session_close ends the recovery.
LEMMA AttemptsStep ==
    ASSUME Typed, AttemptsInv, [Next]_vars
    PROVE  AttemptsInv'
<1> USE DEF AttemptsInv, mainVars, libVars, convVars
<1>1. CASE UNCHANGED <<state, attempts, closing>> /\ at["ses"] # "credentials"
    BY <1>1
<1>2. CASE UNCHANGED <<state, attempts, closing, at>>
    BY <1>2
<1>3. CASE Connect
    BY <1>3, BecomeNames DEF Connect
<1>4. CASE SessionClose
    BY <1>4, BecomeNames DEF SessionClose
<1>5. CASE LinkDown
    BY <1>5, BecomeNames DEF LinkDown, Interrupted, Receiving
<1>6. CASE ClosedByServer
    BY <1>6, BecomeNames DEF ClosedByServer, Interrupted
<1>7. CASE Reconnect
    <2>1. at'["ses"] = "credentials"
        BY <1>7 DEF Reconnect, Move, Typed, Threads
    <2> QED BY <1>7, <2>1 DEF Reconnect
<1>8. CASE Reconnected
    BY <1>8, BecomeNames DEF Reconnected
<1>9. CASE AttemptFails
    BY <1>9, BecomeNames DEF AttemptFails, retry_count
<1>10. CASE AttemptAborted
    BY <1>10 DEF AttemptAborted
<1>11. MainStep => Connect \/ SessionClose \/ UNCHANGED <<state, attempts, closing, at>>
    BY DEF MainStep, ConnectFails, Construct, notify, FetchWithoutTransport, AddCommand,
           AddReply, AddSubscribe, OpenConversation, DestroyLocals, Destroy,
           FreeCredentials, SessionFree, DestroyMembers
<1>12. Fetch \/ Subscribe \/ LeaveLoop \/ Returned \/ UNCHANGED vars =>
           UNCHANGED <<state, attempts, closing, at>>
    BY DEF Fetch, Subscribe, LeaveLoop, Returned, vars
<1>13. ASSUME OnFetchTopic \/ OnSubscribeTopic \/ OnTopicSubscriptionEvent \/ Answer \/ WsStep
       PROVE  UNCHANGED <<state, attempts, closing>> /\ at'["ses"] = at["ses"]
    BY <1>13 DEF OnFetchTopic, OnSubscribeTopic, OnTopicSubscriptionEvent, Answer, WsStep,
                 EndConversation, Proceed, End, Move, Typed, Threads
<1>14. ASSUME Discard \/ DiscardingDone \/ Proceed("ses") \/ End("ses")
       PROVE  UNCHANGED <<state, attempts, closing>> /\ at["ses"] # "credentials"
    BY <1>14, ContinuationIsPlace
       DEF Discard, DiscardingDone, EndConversation, Proceed, End, Locking
<1> QED BY <1>1, <1>2, <1>3, <1>4, <1>5, <1>6, <1>7, <1>8, <1>9, <1>10, <1>11, <1>12,
           <1>13, <1>14
        DEF Next, SesStep

\* The variables keep their types, whatever the number of conversations and of
\* lost connections; among them the number of attempts to reconnect, which
\* never exceeds the retry_count that connect sets (session.cpp:422).
THEOREM TypeCorrect == Spec => []TypeOK
<1>1. Init => Typed /\ AttemptsInv
    <2> SUFFICES ASSUME Init PROVE Typed /\ AttemptsInv
        OBVIOUS
    <2>1. "CONNECTING" \in DOMAIN SESSION_STATE_T
        BY DEF SESSION_STATE_T
    <2>2. AttemptsInv
        BY DEF Init, AttemptsInv
    <2>3. at \in [Threads -> Places] /\ open \in 0..MaxOpen /\ drops \in 0..MaxDrops
        BY ConstantsAssumption DEF Init, Places
    <2> QED BY <2>1, <2>2, <2>3 DEF Init, Typed, Locals
<1>2. Typed /\ AttemptsInv /\ [Next]_vars => (Typed /\ AttemptsInv)'
    BY TypedStep, AttemptsStep
<1>3. Typed /\ AttemptsInv => TypeOK
    BY DEF Typed, AttemptsInv, TypeOK, retry_count, Places
<1> QED BY <1>1, <1>2, <1>3, PTL DEF Spec

-----------------------------------------------------------------------------
(* Objects and threads                                                     *)

\* The threads run only while main is between session_create and session_close,
\* and then both sessions exist.
ThreadsInv ==
    /\ ~m_session \/ main \in {"connect", "session", "returned"} =>
           \A t \in Threads : at[t] = "ended"
    /\ main \notin {"session", "returned"} =>
           /\ "session" \in alive
           /\ m_session => "library" \in alive
    /\ main = "connect" => ~m_session
    /\ main \in {"close", "join"} => m_session

\* SessionOutlivesThreads, for any number of conversations and lost connections.
\* It needs the join in session_close, and that nothing starts a thread again
\* once main is past it.
THEOREM SessionIsLast == Spec => []SessionOutlivesThreads
<1>1. Init => ThreadsInv
    BY DEF Init, ThreadsInv
<1>2. TypeOK /\ ThreadsInv /\ [Next]_vars => ThreadsInv'
    <2> SUFFICES ASSUME TypeOK, ThreadsInv, [Next]_vars PROVE ThreadsInv'
        OBVIOUS
    <2> USE DEF ThreadsInv, mainVars, libVars, convVars, Goto
    <2>1. CASE Connect
        BY <2>1 DEF Connect
    <2>2. CASE ConnectFails \/ Construct \/ notify
        BY <2>2 DEF ConnectFails, Construct, notify
    <2>3. CASE Fetch \/ Subscribe \/ LeaveLoop \/ FetchWithoutTransport
               \/ AddCommand \/ AddReply \/ AddSubscribe
        BY <2>3 DEF Fetch, Subscribe, LeaveLoop, FetchWithoutTransport, AddCommand, AddReply,
                    AddSubscribe, OpenConversation
    <2>4. CASE DestroyLocals
        BY <2>4 DEF DestroyLocals, Destroy
    <2>5. CASE FreeCredentials
        BY <2>5 DEF FreeCredentials, Destroy
    <2>6. CASE SessionClose
        BY <2>6 DEF SessionClose
    <2>7. CASE SessionFree
        BY <2>7 DEF SessionFree
    <2>8. CASE DestroyMembers
        BY <2>8 DEF DestroyMembers, Destroy
    <2>9. ASSUME UNCHANGED <<m_session, main, alive>>,
                 \A t \in Threads : at[t] = "ended" => at'[t] = "ended"
          PROVE  ThreadsInv'
        BY <2>9
    <2>10. ASSUME NEW t \in Threads, NEW to, Move(t, to), at[t] # "ended"
           PROVE  \A u \in Threads : at[u] = "ended" => at'[u] = "ended"
        BY <2>10 DEF Move, TypeOK
    <2>11. CASE OnFetchTopic \/ OnSubscribeTopic \/ OnTopicSubscriptionEvent
        BY <2>9, <2>10, <2>11
           DEF OnFetchTopic, OnSubscribeTopic, OnTopicSubscriptionEvent, Receiving, Threads
    <2>12. ASSUME NEW t \in Threads, EndConversation(t) \/ Proceed(t) \/ End(t)
           PROVE  ThreadsInv'
        BY <2>9, <2>10, <2>12, ContinuationIsPlace DEF EndConversation, Proceed, End, Locking
    <2>13. CASE LinkDown \/ ClosedByServer \/ DiscardingDone
        BY <2>9, <2>13 DEF LinkDown, ClosedByServer, Interrupted, DiscardingDone
    <2>14. CASE Reconnect \/ Reconnected \/ AttemptFails \/ AttemptAborted
        BY <2>9, <2>10, <2>14
           DEF Reconnect, Reconnected, AttemptFails, AttemptAborted, Threads
    <2>15. CASE UNCHANGED vars
        BY <2>9, <2>15 DEF vars
    <2> QED BY <2>1, <2>2, <2>3, <2>4, <2>5, <2>6, <2>7, <2>8, <2>11, <2>12, <2>13, <2>14, <2>15
            DEF Next, MainStep, WsStep, SesStep, Answer, Discard, Returned, Threads
<1>3. ThreadsInv => SessionOutlivesThreads
    BY DEF ThreadsInv, SessionOutlivesThreads
<1> QED BY <1>1, <1>2, <1>3, TypeCorrect, PTL DEF Spec

\* LogNamesState, for any number of lost connections.
THEOREM LogIsRight == Spec => []LogNamesState
<1>1. Init => LogNamesState
    BY DEF Init, LogNamesState
<1>2. LogNamesState /\ [Next]_vars => LogNamesState'
    <2> SUFFICES ASSUME LogNamesState, [Next]_vars PROVE LogNamesState'
        OBVIOUS
    <2> USE DEF LogNamesState, libVars
    <2>1. CASE UNCHANGED <<state, logged>>
        BY <2>1
    <2>2. ASSUME NEW st \in {"CONNECTED_ACTIVE", "RECOVERING_RECONNECT", "CLOSED_BY_CLIENT",
                             "CLOSED_BY_SERVER", "CLOSED_FAILED"},
                 Become(st)
          PROVE  LogNamesState'
        BY <2>2, BecomeNames
    <2>3. CASE MainStep
        BY <2>1, <2>2, <2>3
           DEF MainStep, Connect, ConnectFails, Construct, notify, FetchWithoutTransport,
               AddCommand, AddReply, AddSubscribe, OpenConversation, DestroyLocals, Destroy,
               FreeCredentials, SessionClose, SessionFree, DestroyMembers
    <2>4. CASE Fetch \/ Subscribe \/ LeaveLoop \/ Returned \/ UNCHANGED vars
        BY <2>1, <2>4 DEF Fetch, Subscribe, LeaveLoop, Returned, vars
    <2>5. CASE OnFetchTopic \/ OnSubscribeTopic \/ OnTopicSubscriptionEvent \/ Answer \/ WsStep
        BY <2>1, <2>5 DEF OnFetchTopic, OnSubscribeTopic, OnTopicSubscriptionEvent, Answer,
                          WsStep, EndConversation, Proceed, End
    <2>6. CASE LinkDown \/ ClosedByServer
        BY <2>2, <2>6 DEF LinkDown, ClosedByServer, Interrupted
    <2>7. CASE SesStep
        BY <2>1, <2>2, <2>7
           DEF SesStep, Reconnect, Reconnected, AttemptFails, AttemptAborted, Discard,
               DiscardingDone, EndConversation, Proceed, End
    <2> QED BY <2>3, <2>4, <2>5, <2>6, <2>7 DEF Next
<1> QED BY <1>1, <1>2, PTL DEF Spec

=============================================================================
