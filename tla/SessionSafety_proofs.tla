------------------------ MODULE SessionSafety_proofs ------------------------
(* Safety invariants of module Session, for every value of its bounds.     *)
EXTENDS Session_proofs

\* Where the callback of a thread is after it has returned, gone on or begun.
LEMMA ReturnPlace ==
    ASSUME TypeOK, NEW t \in {"ws", "ses"}, Return(t)
    PROVE  /\ cb'[t].at \in {"out", "loop"} /\ cb'[t].op = "none"
           /\ \A u \in {"ws", "ses"} : u # t => cb'[u] = cb[u]
BY DEF TypeOK, Return, NoCallback

LEMMA GoOnPlace ==
    ASSUME TypeOK, NEW t \in {"ws", "ses"}, NEW at, NEW sel, GoOn(t, at, sel)
    PROVE  /\ cb'[t].at = at /\ cb'[t].op = cb[t].op /\ cb'[t].id = cb[t].id
           /\ \A u \in {"ws", "ses"} : u # t => cb'[u] = cb[u]
BY DEF TypeOK, GoOn, Callbacks

LEMMA EnterPlace ==
    ASSUME TypeOK, NEW op, NEW id, NEW topics, NEW batch, Enter(op, id, topics, batch)
    PROVE  /\ cb'["ws"].at = "entered" /\ cb'["ws"].op = op /\ cb'["ws"].id = id
           /\ cb'["ses"] = cb["ses"]
BY DEF TypeOK, Enter, NoCallback

LEMMA TakePlace ==
    ASSUME TypeOK, NEW t \in {"ws", "ses"}, TakeFetchTopics(t) \/ TakeSubscribeTopics(t)
    PROVE  /\ cb[t].at = "take" /\ cb'[t].at = "post"
           /\ cb'[t].op = cb[t].op /\ cb'[t].id = cb[t].id
           /\ \A u \in {"ws", "ses"} : u # t => cb'[u] = cb[u]
BY DEF TypeOK, TakeFetchTopics, TakeSubscribeTopics, Callbacks, At

LEMMA DiscardPlace ==
    ASSUME TypeOK, NEW c \in conv, Discard(c)
    PROVE  /\ cb'["ws"] = cb["ws"]
           /\ cb["ses"].at = "loop"
           /\ IF c[1] = "subscribe" THEN cb' = cb
              ELSE /\ cb'["ses"].at = "entered" /\ cb'["ses"].op = "fetchDiscard"
                   /\ cb'["ses"].id = c[2]
BY DEF TypeOK, Discard, NoCallback

LEMMA ConnectionPlace ==
    ASSUME TypeOK, LinkDown \/ Reconnect \/ StartDiscarding \/ DiscardingDone
    PROVE  /\ cb'["ws"] = cb["ws"]
           /\ cb' # cb => cb'["ses"].at \in {"connected", "loop", "out"}
           /\ cb'["ses"].op = cb["ses"].op /\ cb'["ses"].id = cb["ses"].id
BY DEF TypeOK, LinkDown, Reconnect, ReconnectSame, NewSessionOrNone, Reconnecting, StartDiscarding, DiscardingDone,
       Callbacks

\* The steps of the threads that are in no callback change no callback.
CallbackVars == <<m_fetch_in_progress, m_subscribe_in_progress, m_subscrube_topics,
                  m_subscribeStatus, cb, m_signals>>

LEMMA NoCallbackChanges ==
    ASSUME Wait \/ LibraryCall \/ RunTask \/ Drain \/ UNCHANGED vars
              \/ \E f \in 1..MaxFetches : RouteStatus(f)
    PROVE  UNCHANGED CallbackVars
BY DEF CallbackVars, Wait, LibraryCall, RunTask, Drain, RouteStatus, vars, sessionVars, outside,
       FetchWithoutTransport, AddCommand, AddReply, AddSubscribe, AddConversation,
       SendFetch, SendSubscribe, Send, SendFails

\* A message enters a callback of the transport thread, which was in none.
LEMMA RoutedPlace ==
    ASSUME TypeOK, Answer \/ RouteUpdate \/ \E f \in 1..MaxFetches : RouteTopic(f)
    PROVE  /\ UNCHANGED <<sessionVars, m_signals>>
           /\ cb["ws"].at = "out" /\ cb'["ws"].at = "entered"
           /\ cb'["ses"] = cb["ses"]
<1>1. ASSUME NEW op, NEW id, NEW topics, NEW batch, CanRoute, Enter(op, id, topics, batch)
      PROVE  /\ cb["ws"].at = "out" /\ cb'["ws"].at = "entered"
             /\ cb'["ses"] = cb["ses"]
      BY <1>1, EnterPlace DEF CanRoute, Draining
<1>2. ASSUME NEW kind, NEW id, NEW request, NEW op, RouteResponse(kind, id, request, op)
      PROVE  /\ UNCHANGED <<sessionVars, m_signals>>
             /\ cb["ws"].at = "out" /\ cb'["ws"].at = "entered"
             /\ cb'["ses"] = cb["ses"]
      BY <1>1, <1>2 DEF RouteResponse
<1>3. CASE Answer
      BY <1>2, <1>3 DEF Answer, RouteFetchResponse, RouteFetchError, RouteSubscribed, RouteSubscribeError
<1>4. CASE RouteUpdate
      BY <1>1, <1>4 DEF RouteUpdate
<1>5. ASSUME NEW f \in 1..MaxFetches, RouteTopic(f)
      PROVE  /\ UNCHANGED <<sessionVars, m_signals>>
             /\ cb["ws"].at = "out" /\ cb'["ws"].at = "entered"
             /\ cb'["ses"] = cb["ses"]
      BY <1>1, <1>5 DEF RouteTopic
<1>6. QED BY <1>3, <1>4, <1>5

-----------------------------------------------------------------------------
(* The spinner                                                             *)

Stopping(t) == cb[t].at = "stop" /\ cb[t].op \in FetchOps

LEMMA SpinnerStep ==
    ASSUME TypeOK, NoOrphanSpinner, [Next]_vars
    PROVE  NoOrphanSpinner'
<1> USE DEF NoOrphanSpinner
<1>1. CASE UserFetch
      BY <1>1 DEF UserFetch
<1>2. CASE UserSubscribe
      BY <1>2 DEF UserSubscribe
<1>3. CASE \/ Wait \/ LibraryCall \/ RunTask \/ Drain \/ UNCHANGED vars
           \/ \E f \in 1..MaxFetches : RouteStatus(f)
      BY <1>3, NoCallbackChanges DEF CallbackVars
<1>4. CASE Answer \/ RouteUpdate \/ \E f \in 1..MaxFetches : RouteTopic(f)
      BY <1>4, RoutedPlace DEF sessionVars
<1>5. CASE OnFetchTopic
      BY <1>5, ReturnPlace DEF OnFetchTopic, At
<1>6. CASE OnFetchCompleted \/ OnFetchError \/ OnFetchDiscard
  <2>1. ASSUME NEW t \in {"ws", "ses"}, NEW op \in FetchOps, NEW kept, NEW handed,
               EndFetch(t, op, kept, handed)
        PROVE  Stopping(t)'
        BY <2>1, GoOnPlace DEF EndFetch, At, Stopping
  <2>2. QED BY <1>6, <2>1
            DEF Stopping, OnFetchCompleted, OnFetchError, OnFetchDiscard, FetchOps
<1>7. CASE OnSubscribeTopic \/ CheckSubscription \/ OnSubscribeCompleted \/ OnSubscribeError
      BY <1>7, GoOnPlace, ReturnPlace
      DEF OnSubscribeTopic, CheckSubscription, OnSubscribeCompleted, OnSubscribeError, At, sessionVars
<1>8. ASSUME NEW t \in {"ws", "ses"}, StopAnimator(t) PROVE NoOrphanSpinner'
  <2>1. CASE cb[t].op \in FetchOps
        BY <1>8, <2>1 DEF StopAnimator, SignalOf
  <2>2. CASE cb[t].op \notin FetchOps
        BY <1>8, <2>2, GoOnPlace DEF StopAnimator, sessionVars
  <2>3. QED BY <2>1, <2>2
<1>9. ASSUME NEW t \in {"ws", "ses"}, TakeFetchTopics(t) \/ TakeSubscribeTopics(t) \/ Post(t)
      PROVE  NoOrphanSpinner'
      BY <1>9, TakePlace, ReturnPlace DEF TakeFetchTopics, TakeSubscribeTopics, Post, sessionVars
<1>10. ASSUME NEW c \in conv, Discard(c) PROVE NoOrphanSpinner'
      BY <1>10, DiscardPlace DEF Discard, sessionVars
<1>11. CASE LinkDown \/ Reconnect \/ StartDiscarding \/ DiscardingDone
  <2>1. cb["ses"].at # "stop" /\ UNCHANGED <<sessionVars, m_signals>>
        BY <1>11 DEF LinkDown, Reconnect, ReconnectSame, NewSessionOrNone, Reconnecting,
                     StartDiscarding, DiscardingDone
  <2>2. QED BY <1>11, <2>1, ConnectionPlace DEF sessionVars
<1>12. QED BY <1>1, <1>2, <1>3, <1>4, <1>5, <1>6, <1>7, <1>8, <1>9, <1>10, <1>11
           DEF Next, Incoming, WsStep, SesStep, CallbackStep

\* However a new fetch interleaves with the callbacks that end the last one,
\* with a lost connection or a full queue, the fetch spinner is not left
\* turning when no fetch is in progress and no callback is about to stop it.
THEOREM SpinnerIsNotOrphaned == Spec => []NoOrphanSpinner
<1>1. Init => NoOrphanSpinner
      BY DEF Init, NoOrphanSpinner
<1>2. TypeOK /\ NoOrphanSpinner /\ [Next]_vars => NoOrphanSpinner'
      BY SpinnerStep
<1>3. QED BY <1>1, <1>2, TypeCorrect, PTL DEF Spec

\* Conversations and callbacks are of fetches that have been made, and one that
\* has yet to stop the spinner while a fetch is in progress is of an earlier one.
LateInv ==
    /\ \A c \in conv : c[1] # "subscribe" => c[2] <= fetches
    /\ \A t \in {"ws", "ses"} : cb[t].op \in FetchOps => cb[t].id <= fetches
    /\ \A t \in {"ws", "ses"} : Stopping(t) /\ m_fetch_in_progress => cb[t].id < fetches

\* Steps that make no request and begin no callback of a fetch.
LEMMA LateFrame ==
    ASSUME LateInv, conv' \subseteq conv, UNCHANGED fetches,
           m_fetch_in_progress' => m_fetch_in_progress,
           \A t \in {"ws", "ses"} : cb'[t].op \in FetchOps =>
               /\ cb[t].op \in FetchOps /\ cb'[t].id = cb[t].id
               /\ cb'[t].at = "stop" => cb[t].at = "stop" \/ ~m_fetch_in_progress'
    PROVE  LateInv'
BY DEF LateInv, Stopping

\* A message begins a callback, for a fetch that is in the table of conversations.
LEMMA LateRouted ==
    ASSUME TypeOK, LateInv, Answer \/ RouteUpdate \/ \E f \in 1..MaxFetches : RouteTopic(f)
    PROVE  LateInv'
<1> USE DEF FetchOps, SubscribeOps
<1>1. ASSUME NEW kind \in {"command", "subscribe"}, NEW id, NEW request, NEW op,
             op \in FetchOps => kind = "command",
             RouteResponse(kind, id, request, op)
      PROVE  LateInv'
  <2>1. /\ conv' \subseteq conv /\ UNCHANGED <<fetches, m_fetch_in_progress>>
        /\ cb'["ws"].at = "entered" /\ cb'["ws"].op = op /\ cb'["ws"].id = id
        /\ cb'["ses"] = cb["ses"]
        BY <1>1, EnterPlace DEF RouteResponse, sessionVars, countVars
  <2>2. op \in FetchOps => id <= fetches
        BY <1>1 DEF RouteResponse, LateInv
  <2>3. QED BY <2>1, <2>2 DEF LateInv, Stopping
<1>2. CASE Answer
      BY <1>1, <1>2 DEF Answer, RouteFetchResponse, RouteFetchError, RouteSubscribed,
                        RouteSubscribeError
<1>3. CASE RouteUpdate
      BY <1>3, EnterPlace, LateFrame DEF RouteUpdate, sessionVars, libVars, countVars
<1>4. ASSUME NEW f \in 1..MaxFetches, RouteTopic(f) PROVE LateInv'
      BY <1>4, EnterPlace, LateFrame DEF RouteTopic, sessionVars, libVars, countVars
<1>5. QED BY <1>2, <1>3, <1>4

LEMMA LateRequested ==
    ASSUME TypeOK, LateInv, UserFetch \/ UserSubscribe \/ Wait \/ LibraryCall \/ RunTask
    PROVE  LateInv'
<1>1. CASE UserFetch
  <2>1. fetches \in Nat /\ fetches' = fetches + 1 /\ UNCHANGED <<cb, conv>>
        BY <1>1, Counters DEF UserFetch, libVars
  <2>2. \A n \in Nat : n <= fetches => n <= fetches + 1 /\ n < fetches + 1
        BY <2>1
  <2>3. /\ \A t \in {"ws", "ses"} : cb[t].id \in Nat
        /\ \A c \in conv : c[2] \in Nat
        BY DEF TypeOK, Callbacks
  <2>4. QED BY <2>1, <2>2, <2>3 DEF LateInv, Stopping
<1>2. CASE AddCommand \/ AddReply \/ AddSubscribe
  <2>1. PICK c \in {<<"command", fetches>>, <<"reply", fetches>>, <<"subscribe", subscribes>>} :
            conv' = conv \cup {c} /\ UNCHANGED <<fetches, m_fetch_in_progress, cb>>
        BY <1>2 DEF AddCommand, AddReply, AddSubscribe, AddConversation, sessionVars, countVars
  <2>2. fetches \in Nat
        BY Counters
  <2>3. QED BY <2>1, <2>2 DEF LateInv, Stopping
<1>3. CASE UserSubscribe \/ Wait \/ RunTask \/ FetchWithoutTransport \/ SendFetch
              \/ SendSubscribe \/ SendFails
  <2>1. UNCHANGED <<conv, fetches, m_fetch_in_progress, cb>>
        BY <1>3 DEF UserSubscribe, Wait, RunTask, FetchWithoutTransport, SendFetch, SendSubscribe,
                    Send, SendFails, vars, sessionVars, outside, libVars, countVars
  <2>2. QED BY <2>1, LateFrame
<1>4. QED BY <1>1, <1>2, <1>3 DEF LibraryCall

\* A callback goes on: before it stops the spinner it clears m_fetch_in_progress.
LEMMA LateCalledBack ==
    ASSUME TypeOK, LateInv, WsStep \/ SesStep
    PROVE  LateInv'
<1> USE DEF FetchOps, SubscribeOps, At, sessionVars, outside, libVars, countVars
<1>1. CASE OnFetchTopic
      BY <1>1, ReturnPlace, LateFrame DEF OnFetchTopic
<1>2. CASE OnFetchCompleted \/ OnFetchError \/ OnFetchDiscard
  <2>1. ASSUME NEW t \in {"ws", "ses"}, NEW op \in FetchOps, NEW kept, NEW handed,
               EndFetch(t, op, kept, handed)
        PROVE  LateInv'
        BY <2>1, GoOnPlace, LateFrame DEF EndFetch
  <2>2. QED BY <1>2, <2>1 DEF OnFetchCompleted, OnFetchError, OnFetchDiscard
<1>3. CASE OnSubscribeTopic \/ CheckSubscription \/ OnSubscribeCompleted \/ OnSubscribeError
  <2>1. cb["ws"].op \in SubscribeOps /\ cb'["ws"].op \in {cb["ws"].op, "none"} /\ cb'["ses"] = cb["ses"]
        BY <1>3, GoOnPlace, ReturnPlace
        DEF OnSubscribeTopic, CheckSubscription, OnSubscribeCompleted, OnSubscribeError
  <2>2. UNCHANGED <<conv, fetches, m_fetch_in_progress>>
        BY <1>3 DEF OnSubscribeTopic, CheckSubscription, OnSubscribeCompleted, OnSubscribeError
  <2>3. QED BY <2>1, <2>2, LateFrame
<1>4. ASSUME NEW t \in {"ws", "ses"}, CallbackStep(t) PROVE LateInv'
  <2>1. UNCHANGED <<conv, fetches, m_fetch_in_progress>>
        BY <1>4 DEF CallbackStep, StopAnimator, TakeFetchTopics, TakeSubscribeTopics, Post
  <2>2. /\ cb'[t].op = "none" \/ (cb'[t].op = cb[t].op /\ cb'[t].id = cb[t].id /\ cb'[t].at # "stop")
        /\ \A u \in {"ws", "ses"} : u # t => cb'[u] = cb[u]
        BY <1>4, GoOnPlace, TakePlace, ReturnPlace
        DEF CallbackStep, StopAnimator, Post
  <2>3. QED BY <2>1, <2>2, LateFrame
<1>5. ASSUME NEW c \in conv, Discard(c) PROVE LateInv'
      BY <1>5, DiscardPlace DEF Discard, LateInv, Stopping
<1>6. CASE StartDiscarding \/ DiscardingDone
  <2>1. UNCHANGED <<conv, fetches, m_fetch_in_progress>>
        BY <1>6 DEF StartDiscarding, DiscardingDone
  <2>2. QED BY <1>6, <2>1, ConnectionPlace, LateFrame
<1>7. QED BY <1>1, <1>2, <1>3, <1>4, <1>5, <1>6 DEF WsStep, SesStep

LEMMA LateStep ==
    ASSUME TypeOK, LateInv, [Next]_vars
    PROVE  LateInv'
<1>1. CASE Drain \/ UNCHANGED vars \/ \E f \in 1..MaxFetches : RouteStatus(f)
  <2>1. conv' \subseteq conv /\ UNCHANGED <<fetches, m_fetch_in_progress, cb>>
        BY <1>1 DEF Drain, RouteStatus, vars, sessionVars, outside, libVars, countVars
  <2>2. QED BY <2>1, LateFrame
<1>2. CASE LinkDown \/ Reconnect
  <2>1. UNCHANGED <<conv, fetches, m_fetch_in_progress>>
        BY <1>2 DEF LinkDown, Reconnect, ReconnectSame, NewSessionOrNone, sessionVars, countVars
  <2>2. QED BY <1>2, <2>1, ConnectionPlace, LateFrame
<1>3. QED BY <1>1, <1>2, LateRequested, LateRouted, LateCalledBack DEF Next, Incoming

\* SpinnerTakenByEarlier, with lost connections and full queues: nothing but the
\* callback of an earlier fetch takes the spinner of a fetch in progress away.
THEOREM SpinnerIsTakenByEarlier == Spec => SpinnerTakenByEarlier
<1>1. Init => LateInv
      BY DEF Init, LateInv, Stopping, NoCallback, FetchOps
<1>2. TypeOK /\ LateInv /\ [Next]_vars => LateInv'
      BY LateStep
<1>3. ASSUME TypeOK, LateInv, [Next]_vars
      PROVE  [ m_fetch_in_progress' /\ "fetch" \in m_signals =>
                   \/ "fetch" \in m_signals'
                   \/ \E t \in {"ws", "ses"} : Stopping(t) /\ cb[t].id < fetches ]_m_signals
  <2>1. CASE UserFetch \/ UserSubscribe
        BY <2>1 DEF UserFetch, UserSubscribe
  <2>2. ASSUME NEW t \in {"ws", "ses"}, StopAnimator(t), m_fetch_in_progress',
               "fetch" \in m_signals, "fetch" \notin m_signals'
        PROVE  Stopping(t) /\ cb[t].id < fetches
    <3>1. Stopping(t)
          BY <2>2 DEF StopAnimator, SignalOf, Stopping
    <3>2. m_fetch_in_progress
          BY <2>2 DEF StopAnimator, sessionVars
    <3>3. QED BY <1>3, <3>1, <3>2 DEF LateInv
  <2>3. CASE Wait \/ LibraryCall \/ RunTask \/ Drain \/ UNCHANGED vars
                 \/ \E f \in 1..MaxFetches : RouteStatus(f)
        BY <2>3, NoCallbackChanges DEF CallbackVars
  <2>4. CASE Answer \/ RouteUpdate \/ \E f \in 1..MaxFetches : RouteTopic(f)
        BY <1>3, <2>4, RoutedPlace
  <2>5. CASE OnFetchTopic \/ OnFetchCompleted \/ OnFetchError \/ OnFetchDiscard
                 \/ OnSubscribeTopic \/ CheckSubscription \/ OnSubscribeCompleted \/ OnSubscribeError
        BY <2>5 DEF OnFetchTopic, OnFetchCompleted, OnFetchError, OnFetchDiscard, EndFetch,
                    OnSubscribeTopic, CheckSubscription, OnSubscribeCompleted, OnSubscribeError
  <2>6. ASSUME NEW t \in {"ws", "ses"}, TakeFetchTopics(t) \/ TakeSubscribeTopics(t) \/ Post(t)
        PROVE  UNCHANGED m_signals
        BY <2>6 DEF TakeFetchTopics, TakeSubscribeTopics, Post
  <2>7. CASE LinkDown \/ Reconnect \/ StartDiscarding \/ DiscardingDone \/ \E c \in conv : Discard(c)
        BY <2>7 DEF LinkDown, Reconnect, ReconnectSame, NewSessionOrNone, StartDiscarding,
                    DiscardingDone, Discard
  <2>8. QED BY <1>3, <2>1, <2>2, <2>3, <2>4, <2>5, <2>6, <2>7
            DEF Next, Incoming, WsStep, SesStep, CallbackStep
<1>4. QED BY <1>1, <1>2, <1>3, TypeCorrect, PTL DEF Spec, SpinnerTakenByEarlier, Stopping

-----------------------------------------------------------------------------
(* The buffer of updates                                                   *)

LEMMA BufferStep ==
    ASSUME TypeOK, ~Stranded, [Next]_vars, ~OnSubscribeError
    PROVE  ~Stranded'
<1> USE DEF Stranded, Flushing, At
<1>1. CASE UserFetch
      BY <1>1 DEF UserFetch
<1>2. CASE UserSubscribe
      BY <1>2 DEF UserSubscribe
<1>3. CASE \/ Wait \/ LibraryCall \/ RunTask \/ Drain \/ UNCHANGED vars
           \/ \E f \in 1..MaxFetches : RouteStatus(f)
      BY <1>3, NoCallbackChanges DEF CallbackVars
<1>4. CASE Answer \/ RouteUpdate \/ \E f \in 1..MaxFetches : RouteTopic(f)
      BY <1>4, RoutedPlace DEF sessionVars
<1>5. CASE OnFetchTopic
      BY <1>5 DEF OnFetchTopic
<1>6. CASE OnFetchCompleted \/ OnFetchError \/ OnFetchDiscard
  <2>1. ASSUME NEW t \in {"ws", "ses"}, NEW op \in FetchOps, NEW kept, NEW handed,
               EndFetch(t, op, kept, handed)
        PROVE  ~Stranded'
    <3>1. CASE t = "ws"
          BY <2>1, <3>1 DEF EndFetch
    <3>2. CASE t = "ses"
          BY <2>1, <3>2, GoOnPlace DEF EndFetch
    <3>3. QED BY <3>1, <3>2
  <2>2. QED BY <1>6, <2>1 DEF OnFetchCompleted, OnFetchError, OnFetchDiscard, FetchOps
<1>7. CASE OnSubscribeTopic
      BY <1>7, GoOnPlace DEF OnSubscribeTopic
<1>8. CASE CheckSubscription
      BY <1>8, GoOnPlace DEF CheckSubscription, isSubscribtionInProgress, sessionVars
<1>9. CASE OnSubscribeCompleted
      BY <1>9, GoOnPlace DEF OnSubscribeCompleted
<1>10. ASSUME NEW t \in {"ws", "ses"}, StopAnimator(t) PROVE ~Stranded'
  <2>1. /\ cb'[t].at = IF cb[t].op \in {"fetched", "subscribed", "update"} THEN "take" ELSE "post"
        /\ cb'[t].op = cb[t].op
        /\ \A u \in {"ws", "ses"} : u # t => cb'[u] = cb[u]
        BY <1>10, GoOnPlace DEF StopAnimator
  <2>2. QED BY <1>10, <2>1 DEF StopAnimator, sessionVars
<1>11. ASSUME NEW t \in {"ws", "ses"}, TakeSubscribeTopics(t) PROVE ~Stranded'
      BY <1>11 DEF TakeSubscribeTopics
<1>12. ASSUME NEW t \in {"ws", "ses"}, TakeFetchTopics(t) PROVE ~Stranded'
  <2>1. t = "ws" => ~Flushing
        BY <1>12 DEF TakeFetchTopics
  <2>2. QED BY <1>12, <2>1, TakePlace DEF TakeFetchTopics
<1>13. ASSUME NEW t \in {"ws", "ses"}, Post(t) PROVE ~Stranded'
      BY <1>13, ReturnPlace DEF Post, sessionVars
<1>14. ASSUME NEW c \in conv, Discard(c) PROVE ~Stranded'
      BY <1>14, DiscardPlace DEF Discard, sessionVars
<1>15. CASE LinkDown \/ Reconnect \/ StartDiscarding \/ DiscardingDone
  <2>1. UNCHANGED <<sessionVars, cb["ws"]>>
        BY <1>15, ConnectionPlace
           DEF LinkDown, Reconnect, ReconnectSame, NewSessionOrNone, StartDiscarding, DiscardingDone
  <2>2. QED BY <2>1 DEF sessionVars
<1>16. QED BY <1>1, <1>2, <1>3, <1>4, <1>5, <1>6, <1>7, <1>8, <1>9, <1>10, <1>10, <1>11,
              <1>12, <1>13, <1>14, <1>15
           DEF Next, Incoming, WsStep, SesStep, CallbackStep

\* StrandedOnlyByRefusal, for all bounds, with lost connections, a full queue
\* and everything else that happens in the gap.
THEOREM OnlyRefusalsStrand == Spec => StrandedOnlyByRefusal
<1> DEFINE Refusal ==
        /\ At("ws", "entered", "subscribeError")
        /\ m_subscribe_in_progress /\ ~m_subscribe_in_progress'
<1>1. TypeOK /\ [Next]_vars => [Stranded' => Stranded \/ Refusal]_vars
  <2> SUFFICES ASSUME TypeOK, [Next]_vars, ~Stranded, Stranded' PROVE Refusal
      OBVIOUS
  <2>1. OnSubscribeError
        BY BufferStep
  <2>2. /\ At("ws", "entered", "subscribeError")
        /\ m_subscribe_in_progress' = FALSE
        /\ UNCHANGED m_subscrube_topics
        BY <2>1 DEF OnSubscribeError
  <2>3. m_subscribe_in_progress = TRUE
        BY <2>1, <2>2 DEF Stranded, Flushing, At, TypeOK
  <2>4. QED BY <2>2, <2>3
<1>2. QED BY <1>1, TypeCorrect, PTL DEF Spec, StrandedOnlyByRefusal

-----------------------------------------------------------------------------
(* One fetch at a time, as long as the connection holds                    *)

Connected == transport = "up" /\ drops = 0 /\ cb["ses"].at = "out"

\* The inductive invariant: a fetch in progress is in exactly one of three
\* stages, about to open its command conversation, waiting for the response,
\* or in the callback that ends it.
FetchInv ==
    /\ Connected
    /\ ui = "callFetch" => m_fetch_in_progress
    /\ \A f \in Nat : <<"command", f>> \in conv =>
           f = fetches /\ m_fetch_in_progress /\ ui # "callFetch"
    /\ Ending("ws") =>
           /\ m_fetch_in_progress /\ ui # "callFetch"
           /\ \A f \in Nat : <<"command", f>> \notin conv
    /\ FetchHasEnding

LEMMA InitFetchInv == Init => FetchInv
BY DEF Init, FetchInv, Connected, FetchHasEnding, Ending, NoCallback

\* Steps that leave these variables alone, and the command conversations,
\* disturb nothing unless they are a callback that ends a fetch.
LEMMA FetchInvFrame ==
    ASSUME TypeOK, FetchInv,
           UNCHANGED <<transport, drops, fetches, m_fetch_in_progress>>,
           ui' # "callFetch" \/ ui' = ui, ui = "callFetch" => ui' = ui,
           \A f \in Nat : <<"command", f>> \in conv' <=> <<"command", f>> \in conv,
           cb'["ses"].at = "out",
           Ending("ws")' <=> Ending("ws")
    PROVE  FetchInv'
<1>1. fetches \in Nat
      BY Counters
<1>2. Ending("ses")' <=> FALSE
      BY DEF Ending
<1>3. Ending("ses") <=> FALSE
      BY DEF Ending, FetchInv, Connected
<1>4. FetchHasEnding'
      BY <1>1, <1>2, <1>3 DEF FetchHasEnding, FetchInv
<1>5. QED BY <1>4 DEF FetchInv, Connected

LEMMA UiFetchInv ==
    ASSUME TypeOK, FetchInv,
           UserFetch \/ UserSubscribe \/ Wait \/ LibraryCall \/ RunTask
    PROVE  FetchInv'
<1>1. CASE UserFetch
      BY <1>1 DEF UserFetch, Accepts, FetchInv, Connected, FetchHasEnding, Ending, libVars
<1>2. CASE UserSubscribe
      BY <1>2, FetchInvFrame DEF UserSubscribe, FetchInv, Connected, Ending, libVars
<1>3. CASE AddCommand
  <2>1. fetches \in Nat
        BY Counters
  <2>2. \A f \in Nat : <<"command", f>> \in conv' => f = fetches
        BY <1>3 DEF AddCommand, AddConversation, FetchInv
  <2>3. <<"command", fetches>> \in conv' /\ ui' # "callFetch" /\ m_fetch_in_progress'
        BY <1>3 DEF AddCommand, AddConversation, FetchInv, sessionVars
  <2>4. ~Ending("ws")'
        BY <1>3 DEF AddCommand, AddConversation, FetchInv, Ending
  <2>5. Connected' /\ fetches' = fetches
        BY <1>3 DEF AddCommand, AddConversation, FetchInv, Connected, countVars
  <2>6. QED BY <2>1, <2>2, <2>3, <2>4, <2>5 DEF FetchInv, FetchHasEnding
<1>4. CASE AddReply \/ AddSubscribe
  <2>1. ASSUME NEW from \in {"addReply", "callSubscribe"}, NEW to \in {"sendFetch", "sendSubscribe"},
               NEW kind \in {"reply", "subscribe"}, NEW id, AddConversation(from, to, kind, id)
        PROVE  FetchInv'
    <3>1. \A f \in Nat : <<"command", f>> \in conv' <=> <<"command", f>> \in conv
          BY <2>1 DEF AddConversation
    <3>2. QED BY <2>1, <3>1, FetchInvFrame
              DEF AddConversation, FetchInv, Connected, Ending, sessionVars, countVars
  <2>2. QED BY <1>4, <2>1 DEF AddReply, AddSubscribe
<1>5. CASE SendFetch \/ SendSubscribe
  <2>1. ASSUME NEW from \in {"sendFetch", "sendSubscribe"}, NEW kind, NEW id, Send(from, kind, id)
        PROVE  FetchInv'
        BY <2>1, FetchInvFrame DEF Send, FetchInv, Connected, Ending, sessionVars, countVars
  <2>2. QED BY <1>5, <2>1 DEF SendFetch, SendSubscribe
<1>6. CASE SendFails
      BY <1>6, FetchInvFrame DEF SendFails, FetchInv, Connected, Ending, sessionVars, outside,
                                 libVars, countVars
<1>7. CASE FetchWithoutTransport
      BY <1>7 DEF FetchWithoutTransport, FetchInv, Connected
<1>8. CASE Wait
      BY <1>8, FetchInvFrame DEF Wait, vars, FetchInv, Connected, Ending, sessionVars, outside,
                                 libVars, countVars
<1>9. CASE RunTask
      BY <1>9, FetchInvFrame DEF RunTask, FetchInv, Connected, Ending, sessionVars, libVars, countVars
<1>10. QED BY <1>1, <1>2, <1>3, <1>4, <1>5, <1>6, <1>7, <1>8, <1>9 DEF LibraryCall

LEMMA LibraryFetchInv ==
    ASSUME TypeOK, FetchInv, Drain \/ Answer \/ Incoming
    PROVE  FetchInv'
<1> USE ConstantsAssumption
<1>1. CASE Drain
      BY <1>1, FetchInvFrame DEF Drain, FetchInv, Connected, Ending, sessionVars, countVars
<1>2. ASSUME NEW f \in 1..MaxFetches, RouteFetchResponse(f) \/ RouteFetchError(f)
      PROVE  FetchInv'
  <2>1. PICK op \in FetchOps :
            /\ CanRoute /\ <<"command", f>> \in conv
            /\ conv' = conv \ {<<"command", f>>}
            /\ Enter(op, f, {}, <<>>)
            /\ UNCHANGED <<sessionVars, ui, transport, drops, countVars>>
        BY <1>2 DEF RouteFetchResponse, RouteFetchError, RouteResponse, FetchOps
  <2>2. f \in Nat /\ f = fetches /\ m_fetch_in_progress /\ ui # "callFetch"
        BY <2>1 DEF FetchInv
  <2>3. \A g \in Nat : <<"command", g>> \notin conv'
        BY <2>1, <2>2 DEF FetchInv
  <2>4. Ending("ws")' /\ cb'["ses"] = cb["ses"]
        BY <2>1, EnterPlace DEF Ending
  <2>5. QED BY <2>1, <2>2, <2>3, <2>4
            DEF FetchInv, Connected, FetchHasEnding, sessionVars, countVars
<1>3. ASSUME NEW s \in 1..MaxSubscribes, RouteSubscribed(s) \/ RouteSubscribeError(s)
      PROVE  FetchInv'
  <2>1. PICK op \in SubscribeOps :
            /\ CanRoute /\ conv' = conv \ {<<"subscribe", s>>}
            /\ Enter(op, s, {}, <<>>)
            /\ UNCHANGED <<sessionVars, ui, transport, drops, countVars>>
        BY <1>3 DEF RouteSubscribed, RouteSubscribeError, RouteResponse, SubscribeOps
  <2>2. ~Ending("ws")' /\ cb'["ses"] = cb["ses"] /\ ~Ending("ws")
        BY <2>1, EnterPlace DEF Ending, FetchOps, SubscribeOps, CanRoute, Draining
  <2>3. \A f \in Nat : <<"command", f>> \in conv' <=> <<"command", f>> \in conv
        BY <2>1
  <2>4. QED BY <2>1, <2>2, <2>3, FetchInvFrame DEF FetchInv, Connected, sessionVars, countVars
<1>4. ASSUME NEW f \in 1..MaxFetches, RouteTopic(f) PROVE FetchInv'
  <2>1. ~Ending("ws")' /\ cb'["ses"] = cb["ses"] /\ ~Ending("ws")
        BY <1>4, EnterPlace DEF RouteTopic, Ending, FetchOps, CanRoute, Draining
  <2>2. QED BY <1>4, <2>1, FetchInvFrame
            DEF RouteTopic, FetchInv, Connected, sessionVars, libVars, countVars
<1>5. CASE RouteUpdate
  <2>1. ~Ending("ws")' /\ cb'["ses"] = cb["ses"] /\ ~Ending("ws")
        BY <1>5, EnterPlace DEF RouteUpdate, Ending, FetchOps, CanRoute, Draining
  <2>2. QED BY <1>5, <2>1, FetchInvFrame
            DEF RouteUpdate, FetchInv, Connected, sessionVars, libVars, countVars
<1>6. ASSUME NEW f \in 1..MaxFetches, RouteStatus(f) PROVE FetchInv'
  <2>1. \A g \in Nat : <<"command", g>> \in conv' <=> <<"command", g>> \in conv
        BY <1>6 DEF RouteStatus
  <2>2. QED BY <1>6, <2>1, FetchInvFrame
            DEF RouteStatus, FetchInv, Connected, Ending, sessionVars, countVars
<1>7. QED BY <1>1, <1>2, <1>3, <1>4, <1>5, <1>6 DEF Answer, Incoming

\* The session thread is in no callback, so t is "ws" in these steps.
LEMMA CallbackFetchInv ==
    ASSUME TypeOK, FetchInv, WsStep \/ CallbackStep("ses")
    PROVE  FetchInv'
<1> USE DEF FetchInv, Connected, outside, libVars, countVars
<1>1. CASE OnFetchTopic
  <2>1. ~Ending("ws") /\ ~Ending("ws")' /\ cb'["ses"] = cb["ses"]
        BY <1>1, ReturnPlace DEF OnFetchTopic, At, Ending, FetchOps
  <2>2. QED BY <1>1, <2>1, FetchInvFrame DEF OnFetchTopic
<1>2. CASE OnFetchCompleted \/ OnFetchError
  <2>1. PICK op \in FetchOps : \E kept, handed \in Selectors : EndFetch("ws", op, kept, handed)
        BY <1>2 DEF OnFetchCompleted, OnFetchError, FetchOps, TypeOK, NoSelector, Selectors
  <2>2. Ending("ws") /\ ~Ending("ws")' /\ cb'["ses"] = cb["ses"]
        BY <2>1, GoOnPlace DEF EndFetch, At, Ending
  <2>3. m_fetch_in_progress' = FALSE
        BY <2>1 DEF EndFetch
  <2>4. QED BY <2>1, <2>2, <2>3 DEF EndFetch, FetchHasEnding
<1>3. CASE OnSubscribeTopic \/ CheckSubscription \/ OnSubscribeCompleted \/ OnSubscribeError
  <2>1. ~Ending("ws") /\ ~Ending("ws")' /\ cb'["ses"] = cb["ses"]
        BY <1>3, GoOnPlace, ReturnPlace
        DEF OnSubscribeTopic, CheckSubscription, OnSubscribeCompleted, OnSubscribeError, At, Ending,
            FetchOps
  <2>2. QED BY <1>3, <2>1, FetchInvFrame
            DEF OnSubscribeTopic, CheckSubscription, OnSubscribeCompleted, OnSubscribeError, sessionVars
<1>4. ASSUME NEW t \in {"ws", "ses"}, CallbackStep(t) PROVE FetchInv'
  <2>1. t = "ws"
        BY <1>4 DEF CallbackStep, StopAnimator, TakeFetchTopics, TakeSubscribeTopics, Post, At
  <2>2. ~Ending("ws") /\ ~Ending("ws")' /\ cb'["ses"] = cb["ses"]
        BY <1>4, <2>1, GoOnPlace, TakePlace, ReturnPlace
        DEF CallbackStep, StopAnimator, TakeFetchTopics, TakeSubscribeTopics, Post, At, Ending
  <2>3. QED BY <1>4, <2>2, FetchInvFrame
            DEF CallbackStep, StopAnimator, TakeFetchTopics, TakeSubscribeTopics, Post, sessionVars
<1>5. QED BY <1>1, <1>2, <1>3, <1>4 DEF WsStep

LEMMA FetchInvStep ==
    ASSUME MaxDrops = 0, TypeOK, FetchInv, [Next]_vars
    PROVE  FetchInv'
<1>1. ~LinkDown /\ ~Reconnect
      BY DEF FetchInv, Connected, LinkDown, Reconnect, ReconnectSame, NewSessionOrNone, Reconnecting
<1>2. ~(StartDiscarding \/ DiscardingDone \/ OnFetchDiscard \/ \E c \in conv : Discard(c))
      BY DEF FetchInv, Connected, StartDiscarding, DiscardingDone, OnFetchDiscard, EndFetch, At, Discard
<1>3. CASE UNCHANGED vars
      BY <1>3, FetchInvFrame DEF vars, FetchInv, Connected, Ending, sessionVars, outside,
                                 libVars, countVars
<1>4. QED BY <1>1, <1>2, <1>3, UiFetchInv, LibraryFetchInv, CallbackFetchInv DEF Next, SesStep

LEMMA FetchInvHolds ==
    ASSUME MaxDrops = 0
    PROVE  Spec => []FetchInv
<1>1. TypeOK /\ FetchInv /\ [Next]_vars => FetchInv'
      BY FetchInvStep
<1>2. QED BY <1>1, InitFetchInv, TypeCorrect, PTL DEF Spec

\* As long as the connection holds, a fetch that is in progress has an ending
\* on its way: m_fetch_in_progress, which turns away every further request, is
\* never set without something that is going to clear it.
THEOREM FetchIsNotStuck ==
    ASSUME MaxDrops = 0
    PROVE  Spec => []FetchHasEnding
<1>1. FetchInv => FetchHasEnding
      BY DEF FetchInv
<1>2. QED BY <1>1, FetchInvHolds, PTL

\* As long as the connection holds, fetches do not overlap: an open command
\* conversation is that of the last fetch, which is in progress.
THEOREM FetchesDoNotOverlap ==
    ASSUME MaxDrops = 0
    PROVE  Spec => []OneFetch
<1>1. FetchInv => OneFetch
      BY ConstantsAssumption DEF FetchInv, OneFetch
<1>2. QED BY <1>1, FetchInvHolds, PTL

-----------------------------------------------------------------------------
(* The library's outbound queue                                            *)

\* The UI thread has a request that it has not queued yet.
Requesting == ui \in {"callFetch", "addReply", "sendFetch", "callSubscribe", "sendSubscribe"}

\* Every queued request, and the one that is not queued yet, was made.
QueueInv ==
    /\ Len(outbound) + (IF Requesting THEN 1 ELSE 0) <= fetches + subscribes
    /\ SelfLockNeedsFullQueue

\* The length of the queue and the number of requests.
LEMMA QueueLength ==
    ASSUME TypeOK
    PROVE  Len(outbound) \in Nat /\ fetches \in Nat /\ subscribes \in Nat
BY Counters, LenProperties DEF TypeOK

\* A request is queued, or the oldest one is sent.
LEMMA QueueChanges ==
    ASSUME TypeOK
    PROVE  /\ \A from, kind, id : Send(from, kind, id) => Len(outbound') = Len(outbound) + 1
           /\ Drain => Len(outbound') = Len(outbound) - 1 /\ Len(outbound) > 0
<1>1. outbound \in Seq({"fetch", "subscribe"} \X Nat)
      BY DEF TypeOK
<1>2. ASSUME NEW from, NEW kind, NEW id, Send(from, kind, id)
      PROVE  Len(outbound') = Len(outbound) + 1
      BY <1>1, <1>2 DEF Send
<1>3. ASSUME Drain PROVE Len(outbound') = Len(outbound) - 1 /\ Len(outbound) > 0
      BY <1>1, <1>3, HeadTailProperties, EmptySeq DEF Drain
<1>4. QED BY <1>2, <1>3

LEMMA QueueStep ==
    ASSUME TypeOK, QueueInv, [Next]_vars
    PROVE  QueueInv'
<1> USE QueueLength DEF QueueInv, SelfLockNeedsFullQueue, Requesting
<1>1. CASE UserFetch \/ UserSubscribe
      BY <1>1 DEF UserFetch, UserSubscribe, libVars
<1>2. CASE FetchWithoutTransport
      BY <1>2 DEF FetchWithoutTransport, outside, libVars, countVars
<1>3. CASE AddCommand \/ AddReply \/ AddSubscribe
      BY <1>3 DEF AddCommand, AddReply, AddSubscribe, AddConversation, countVars
<1>4. CASE SendFetch \/ SendSubscribe
  <2>1. Len(outbound') = Len(outbound) + 1 /\ ui' = "idle" /\ Requesting
        /\ UNCHANGED <<fetches, subscribes>>
        BY <1>4, QueueChanges DEF SendFetch, SendSubscribe, Send, countVars
  <2>2. QED BY <2>1
<1>5. CASE SendFails
  <2>1. Len(outbound) >= Capacity /\ Capacity \in Nat /\ Requesting /\ ui' = "selfLock"
        /\ UNCHANGED <<outbound, fetches, subscribes>>
        BY <1>5, ConstantsAssumption DEF SendFails, QueueFull, outside, libVars, countVars
  <2>2. QED BY <2>1
<1>6. CASE Drain
  <2>1. Len(outbound') = Len(outbound) - 1 /\ UNCHANGED <<ui, fetches, subscribes>>
        BY <1>6, QueueChanges DEF Drain, countVars
  <2>2. QED BY <2>1
<1>7. ASSUME UNCHANGED <<ui, outbound, fetches, subscribes>> PROVE QueueInv'
      BY <1>7
<1>8. CASE Wait \/ RunTask \/ Answer \/ Incoming \/ UNCHANGED vars
  <2>1. UNCHANGED <<ui, outbound, fetches, subscribes>>
        BY <1>8 DEF Wait, RunTask, Answer, RouteFetchResponse, RouteFetchError, RouteSubscribed,
                    RouteSubscribeError, RouteResponse, Incoming, RouteTopic, RouteStatus, RouteUpdate,
                    vars, outside, libVars, countVars
  <2>2. QED BY <1>7, <2>1
<1>9. CASE WsStep \/ SesStep
  <2>1. UNCHANGED <<ui, outbound, fetches, subscribes>>
        BY <1>9 DEF WsStep, SesStep, OnFetchTopic, OnFetchCompleted, OnFetchError, OnFetchDiscard,
                    EndFetch, OnSubscribeTopic, CheckSubscription, OnSubscribeCompleted,
                    OnSubscribeError, CallbackStep, StopAnimator, TakeFetchTopics,
                    TakeSubscribeTopics, Post, StartDiscarding, Discard, DiscardingDone,
                    outside, libVars, countVars
  <2>2. QED BY <1>7, <2>1
<1>10. CASE LinkDown \/ Reconnect
      BY <1>7, <1>10 DEF LinkDown, Reconnect, ReconnectSame, NewSessionOrNone, countVars
<1>11. QED BY <1>1, <1>2, <1>3, <1>4, <1>5, <1>6, <1>8, <1>9, <1>10 DEF Next, LibraryCall

\* SelfLockNeedsFullQueue, for all bounds, with lost connections: the error
\* callback that locks m_operationMutex for a second time is called only after
\* more requests than the queue can hold.
THEOREM SelfLockIsRare == Spec => []SelfLockNeedsFullQueue
<1>1. Init => QueueInv
  <2>1. Init => Len(outbound) = 0
        BY EmptySeq DEF Init
  <2>2. QED BY <2>1 DEF Init, QueueInv, Requesting, SelfLockNeedsFullQueue
<1>2. TypeOK /\ QueueInv /\ [Next]_vars => QueueInv'
      BY QueueStep
<1>3. QueueInv => SelfLockNeedsFullQueue
      BY DEF QueueInv
<1>4. QED BY <1>1, <1>2, <1>3, TypeCorrect, PTL DEF Spec

-----------------------------------------------------------------------------
(* The user interface, as long as the connection holds                     *)

Queued(i) == outbound[i][1] = "fetch"
FetchQueued == \E i \in 1..Len(outbound) : Queued(i)
Fetching == ui \in {"callFetch", "addReply", "sendFetch"}

\* The last fetch is on its way to the server.
FetchUnderway == FetchQueued \/ Fetching

\* A fetch that is on its way is in progress, so no other is made: one fetch at
\* most is in the queue, besides the subscribe requests.
RoomInv ==
    /\ ui # "selfLock"
    /\ Len(outbound) + (IF ui \in {"callSubscribe", "sendSubscribe"} THEN 1 ELSE 0)
           <= subscribes + (IF FetchQueued THEN 1 ELSE 0)
    /\ \A i, j \in 1..Len(outbound) : Queued(i) /\ Queued(j) => i = j
    /\ \A i \in 1..Len(outbound) : Queued(i) => outbound[i][2] = fetches
    /\ FetchQueued => ~Fetching
    /\ FetchUnderway =>
           /\ m_fetch_in_progress /\ ~Ending("ws")
           /\ \A r \in serving : r[1] = "fetch" => r[2] # fetches
    /\ \A r \in serving : r[1] = "fetch" => r[2] <= fetches

\* There is room in the queue for the request that the UI thread has, then.
LEMMA RoomInQueue ==
    ASSUME MaxSubscribes < Capacity, TypeOK, RoomInv
    PROVE  ui \in {"sendFetch", "sendSubscribe"} => ~QueueFull
<1>1. subscribes <= MaxSubscribes /\ MaxSubscribes \in Nat /\ Capacity \in Nat
      BY ConstantsAssumption DEF TypeOK
<1>2. ui \in {"sendFetch", "sendSubscribe"} => Len(outbound) <= subscribes
      BY QueueLength DEF RoomInv, Fetching
<1>3. QED BY <1>1, <1>2, QueueLength DEF QueueFull

\* Steps that neither queue nor send a request, nor make one.
LEMMA RoomFrame ==
    ASSUME TypeOK, RoomInv, UNCHANGED <<ui, outbound, serving, fetches, subscribes>>,
           FetchUnderway => m_fetch_in_progress' /\ ~Ending("ws")'
    PROVE  RoomInv'
BY DEF RoomInv, FetchUnderway, FetchQueued, Queued, Fetching

LEMMA RoomRequested ==
    ASSUME TypeOK, FetchInv, RoomInv, UserFetch \/ UserSubscribe
    PROVE  RoomInv'
<1> USE QueueLength
<1>1. CASE UserFetch
  <2>1. ~FetchUnderway /\ ~Ending("ws")
        BY <1>1 DEF UserFetch, Accepts, RoomInv, FetchInv
  <2>2. /\ fetches' = fetches + 1 /\ m_fetch_in_progress' = TRUE /\ ui = "idle" /\ ui' = "callFetch"
        /\ UNCHANGED <<cb, outbound, serving, subscribes>>
        BY <1>1 DEF UserFetch, libVars, serverVars
  <2>3. ~FetchQueued' /\ ~FetchQueued /\ ~Ending("ws")'
        BY <2>1, <2>2 DEF FetchUnderway, FetchQueued, Queued, Ending
  <2>4. ASSUME NEW r \in serving, r[1] = "fetch" PROVE r[2] <= fetches' /\ r[2] # fetches'
    <3>1. r[2] <= fetches
          BY <2>4 DEF RoomInv
    <3>2. r[2] \in Nat
          BY DEF TypeOK
    <3>3. QED BY <2>2, <3>1, <3>2
  <2>5. QED BY <2>2, <2>3, <2>4 DEF RoomInv, FetchUnderway, FetchQueued
<1>2. CASE UserSubscribe
  <2>1. /\ subscribes' = subscribes + 1 /\ ui = "idle" /\ ui' = "callSubscribe"
        /\ UNCHANGED <<cb, outbound, serving, fetches, m_fetch_in_progress>>
        BY <1>2 DEF UserSubscribe, libVars, serverVars
  <2>2. QED BY <2>1 DEF RoomInv, FetchUnderway, FetchQueued, Queued, Fetching, Ending
<1>3. QED BY <1>1, <1>2

\* Send appends, and ends the call of a fetch or of a subscribe.
LEMMA RoomQueued ==
    ASSUME TypeOK, RoomInv, SendFetch \/ SendSubscribe
    PROVE  RoomInv'
<1> USE QueueLength
<1>1. PICK entry \in {<<"fetch", fetches>>, <<"subscribe", subscribes>>} :
          /\ outbound' = Append(outbound, entry)
          /\ ui = IF entry[1] = "fetch" THEN "sendFetch" ELSE "sendSubscribe"
      BY DEF SendFetch, SendSubscribe, Send
<1>2. PICK n \in Nat : n = Len(outbound)
      OBVIOUS
<1>3. /\ Len(outbound') = n + 1 /\ outbound'[n + 1] = entry
      /\ \A i \in 1..n : outbound'[i] = outbound[i]
      BY <1>1, <1>2, AppendProperties DEF TypeOK
<1>4. ui' = "idle" /\ UNCHANGED <<cb, serving, fetches, subscribes, m_fetch_in_progress>>
      BY DEF SendFetch, SendSubscribe, Send, sessionVars, serverVars, countVars
<1>5. CASE entry[1] = "fetch"
  <2>1. ~FetchQueued /\ FetchUnderway /\ Fetching
        BY <1>1, <1>5 DEF RoomInv, Fetching, FetchUnderway
  <2>2. \A i \in 1..(n + 1) : Queued(i)' <=> i = n + 1
        BY <1>2, <1>3, <1>5, <2>1 DEF FetchQueued, Queued
  <2>3. FetchQueued' /\ ~Fetching'
        BY <1>3, <1>4, <2>2 DEF FetchQueued, Fetching
  <2>4. entry[2] = fetches
        BY <1>1, <1>5
  <2>5. QED BY <1>1, <1>2, <1>3, <1>4, <1>5, <2>1, <2>2, <2>3, <2>4 DEF RoomInv, FetchUnderway, Ending
<1>6. CASE entry[1] # "fetch"
  <2>1. \A i \in 1..(n + 1) : Queued(i)' <=> i \in 1..n /\ Queued(i)
        BY <1>2, <1>3, <1>6 DEF Queued
  <2>2. (FetchQueued' <=> FetchQueued) /\ ~Fetching'
        BY <1>2, <1>3, <1>4, <2>1 DEF FetchQueued, Fetching
  <2>3. \A i \in 1..(n + 1) : Queued(i)' => outbound'[i][2] = fetches'
        BY <1>2, <1>3, <1>4, <2>1 DEF RoomInv
  <2>4. QED BY <1>1, <1>2, <1>3, <1>4, <1>6, <2>1, <2>2, <2>3 DEF RoomInv, FetchUnderway, Ending
<1>7. QED BY <1>5, <1>6

\* The oldest request reaches the server.
LEMMA RoomSent ==
    ASSUME TypeOK, RoomInv, Drain
    PROVE  RoomInv'
<1> USE QueueLength
<1>1. PICK n \in Nat : n = Len(outbound)
      OBVIOUS
<1>2. /\ n >= 1 /\ Len(outbound') = n - 1 /\ Head(outbound) = outbound[1]
      /\ \A i \in 1..(n - 1) : outbound'[i] = outbound[i + 1]
      BY <1>1, HeadTailProperties, EmptySeq DEF Drain, TypeOK
<1>3. UNCHANGED <<ui, cb, fetches, subscribes, m_fetch_in_progress>>
      BY DEF Drain, sessionVars, countVars
<1>4. PICK v : serving' = serving \cup {<<outbound[1][1], outbound[1][2], v>>}
      BY <1>2 DEF Drain
<1>5. \A i \in 1..(n - 1) : i + 1 \in 1..n /\ i + 1 # 1 /\ (Queued(i)' <=> Queued(i + 1))
      BY <1>2 DEF Queued
<1>6. \A i, j \in 1..(n - 1) : Queued(i)' /\ Queued(j)' => i = j
      BY <1>1, <1>5 DEF RoomInv
<1>7. \A i \in 1..(n - 1) : Queued(i)' => outbound'[i][2] = fetches'
      BY <1>1, <1>2, <1>3, <1>5 DEF RoomInv
<1>8. 1 \in 1..n
      BY <1>2
<1>9. CASE Queued(1)
  <2>1. ~FetchQueued' /\ FetchQueued /\ ~Fetching'
        BY <1>1, <1>2, <1>3, <1>5, <1>8, <1>9 DEF RoomInv, FetchQueued, Fetching
  <2>2. \A r \in serving' : r[1] = "fetch" => r[2] <= fetches'
        BY <1>1, <1>3, <1>4, <1>8, <1>9 DEF RoomInv
  <2>3. QED BY <1>1, <1>2, <1>3, <1>6, <1>7, <2>1, <2>2 DEF RoomInv, FetchUnderway
<1>10. CASE ~Queued(1)
  <2>1. ASSUME FetchQueued PROVE FetchQueued'
    <3>1. PICK i \in 1..n : Queued(i)
          BY <1>1, <2>1 DEF FetchQueued
    <3>2. i - 1 \in 1..(n - 1) /\ (i - 1) + 1 = i
          BY <1>10, <3>1
    <3>3. QED BY <1>2, <1>5, <3>1, <3>2 DEF FetchQueued
  <2>2. FetchQueued' => FetchQueued
        BY <1>1, <1>2, <1>5 DEF FetchQueued
  <2>3. \A r \in serving' : r[1] = "fetch" => r \in serving
        BY <1>4, <1>10 DEF Queued
  <2>4. QED BY <1>1, <1>2, <1>3, <1>6, <1>7, <2>1, <2>2, <2>3
            DEF RoomInv, FetchUnderway, Fetching, Ending
<1>11. QED BY <1>9, <1>10

\* A fetch is answered only when it has reached the server.
LEMMA RoomRouted ==
    ASSUME TypeOK, FetchInv, RoomInv, Answer \/ Incoming
    PROVE  RoomInv'
<1>1. UNCHANGED <<ui, outbound, serving, fetches, subscribes, m_fetch_in_progress>>
      BY DEF Answer, RouteFetchResponse, RouteFetchError, RouteSubscribed, RouteSubscribeError,
             RouteResponse, Incoming, RouteTopic, RouteStatus, RouteUpdate, sessionVars, serverVars,
             libVars, countVars
<1>2. ASSUME NEW f \in 1..MaxFetches, RouteFetchResponse(f) \/ RouteFetchError(f)
      PROVE  ~FetchUnderway
  <2>1. f \in Nat /\ <<"command", f>> \in conv
        BY <1>2, ConstantsAssumption DEF RouteFetchResponse, RouteFetchError, RouteResponse
  <2>2. PICK v : <<"fetch", f, v>> \in serving
        BY <1>2 DEF RouteFetchResponse, RouteFetchError, RouteResponse
  <2>3. f = fetches
        BY <2>1 DEF FetchInv
  <2>4. QED BY <2>2, <2>3 DEF RoomInv
<1>3. ASSUME NEW op \in SubscribeOps \cup {"topic"}, NEW id, NEW topics, NEW batch,
             Enter(op, id, topics, batch)
      PROVE  ~Ending("ws")'
      BY <1>3, EnterPlace DEF Ending, SubscribeOps, FetchOps
<1>4. ASSUME NEW s \in 1..MaxSubscribes, RouteSubscribed(s) \/ RouteSubscribeError(s)
      PROVE  ~Ending("ws")'
      BY <1>3, <1>4 DEF RouteSubscribed, RouteSubscribeError, RouteResponse, SubscribeOps
<1>5. CASE RouteUpdate \/ \E f \in 1..MaxFetches : RouteTopic(f)
  <2>1. ~Ending("ws")'
        BY <1>3, <1>5 DEF RouteUpdate, RouteTopic, SubscribeOps
  <2>2. QED BY <1>1, <2>1, RoomFrame DEF RoomInv
<1>6. ASSUME NEW f \in 1..MaxFetches, RouteStatus(f) PROVE cb' = cb
      BY <1>6 DEF RouteStatus
<1>7. QED BY <1>1, <1>2, <1>4, <1>5, <1>6, RoomFrame DEF Answer, Incoming, RoomInv, Ending

\* No callback is begun, and none ends a fetch that is on its way.
LEMMA RoomCalledBack ==
    ASSUME TypeOK, FetchInv, RoomInv, WsStep \/ CallbackStep("ses")
    PROVE  RoomInv'
<1>1. UNCHANGED <<ui, outbound, serving, fetches, subscribes>>
      BY DEF WsStep, OnFetchTopic, OnFetchCompleted, OnFetchError, EndFetch, OnSubscribeTopic,
             CheckSubscription, OnSubscribeCompleted, OnSubscribeError, CallbackStep, StopAnimator,
             TakeFetchTopics, TakeSubscribeTopics, Post, outside, serverVars, libVars, countVars
<1>2. cb'["ws"].at = "entered" => cb' = cb
      BY GoOnPlace, ReturnPlace, TakePlace
         DEF WsStep, OnFetchTopic, OnFetchCompleted, OnFetchError, EndFetch, OnSubscribeTopic,
             CheckSubscription, OnSubscribeCompleted, OnSubscribeError, CallbackStep, StopAnimator,
             Post, FetchInv, Connected, At
<1>3. CASE OnFetchCompleted \/ OnFetchError
  <2>1. Ending("ws")
        BY <1>3 DEF OnFetchCompleted, OnFetchError, EndFetch, At, Ending, FetchOps
  <2>2. QED BY <1>1, <2>1, RoomFrame DEF RoomInv
<1>4. CASE ~(OnFetchCompleted \/ OnFetchError)
  <2>1. m_fetch_in_progress' = m_fetch_in_progress
        BY <1>4 DEF WsStep, OnFetchTopic, OnSubscribeTopic, CheckSubscription, OnSubscribeCompleted,
             OnSubscribeError, CallbackStep, StopAnimator, TakeFetchTopics, TakeSubscribeTopics,
             Post, sessionVars
  <2>2. QED BY <1>1, <1>2, <2>1, RoomFrame DEF RoomInv, Ending
<1>5. QED BY <1>3, <1>4

LEMMA RoomStep ==
    ASSUME MaxDrops = 0, MaxSubscribes < Capacity, TypeOK, FetchInv, RoomInv, [Next]_vars
    PROVE  RoomInv'
<1>1. ~LinkDown /\ ~Reconnect
      BY DEF FetchInv, Connected, LinkDown, Reconnect, ReconnectSame, NewSessionOrNone, Reconnecting
<1>2. ~(StartDiscarding \/ DiscardingDone \/ OnFetchDiscard \/ \E c \in conv : Discard(c))
      BY DEF FetchInv, Connected, StartDiscarding, DiscardingDone, OnFetchDiscard, EndFetch, At, Discard
<1>3. ~SendFails /\ ~FetchWithoutTransport
      BY RoomInQueue DEF SendFails, FetchWithoutTransport, FetchInv, Connected
<1>4. CASE Wait \/ RunTask \/ UNCHANGED vars
  <2>1. UNCHANGED <<ui, outbound, serving, fetches, subscribes, m_fetch_in_progress, cb>>
        BY <1>4 DEF Wait, RunTask, vars, sessionVars, outside, serverVars, libVars, countVars
  <2>2. QED BY <2>1, RoomFrame DEF RoomInv, Ending
<1>5. CASE AddCommand \/ AddReply \/ AddSubscribe
  <2>1. /\ UNCHANGED <<outbound, serving, fetches, subscribes, m_fetch_in_progress, cb>>
        /\ \/ ui \in {"callFetch", "addReply"} /\ ui' \in {"addReply", "sendFetch"}
           \/ ui = "callSubscribe" /\ ui' = "sendSubscribe"
        BY <1>5 DEF AddCommand, AddReply, AddSubscribe, AddConversation, sessionVars, serverVars,
                    countVars
  <2>2. Fetching' <=> Fetching
        BY <2>1 DEF Fetching
  <2>3. QED BY <2>1, <2>2 DEF RoomInv, FetchUnderway, FetchQueued, Queued, Ending
<1>6. QED BY <1>1, <1>2, <1>3, <1>4, <1>5, RoomRequested, RoomQueued, RoomSent, RoomRouted,
             RoomCalledBack DEF Next, LibraryCall, SesStep

\* UiIsNotBlocked, for all bounds, as long as the connection holds and there are
\* fewer subscribe requests than the queue can hold: Session::fetch and
\* Session::subscribe find the handler mutex free and room in the queue, although
\* the transport thread may wait for the mutex that they hold.
THEOREM UiIsNeverBlocked ==
    ASSUME MaxDrops = 0, MaxSubscribes < Capacity
    PROVE  Spec => []UiIsNotBlocked
<1>1. Init => RoomInv
  <2>1. Init => Len(outbound) = 0 /\ outbound = <<>>
        BY EmptySeq DEF Init
  <2>2. QED BY <2>1 DEF Init, RoomInv, FetchUnderway, FetchQueued, Fetching
<1>2. TypeOK /\ FetchInv /\ RoomInv /\ [Next]_vars => RoomInv'
      BY RoomStep
<1>3. TypeOK /\ FetchInv /\ RoomInv => UiIsNotBlocked
  <2>1. FetchInv => HandlerFree
        BY DEF FetchInv, Connected, HandlerFree
  <2>2. QED BY <2>1, RoomInQueue DEF RoomInv, UiIsNotBlocked
<1>4. QED BY <1>1, <1>2, <1>3, FetchInvHolds, TypeCorrect, PTL DEF Spec
=============================================================================
