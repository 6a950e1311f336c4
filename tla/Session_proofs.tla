--------------------------- MODULE Session_proofs ---------------------------
(* Proofs about module Session, for every value of its bounds.             *)
EXTENDS Session, SequenceTheorems, TLAPS

Places == {"out", "connected", "loop", "entered", "check", "stop", "take", "post"}

LEMMA NoCallbackType == NoCallback \in Callbacks
BY EmptySeq DEF NoCallback, Callbacks, NoSelector, Selectors, Ops, FetchOps, SubscribeOps

LEMMA ReturnType ==
    ASSUME TypeOK, NEW t \in {"ws", "ses"}, Return(t)
    PROVE  cb' \in [{"ws", "ses"} -> Callbacks]
BY NoCallbackType DEF TypeOK, Return, Callbacks

LEMMA GoOnType ==
    ASSUME TypeOK, NEW t \in {"ws", "ses"}, NEW at \in Places, NEW sel \in Selectors,
           GoOn(t, at, sel)
    PROVE  cb' \in [{"ws", "ses"} -> Callbacks]
<1>1. cb \in [{"ws", "ses"} -> Callbacks] /\ cb[t] \in Callbacks
      BY DEF TypeOK
<1>2. [cb[t] EXCEPT !.at = at, !.sel = sel] \in Callbacks
      BY <1>1 DEF Callbacks, Places
<1>3. cb' = [cb EXCEPT ![t] = [cb[t] EXCEPT !.at = at, !.sel = sel]]
      BY <1>1 DEF GoOn
<1>4. QED BY <1>1, <1>2, <1>3

LEMMA EnterType ==
    ASSUME TypeOK, NEW op \in Ops, NEW id \in Nat, NEW topics \in SUBSET (Nat \X Nat),
           NEW batch \in Seq(Nat), Enter(op, id, topics, batch)
    PROVE  cb' \in [{"ws", "ses"} -> Callbacks]
BY NoCallbackType DEF TypeOK, Enter, Callbacks

\* The counters are numbers, which their bounds do not say by themselves.
LEMMA Counters ==
    ASSUME TypeOK
    PROVE  {fetches, subscribes, updates, drops} \subseteq Nat
BY ConstantsAssumption DEF TypeOK

\* A counter that is below its bound may be incremented.
LEMMA Incremented ==
    ASSUME NEW n \in Nat, NEW bound \in Nat, n < bound
    PROVE  n + 1 \in Nat /\ n + 1 \in 0..bound
OBVIOUS

LEMMA InitType == Init => TypeOK
<1> SUFFICES ASSUME Init PROVE TypeOK
    OBVIOUS
<1>1. cb \in [{"ws", "ses"} -> Callbacks]
      BY NoCallbackType DEF Init
<1>2. m_selector \in Selectors
      BY DEF Init, NoSelector, Selectors
<1>3. shown \in [op : Ops, id : Nat, topics : SUBSET (Nat \X Nat)]
      BY DEF Init, Ops
<1>4. /\ m_subscrube_topics \in Seq(Nat) /\ tasks \in Seq(Callbacks)
      /\ m_subscribe_topics \in Seq(Nat) /\ labels \in Seq(Selectors)
      /\ outbound \in Seq({"fetch", "subscribe"} \X Nat)
      BY EmptySeq DEF Init
<1>5. Len(outbound) <= Capacity
      BY EmptySeq, ConstantsAssumption DEF Init
<1>6. sent \in [1..MaxFetches -> 0..TopicsPerFetch]
      BY ConstantsAssumption DEF Init
<1>7. /\ updates \in 0..MaxUpdates /\ fetches \in 0..MaxFetches
      /\ subscribes \in 0..MaxSubscribes /\ drops \in 0..MaxDrops
      BY ConstantsAssumption DEF Init
<1>8. QED BY <1>1, <1>2, <1>3, <1>4, <1>5, <1>6, <1>7 DEF Init, TypeOK

LEMMA AddConversationType ==
    ASSUME TypeOK, NEW from, NEW to \in {"addReply", "sendFetch", "sendSubscribe"},
           NEW kind \in {"command", "reply", "subscribe"}, NEW id \in Nat,
           AddConversation(from, to, kind, id)
    PROVE  TypeOK'
<1>1. conv' \in SUBSET ({"command", "reply", "subscribe"} \X Nat)
      BY DEF TypeOK, AddConversation
<1>2. QED BY <1>1 DEF TypeOK, AddConversation, sessionVars, screenVars, serverVars, countVars

LEMMA SendType ==
    ASSUME TypeOK, NEW from, NEW kind \in {"fetch", "subscribe"}, NEW id \in Nat,
           Send(from, kind, id)
    PROVE  TypeOK'
<1>1. outbound \in Seq({"fetch", "subscribe"} \X Nat) /\ <<kind, id>> \in {"fetch", "subscribe"} \X Nat
      BY DEF TypeOK
<1>2. /\ outbound' \in Seq({"fetch", "subscribe"} \X Nat)
      /\ Len(outbound') = Len(outbound) + 1
      BY <1>1, AppendProperties DEF Send
<1>3. Len(outbound') <= Capacity
      BY <1>1, <1>2, LenProperties, ConstantsAssumption DEF Send, QueueFull
<1>4. QED BY <1>2, <1>3 DEF TypeOK, Send, sessionVars, screenVars, serverVars, countVars

LEMMA UserFetchType == ASSUME TypeOK, UserFetch PROVE TypeOK'
<1>1. fetches \in Nat /\ fetches + 1 \in 0..MaxFetches
  <2>1. fetches < MaxFetches
        BY DEF UserFetch
  <2>2. QED BY <2>1, Counters, Incremented, ConstantsAssumption
<1>2. m_selector' \in Selectors
      BY <1>1 DEF UserFetch, Selectors
<1>3. QED BY <1>1, <1>2 DEF TypeOK, UserFetch, screenVars, serverVars, libVars

LEMMA UserSubscribeType == ASSUME TypeOK, UserSubscribe PROVE TypeOK'
<1>1. subscribes \in Nat /\ subscribes + 1 \in 0..MaxSubscribes
  <2>1. subscribes < MaxSubscribes
        BY DEF UserSubscribe
  <2>2. QED BY <2>1, Counters, Incremented, ConstantsAssumption
<1>2. m_selector' \in Selectors
      BY <1>1 DEF UserSubscribe, Selectors
<1>3. QED BY <1>1, <1>2 DEF TypeOK, UserSubscribe, screenVars, serverVars, libVars

LEMMA RunTaskType == ASSUME TypeOK, RunTask PROVE TypeOK'
<1>1. tasks \in Seq(Callbacks) /\ tasks # <<>>
      BY DEF TypeOK, RunTask
<1>2. Head(tasks) \in Callbacks /\ Tail(tasks) \in Seq(Callbacks)
      BY <1>1, HeadTailProperties
<1>3. tasks' \in Seq(Callbacks)
      BY <1>2 DEF RunTask
<1>4. CASE IsFetch(Head(tasks))
  <2>1. shown' \in [op : Ops, id : Nat, topics : SUBSET (Nat \X Nat)]
        BY <1>2, <1>4 DEF RunTask, ShowFetch, Callbacks
  <2>2. QED BY <1>3, <1>4, <2>1 DEF TypeOK, RunTask, ShowFetch, sessionVars, serverVars, libVars, countVars
<1>5. CASE ~IsFetch(Head(tasks))
  <2>1. Head(tasks).batch \in Seq(Nat) /\ Head(tasks).sel \in Selectors
        BY <1>2 DEF Callbacks
  <2>2. m_subscribe_topics \in Seq(Nat) /\ labels \in Seq(Selectors)
        BY DEF TypeOK
  <2>3. m_subscribe_topics \o Head(tasks).batch \in Seq(Nat)
        BY <2>1, <2>2, ConcatProperties
  <2>4. Append(labels, Head(tasks).sel) \in Seq(Selectors)
        BY <2>1, <2>2, AppendProperties
  <2>5. m_subscribe_topics' \in Seq(Nat) /\ labels' \in Seq(Selectors)
        BY <1>5, <2>2, <2>3, <2>4 DEF RunTask, ShowUpdates
  <2>6. QED BY <1>3, <1>5, <2>5
            DEF TypeOK, RunTask, ShowUpdates, sessionVars, serverVars, libVars, countVars
<1>6. QED BY <1>4, <1>5

\* The steps of the UI thread.
LEMMA UiType ==
    ASSUME TypeOK,
           UserFetch \/ UserSubscribe \/ Wait \/ LibraryCall \/ RunTask
    PROVE  TypeOK'
<1>1. CASE AddCommand
      BY <1>1, AddConversationType, Counters DEF AddCommand
<1>2. CASE AddReply
      BY <1>2, AddConversationType, Counters DEF AddReply
<1>3. CASE AddSubscribe
      BY <1>3, AddConversationType, Counters DEF AddSubscribe
<1>4. CASE SendFetch
      BY <1>4, SendType, Counters DEF SendFetch
<1>5. CASE SendSubscribe
      BY <1>5, SendType, Counters DEF SendSubscribe
<1>6. CASE FetchWithoutTransport \/ SendFails
      BY <1>6 DEF TypeOK, FetchWithoutTransport, SendFails, sessionVars, outside,
                  screenVars, serverVars, libVars, countVars
<1>7. CASE Wait
      BY <1>7 DEF TypeOK, Wait, vars, sessionVars, outside,
                  screenVars, serverVars, libVars, countVars
<1>8. QED BY <1>1, <1>2, <1>3, <1>4, <1>5, <1>6, <1>7,
             UserFetchType, UserSubscribeType, RunTaskType DEF LibraryCall

-----------------------------------------------------------------------------
LEMMA DrainType == ASSUME TypeOK, Drain PROVE TypeOK'
<1>1. outbound \in Seq({"fetch", "subscribe"} \X Nat) /\ outbound # <<>>
      BY DEF TypeOK, Drain
<1>2. /\ Head(outbound) \in {"fetch", "subscribe"} \X Nat
      /\ outbound' \in Seq({"fetch", "subscribe"} \X Nat)
      /\ Len(outbound') = Len(outbound) - 1
      BY <1>1, HeadTailProperties DEF Drain
<1>3. Len(outbound') <= Capacity
      BY <1>1, <1>2, LenProperties, ConstantsAssumption DEF TypeOK
<1>4. serving' \in SUBSET ({"fetch", "subscribe"} \X Nat \X {"granted", "refused"})
  <2>1. PICK v \in {"granted", "refused"} :
            serving' = serving \cup {<<Head(outbound)[1], Head(outbound)[2], v>>}
        BY ConstantsAssumption DEF Drain
  <2>2. QED BY <1>2, <2>1 DEF TypeOK
<1>5. QED BY <1>2, <1>3, <1>4 DEF TypeOK, Drain, sessionVars, screenVars, countVars

LEMMA RouteTopicType == ASSUME TypeOK, NEW f \in 1..MaxFetches, RouteTopic(f) PROVE TypeOK'
<1> USE ConstantsAssumption
<1>1. f \in Nat /\ sent[f] \in Nat /\ sent[f] + 1 \in 0..TopicsPerFetch
  <2>1. sent[f] \in 0..TopicsPerFetch /\ sent[f] < TopicsPerFetch
        BY DEF TypeOK, RouteTopic
  <2>2. MaxFetches \in Nat /\ TopicsPerFetch \in Nat
        OBVIOUS
  <2>3. QED BY <2>1, <2>2
<1>2. sent' \in [1..MaxFetches -> 0..TopicsPerFetch]
      BY <1>1 DEF TypeOK, RouteTopic
<1>3. {<<f, sent[f] + 1>>} \in SUBSET (Nat \X Nat) /\ "topic" \in Ops /\ <<>> \in Seq(Nat)
      BY <1>1, EmptySeq DEF Ops
<1>4. cb' \in [{"ws", "ses"} -> Callbacks]
      BY <1>1, <1>3, EnterType DEF RouteTopic
<1>5. QED BY <1>2, <1>4 DEF TypeOK, RouteTopic, sessionVars, screenVars, libVars, countVars

LEMMA RouteResponseType ==
    ASSUME TypeOK, NEW kind, NEW id \in Nat, NEW request, NEW op \in Ops,
           RouteResponse(kind, id, request, op)
    PROVE  TypeOK'
<1>1. cb' \in [{"ws", "ses"} -> Callbacks]
      BY EnterType, EmptySeq DEF RouteResponse
<1>2. QED BY <1>1 DEF TypeOK, RouteResponse, sessionVars, screenVars, serverVars, countVars

LEMMA RouteUpdateType == ASSUME TypeOK, RouteUpdate PROVE TypeOK'
<1>1. updates + 1 \in Nat /\ updates + 1 \in 0..MaxUpdates
  <2>1. updates < MaxUpdates
        BY DEF RouteUpdate
  <2>2. QED BY <2>1, Counters, Incremented, ConstantsAssumption
<1>2. <<updates + 1>> \in Seq(Nat) /\ "update" \in Ops
      BY <1>1 DEF Ops, SubscribeOps
<1>3. cb' \in [{"ws", "ses"} -> Callbacks]
      BY <1>2, EnterType DEF RouteUpdate
<1>4. QED BY <1>1, <1>3 DEF TypeOK, RouteUpdate, sessionVars, screenVars, libVars, countVars

\* The library delivers.
LEMMA LibraryType == ASSUME TypeOK, Drain \/ Answer \/ Incoming PROVE TypeOK'
<1> USE ConstantsAssumption
<1>1. ASSUME NEW f \in 1..MaxFetches, RouteFetchResponse(f) \/ RouteFetchError(f)
      PROVE  TypeOK'
      BY <1>1, RouteResponseType DEF RouteFetchResponse, RouteFetchError, Ops, FetchOps
<1>2. ASSUME NEW s \in 1..MaxSubscribes, RouteSubscribed(s) \/ RouteSubscribeError(s)
      PROVE  TypeOK'
      BY <1>2, RouteResponseType DEF RouteSubscribed, RouteSubscribeError, Ops, SubscribeOps
<1>3. ASSUME NEW f \in 1..MaxFetches, RouteStatus(f) PROVE TypeOK'
      BY <1>3 DEF TypeOK, RouteStatus, sessionVars, screenVars, serverVars, countVars
<1>4. QED BY <1>1, <1>2, <1>3, DrainType, RouteTopicType, RouteUpdateType DEF Answer, Incoming

-----------------------------------------------------------------------------
LEMMA EndFetchType ==
    ASSUME TypeOK, NEW t \in {"ws", "ses"}, NEW op, NEW kept \in Selectors,
           NEW handed \in Selectors, EndFetch(t, op, kept, handed)
    PROVE  TypeOK'
<1>1. cb' \in [{"ws", "ses"} -> Callbacks]
      BY GoOnType DEF EndFetch, Places
<1>2. QED BY <1>1 DEF TypeOK, EndFetch, outside, screenVars, serverVars, libVars, countVars

LEMMA OnFetchType ==
    ASSUME TypeOK, OnFetchTopic \/ OnFetchCompleted \/ OnFetchError \/ OnFetchDiscard
    PROVE  TypeOK'
<1>1. NoSelector \in Selectors /\ m_selector \in Selectors
      BY DEF TypeOK, NoSelector, Selectors
<1>2. CASE OnFetchTopic
  <2>1. m_topics' \in SUBSET (Nat \X Nat)
        BY <1>2 DEF TypeOK, OnFetchTopic, Callbacks
  <2>2. cb' \in [{"ws", "ses"} -> Callbacks]
        BY <1>2, ReturnType DEF OnFetchTopic
  <2>3. QED BY <1>2, <2>1, <2>2
            DEF TypeOK, OnFetchTopic, outside, screenVars, serverVars, libVars, countVars
<1>3. QED BY <1>1, <1>2, EndFetchType DEF OnFetchCompleted, OnFetchError, OnFetchDiscard

LEMMA OnSubscribeType ==
    ASSUME TypeOK,
           OnSubscribeTopic \/ CheckSubscription \/ OnSubscribeCompleted \/ OnSubscribeError
    PROVE  TypeOK'
<1> USE DEF outside, screenVars, serverVars, libVars, countVars
<1>1. NoSelector \in Selectors /\ m_selector \in Selectors
      BY DEF TypeOK, NoSelector, Selectors
<1>2. "stop" \in Places /\ "check" \in Places
      BY DEF Places
<1>3. cb' \in [{"ws", "ses"} -> Callbacks]
  <2>1. CASE OnSubscribeTopic
        BY <2>1, <1>1, <1>2, GoOnType DEF OnSubscribeTopic
  <2>2. CASE CheckSubscription
        BY <2>2, <1>1, <1>2, GoOnType, ReturnType DEF CheckSubscription
  <2>3. CASE OnSubscribeCompleted
        BY <2>3, <1>1, <1>2, GoOnType DEF OnSubscribeCompleted
  <2>4. CASE OnSubscribeError
        BY <2>4, <1>1, <1>2, GoOnType DEF OnSubscribeError
  <2>5. QED BY <2>1, <2>2, <2>3, <2>4
<1>4. CASE OnSubscribeTopic
  <2>1. m_subscrube_topics \in Seq(Nat) /\ cb["ws"].batch \in Seq(Nat)
        BY DEF TypeOK, Callbacks
  <2>2. m_subscrube_topics' \in Seq(Nat)
        BY <1>4, <2>1, ConcatProperties DEF OnSubscribeTopic
  <2>3. QED BY <1>3, <1>4, <2>2 DEF TypeOK, OnSubscribeTopic
<1>5. CASE CheckSubscription
      BY <1>3, <1>5 DEF TypeOK, CheckSubscription, sessionVars
<1>6. CASE OnSubscribeCompleted
      BY <1>1, <1>3, <1>6 DEF TypeOK, OnSubscribeCompleted
<1>7. CASE OnSubscribeError
      BY <1>3, <1>7 DEF TypeOK, OnSubscribeError
<1>8. QED BY <1>4, <1>5, <1>6, <1>7

\* The steps that every lambda of main.cpp takes.
LEMMA CallbackStepType ==
    ASSUME TypeOK, NEW t \in {"ws", "ses"}, CallbackStep(t)
    PROVE  TypeOK'
<1> USE DEF outside, screenVars, serverVars, libVars, countVars
<1>1. cb[t] \in Callbacks /\ cb[t].sel \in Selectors
      BY DEF TypeOK, Callbacks
<1>2. CASE StopAnimator(t)
  <2>1. cb' \in [{"ws", "ses"} -> Callbacks]
        BY <1>1, <1>2, GoOnType DEF StopAnimator, Places
  <2>2. QED BY <1>2, <2>1 DEF TypeOK, StopAnimator, sessionVars
<1>3. CASE TakeFetchTopics(t)
  <2>1. [cb[t] EXCEPT !.at = "post", !.topics = m_topics] \in Callbacks
        BY <1>1 DEF TypeOK, Callbacks
  <2>2. cb' \in [{"ws", "ses"} -> Callbacks]
        BY <1>3, <2>1 DEF TypeOK, TakeFetchTopics
  <2>3. QED BY <1>3, <2>2 DEF TypeOK, TakeFetchTopics
<1>4. CASE TakeSubscribeTopics(t)
  <2>1. [cb[t] EXCEPT !.at = "post", !.batch = m_subscrube_topics] \in Callbacks
        BY <1>1 DEF TypeOK, Callbacks
  <2>2. cb' \in [{"ws", "ses"} -> Callbacks]
        BY <1>4, <2>1 DEF TypeOK, TakeSubscribeTopics
  <2>3. QED BY <1>4, <2>2, EmptySeq DEF TypeOK, TakeSubscribeTopics
<1>5. CASE Post(t)
  <2>1. cb' \in [{"ws", "ses"} -> Callbacks]
        BY <1>5, ReturnType DEF Post
  <2>2. tasks' \in Seq(Callbacks)
        BY <1>1, <1>5, AppendProperties DEF TypeOK, Post
  <2>3. QED BY <1>5, <2>1, <2>2 DEF TypeOK, Post, sessionVars
<1>6. QED BY <1>2, <1>3, <1>4, <1>5 DEF CallbackStep

-----------------------------------------------------------------------------
LEMMA ConnectionType ==
    ASSUME TypeOK,
           LinkDown \/ Reconnect \/ StartDiscarding \/ DiscardingDone \/ \E c \in conv : Discard(c)
    PROVE  TypeOK'
<1> USE DEF outside, screenVars, serverVars, libVars, countVars, sessionVars
<1>1. ASSUME NEW at \in Places PROVE [cb EXCEPT !["ses"].at = at] \in [{"ws", "ses"} -> Callbacks]
  <2>1. cb["ses"] \in Callbacks
        BY DEF TypeOK
  <2>2. [cb["ses"] EXCEPT !.at = at] \in Callbacks
        BY <2>1 DEF Callbacks, Places
  <2>3. QED BY <2>2 DEF TypeOK
<1>2. {"connected", "loop", "out"} \subseteq Places
      BY DEF Places
<1>3. CASE LinkDown
  <2>1. drops' \in 0..MaxDrops
    <3>1. drops < MaxDrops /\ drops' = drops + 1
          BY <1>3 DEF LinkDown
    <3>2. QED BY <3>1, Counters, Incremented, ConstantsAssumption
  <2>2. QED BY <1>3, <2>1 DEF TypeOK, LinkDown
<1>4. CASE ReconnectSame
      BY <1>4 DEF TypeOK, ReconnectSame
<1>5. CASE NewSessionOrNone
      BY <1>1, <1>2, <1>5 DEF TypeOK, NewSessionOrNone
<1>6. CASE StartDiscarding
      BY <1>1, <1>2, <1>6 DEF TypeOK, StartDiscarding
<1>7. CASE DiscardingDone
      BY <1>1, <1>2, <1>7 DEF TypeOK, DiscardingDone
<1>8. ASSUME NEW c \in conv, Discard(c) PROVE TypeOK'
  <2>1. c[2] \in Nat
        BY DEF TypeOK
  <2>2. [NoCallback EXCEPT !.at = "entered", !.op = "fetchDiscard", !.id = c[2]] \in Callbacks
        BY <2>1, NoCallbackType DEF Callbacks, Ops, FetchOps
  <2>3. cb' \in [{"ws", "ses"} -> Callbacks]
        BY <1>8, <2>2 DEF TypeOK, Discard
  <2>4. QED BY <1>8, <2>3 DEF TypeOK, Discard
<1>9. QED BY <1>3, <1>4, <1>5, <1>6, <1>7, <1>8 DEF Reconnect

LEMMA NextType == TypeOK /\ [Next]_vars => TypeOK'
<1> SUFFICES ASSUME TypeOK, [Next]_vars PROVE TypeOK'
    OBVIOUS
<1>1. CASE Next
      BY <1>1, UiType, LibraryType, OnFetchType, OnSubscribeType, CallbackStepType, ConnectionType
      DEF Next, WsStep, SesStep
<1>2. CASE UNCHANGED vars
      BY <1>2 DEF TypeOK, vars, outside, sessionVars, screenVars, serverVars, libVars, countVars
<1>3. QED BY <1>1, <1>2

\* Every variable of the session always has its type; in particular the
\* library's queue never holds more than its capacity.
THEOREM TypeCorrect == Spec => []TypeOK
BY InitType, NextType, PTL DEF Spec
=============================================================================
