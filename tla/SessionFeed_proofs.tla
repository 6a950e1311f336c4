------------------------- MODULE SessionFeed_proofs -------------------------
(***************************************************************************)
(* Session implements TopicFeed: with lost connections, refused requests   *)
(* and a full queue, for any number of requests and updates, no update is  *)
(* lost, duplicated or reordered between its arrival and the list.         *)
(***************************************************************************)
EXTENDS SessionSafety_proofs

\* s counts from lo + 1 to hi.
Counts(s, lo, hi) ==
    /\ lo <= hi /\ Len(s) = hi - lo
    /\ \A i \in 1..Len(s) : s[i] = lo + i

LEMMA CountsNothing ==
    ASSUME NEW lo \in Nat
    PROVE  Counts(<<>>, lo, lo)
BY DEF Counts

LEMMA CountsConcat ==
    ASSUME NEW s \in Seq(Nat), NEW t \in Seq(Nat), NEW lo \in Nat, NEW mid \in Nat, NEW hi \in Nat,
           Counts(s, lo, mid), Counts(t, mid, hi)
    PROVE  Counts(s \o t, lo, hi)
<1> DEFINE u == s \o t
<1>1. /\ Len(u) = Len(s) + Len(t) /\ Len(s) \in Nat /\ Len(t) \in Nat
      /\ \A i \in 1..Len(s) + Len(t) : u[i] = IF i <= Len(s) THEN s[i] ELSE t[i - Len(s)]
    BY ConcatProperties
<1> HIDE DEF u
<1>2. Len(u) = hi - lo /\ lo <= hi
    BY <1>1 DEF Counts
<1>3. ASSUME NEW i \in 1..Len(u) PROVE u[i] = lo + i
    <2>1. CASE i <= Len(s)
        BY <1>1, <2>1 DEF Counts
    <2>2. CASE i > Len(s)
        <3>1. i - Len(s) \in 1..Len(t) /\ u[i] = t[i - Len(s)]
            BY <1>1, <2>2
        <3> QED BY <1>1, <2>2, <3>1 DEF Counts
    <2> QED BY <1>1, <2>1, <2>2
<1>4. Counts(u, lo, hi)
    BY <1>2, <1>3 DEF Counts
<1> QED BY <1>4 DEF u

LEMMA CountsSplit ==
    ASSUME NEW s \in Seq(Nat), NEW t \in Seq(Nat), NEW lo \in Nat, NEW hi \in Nat,
           Counts(s \o t, lo, hi)
    PROVE  Counts(s, lo, lo + Len(s)) /\ Counts(t, lo + Len(s), hi)
<1> DEFINE u == s \o t
<1>1. /\ Len(u) = Len(s) + Len(t) /\ Len(s) \in Nat /\ Len(t) \in Nat
      /\ \A i \in 1..Len(s) + Len(t) : u[i] = IF i <= Len(s) THEN s[i] ELSE t[i - Len(s)]
      /\ Counts(u, lo, hi)
    BY ConcatProperties
<1> HIDE DEF u
<1>2. Counts(s, lo, lo + Len(s))
    BY <1>1 DEF Counts
<1>3. ASSUME NEW i \in 1..Len(t) PROVE t[i] = (lo + Len(s)) + i
    <2>1. Len(s) + i \in 1..Len(u)
        BY <1>1
    <2>2. u[Len(s) + i] = t[i]
        BY <1>1, <2>1
    <2> QED BY <1>1, <2>1, <2>2 DEF Counts
<1>4. Counts(t, lo + Len(s), hi)
    BY <1>1, <1>3 DEF Counts
<1> QED BY <1>2, <1>4

-----------------------------------------------------------------------------
(* The batches of the callbacks                                            *)

Ws == cb["ws"]

\* Only the transport thread carries updates: the one that has arrived, until
\* OnSubscribeTopic has buffered it, and then those it has taken out of the buffer.
BatchInv ==
    /\ cb["ses"].op \in FetchOps \cup {"none"} /\ cb["ses"].batch = <<>>
    /\ Ws.op \in FetchOps => Ws.batch = <<>>
    /\ Ws.at # "post" /\ Ws.op # "update" => Ws.batch = <<>>

LEMMA ReturnBatch ==
    ASSUME TypeOK, NEW t \in {"ws", "ses"}, Return(t)
    PROVE  /\ cb'[t].op = "none" /\ cb'[t].batch = <<>> /\ cb'[t].at \in {"out", "loop"}
           /\ \A u \in {"ws", "ses"} : u # t => cb'[u] = cb[u]
BY DEF TypeOK, Return, NoCallback

LEMMA GoOnBatch ==
    ASSUME TypeOK, NEW t \in {"ws", "ses"}, NEW at, NEW sel, GoOn(t, at, sel)
    PROVE  /\ cb'[t].at = at /\ cb'[t].op = cb[t].op /\ cb'[t].batch = cb[t].batch
           /\ \A u \in {"ws", "ses"} : u # t => cb'[u] = cb[u]
BY DEF TypeOK, GoOn, Callbacks

LEMMA EnterBatch ==
    ASSUME TypeOK, NEW op, NEW id, NEW topics, NEW batch, Enter(op, id, topics, batch)
    PROVE  /\ cb'["ws"].at = "entered" /\ cb'["ws"].op = op /\ cb'["ws"].batch = batch
           /\ cb'["ses"] = cb["ses"]
BY DEF TypeOK, Enter, NoCallback

\* What a message brings: only an update has a batch.
LEMMA RoutedBatch ==
    ASSUME TypeOK, Answer \/ \E f \in 1..MaxFetches : RouteTopic(f)
    PROVE  cb'["ws"].at = "entered" /\ cb'["ws"].batch = <<>> /\ cb'["ses"] = cb["ses"]
<1>1. ASSUME NEW kind, NEW id, NEW request, NEW op, RouteResponse(kind, id, request, op)
      PROVE  cb'["ws"].at = "entered" /\ cb'["ws"].batch = <<>> /\ cb'["ses"] = cb["ses"]
    BY <1>1, EnterBatch DEF RouteResponse
<1>2. CASE Answer
    BY <1>1, <1>2 DEF Answer, RouteFetchResponse, RouteFetchError, RouteSubscribed, RouteSubscribeError
<1>3. CASE \E f \in 1..MaxFetches : RouteTopic(f)
    BY <1>3, EnterBatch DEF RouteTopic
<1> QED BY <1>2, <1>3

LEMMA BatchStep ==
    ASSUME TypeOK, BatchInv, [Next]_vars
    PROVE  BatchInv'
<1> USE DEF BatchInv, Ws
<1>1. ASSUME cb' = cb PROVE BatchInv'
    BY <1>1
<1>2. CASE UserFetch \/ UserSubscribe \/ Wait \/ LibraryCall \/ RunTask \/ Drain \/ UNCHANGED vars
           \/ \E f \in 1..MaxFetches : RouteStatus(f)
    BY <1>1, <1>2, NoCallbackChanges DEF CallbackVars, UserFetch, UserSubscribe
<1>3. CASE Answer \/ \E f \in 1..MaxFetches : RouteTopic(f)
    BY <1>3, RoutedBatch
<1>4. CASE RouteUpdate
    BY <1>4, EnterBatch DEF RouteUpdate, FetchOps
<1>5. CASE OnFetchTopic
    BY <1>5, ReturnBatch DEF OnFetchTopic, FetchOps
<1>6. ASSUME NEW t \in {"ws", "ses"}, NEW op, NEW kept, NEW handed, EndFetch(t, op, kept, handed)
      PROVE  BatchInv'
    BY <1>6, GoOnBatch DEF EndFetch, At
<1>7. CASE OnSubscribeTopic \/ CheckSubscription \/ OnSubscribeCompleted \/ OnSubscribeError
    BY <1>7, GoOnBatch, ReturnBatch
       DEF OnSubscribeTopic, CheckSubscription, OnSubscribeCompleted, OnSubscribeError, At, FetchOps
<1>8. ASSUME NEW t \in {"ws", "ses"}, StopAnimator(t) PROVE BatchInv'
    <2>1. /\ cb'[t].op = cb[t].op /\ cb'[t].batch = cb[t].batch /\ cb[t].at = "stop"
          /\ \A u \in {"ws", "ses"} : u # t => cb'[u] = cb[u]
        BY <1>8, GoOnBatch DEF StopAnimator
    <2> QED BY <2>1
<1>9. ASSUME NEW t \in {"ws", "ses"}, TakeFetchTopics(t) PROVE BatchInv'
    <2>1. /\ cb'[t].op = cb[t].op /\ cb'[t].batch = cb[t].batch /\ cb[t].at = "take"
          /\ \A u \in {"ws", "ses"} : u # t => cb'[u] = cb[u]
        BY <1>9 DEF TakeFetchTopics, At, TypeOK, Callbacks
    <2> QED BY <2>1
<1>10. ASSUME NEW t \in {"ws", "ses"}, TakeSubscribeTopics(t) PROVE BatchInv'
    <2>1. cb[t].op \notin FetchOps \cup {"none"} /\ t = "ws"
        BY <1>10 DEF TakeSubscribeTopics, FetchOps
    <2>2. /\ cb' = [cb EXCEPT !["ws"].at = "post", !["ws"].batch = m_subscrube_topics]
          /\ cb \in [{"ws", "ses"} -> Callbacks]
        BY <1>10, <2>1 DEF TakeSubscribeTopics, TypeOK
    <2>3. cb'["ws"].op = cb["ws"].op /\ cb'["ws"].at = "post" /\ cb'["ses"] = cb["ses"]
        BY <2>2 DEF Callbacks
    <2> QED BY <2>1, <2>3
<1>11. ASSUME NEW t \in {"ws", "ses"}, Post(t) PROVE BatchInv'
    BY <1>11, ReturnBatch DEF Post, FetchOps
<1>12. ASSUME NEW c \in conv, Discard(c) PROVE BatchInv'
    <2>1. \/ cb' = cb
          \/ /\ cb'["ws"] = cb["ws"]
             /\ cb'["ses"].op = "fetchDiscard" /\ cb'["ses"].batch = <<>>
        BY <1>12 DEF Discard, TypeOK, NoCallback
    <2> QED BY <1>1, <2>1 DEF FetchOps
<1>13. CASE LinkDown \/ Reconnect \/ StartDiscarding \/ DiscardingDone
    <2>1. cb' = cb \/ \E at : cb' = [cb EXCEPT !["ses"].at = at]
        BY <1>13 DEF LinkDown, Reconnect, ReconnectSame, NewSessionOrNone, StartDiscarding,
                     DiscardingDone
    <2>2. ASSUME NEW at, cb' = [cb EXCEPT !["ses"].at = at]
          PROVE  /\ cb'["ws"] = cb["ws"]
                 /\ cb'["ses"].op = cb["ses"].op /\ cb'["ses"].batch = cb["ses"].batch
        BY <2>2 DEF TypeOK, Callbacks
    <2> QED BY <2>1, <2>2
<1> QED BY <1>2, <1>3, <1>4, <1>5, <1>6, <1>7, <1>8, <1>9, <1>10, <1>11, <1>12, <1>13
        DEF Next, Incoming, WsStep, SesStep, CallbackStep, OnFetchCompleted, OnFetchError,
            OnFetchDiscard

-----------------------------------------------------------------------------
(* The updates on their way to the screen's queue                          *)

Posting  == IF Ws.at = "post" THEN Ws.batch ELSE <<>>
Arriving == IF Ws.at = "entered" THEN Ws.batch ELSE <<>>
Pipeline == Posting \o (m_subscrube_topics \o Arriving)

Outside == <<updates, tasks, m_subscribe_topics>>

\* What a step can do to them: nothing, bring the next update in, let the
\* screen run a task, or hand the oldest of them to the screen.
Quiet    == UNCHANGED <<Outside, Pipeline>>
Brought  == /\ UNCHANGED <<tasks, m_subscribe_topics>>
            /\ updates' = updates + 1 /\ Pipeline' = Pipeline \o <<updates + 1>>
Ran      == RunTask /\ UNCHANGED <<updates, Pipeline>>
HandedOn == /\ UNCHANGED <<updates, m_subscribe_topics>>
            /\ \E r \in Callbacks :
                  /\ tasks' = Append(tasks, r) /\ Pipeline = r.batch \o Pipeline'
                  /\ IsFetch(r) => r.batch = <<>>

LEMMA PartsType ==
    ASSUME TypeOK
    PROVE  /\ Ws \in Callbacks /\ Ws.batch \in Seq(Nat)
           /\ Posting \in Seq(Nat) /\ m_subscrube_topics \in Seq(Nat) /\ Arriving \in Seq(Nat)
           /\ m_subscrube_topics \o Arriving \in Seq(Nat) /\ Pipeline \in Seq(Nat)
<1>1. Ws \in Callbacks /\ Ws.batch \in Seq(Nat) /\ m_subscrube_topics \in Seq(Nat)
    BY DEF TypeOK, Ws, Callbacks
<1>2. Posting \in Seq(Nat) /\ Arriving \in Seq(Nat)
    BY <1>1, EmptySeq DEF Posting, Arriving
<1>3. m_subscrube_topics \o Arriving \in Seq(Nat)
    BY <1>1, <1>2, ConcatProperties
<1>4. Pipeline \in Seq(Nat)
    BY <1>2, <1>3, ConcatProperties DEF Pipeline
<1> QED BY <1>1, <1>2, <1>3, <1>4

LEMMA PipelineType == TypeOK => Pipeline \in Seq(Nat)
BY PartsType

\* A step of another thread.
LEMMA QuietElsewhere ==
    ASSUME UNCHANGED Outside, Ws' = Ws, m_subscrube_topics' = m_subscrube_topics
    PROVE  Quiet
BY DEF Quiet, Posting, Arriving, Pipeline

\* A step of the transport thread within a callback that carries nothing.
LEMMA QuietEmpty ==
    ASSUME UNCHANGED Outside, m_subscrube_topics' = m_subscrube_topics,
           Posting = <<>>, Posting' = <<>>, Arriving = <<>>, Arriving' = <<>>
    PROVE  Quiet
BY DEF Quiet, Pipeline

\* The next update arrives.
LEMMA UpdateArrives ==
    ASSUME TypeOK, BatchInv, RouteUpdate
    PROVE  Brought
<1>1. Ws.at = "out" /\ Ws'.at = "entered" /\ Ws'.batch = <<updates + 1>>
    BY EnterBatch DEF RouteUpdate, CanRoute, Draining, Ws
<1>2. Posting = <<>> /\ Posting' = <<>> /\ Arriving = <<>> /\ Arriving' = <<updates + 1>>
    BY <1>1 DEF Posting, Arriving
<1>3. UNCHANGED <<tasks, m_subscribe_topics, m_subscrube_topics>> /\ updates' = updates + 1
    BY DEF RouteUpdate, screenVars, sessionVars
<1>4. m_subscrube_topics \in Seq(Nat) /\ <<updates + 1>> \in Seq(Nat)
    BY Counters DEF TypeOK
<1>5. Pipeline = m_subscrube_topics
    BY <1>2, <1>4, ConcatEmptySeq DEF Pipeline
<1>6. Pipeline' = m_subscrube_topics \o <<updates + 1>>
    <2>1. Pipeline' = <<>> \o (m_subscrube_topics \o <<updates + 1>>)
        BY <1>2, <1>3 DEF Pipeline
    <2> QED BY <2>1, <1>4, ConcatEmptySeq, ConcatProperties
<1> QED BY <1>3, <1>5, <1>6 DEF Brought

\* OnSubscribeTopic moves it into the buffer ...
LEMMA UpdateBuffered ==
    ASSUME TypeOK, BatchInv, OnSubscribeTopic
    PROVE  Quiet
<1>1. Ws.at = "entered" /\ Ws'.at = "check"
    BY GoOnBatch DEF OnSubscribeTopic, At, Ws
<1>2. Posting = <<>> /\ Posting' = <<>> /\ Arriving = Ws.batch /\ Arriving' = <<>>
    BY <1>1 DEF Posting, Arriving
<1>3. m_subscrube_topics' = m_subscrube_topics \o Ws.batch /\ UNCHANGED Outside
    BY DEF OnSubscribeTopic, Ws, outside, screenVars, serverVars, Outside
<1>4. Pipeline' = Pipeline
    <2>1. m_subscrube_topics \o Ws.batch \in Seq(Nat)
        BY PartsType, ConcatProperties
    <2>2. (m_subscrube_topics \o Ws.batch) \o <<>> = m_subscrube_topics \o Ws.batch
        BY <2>1, ConcatEmptySeq
    <2> QED BY <1>2, <1>3, <2>2 DEF Pipeline
<1> QED BY <1>3, <1>4 DEF Quiet

\* ... getSubscribeTopics moves the buffer into the callback ...
LEMMA UpdatesTaken ==
    ASSUME TypeOK, BatchInv, NEW t \in {"ws", "ses"}, TakeSubscribeTopics(t)
    PROVE  Quiet
<1>1. t = "ws"
    BY DEF TakeSubscribeTopics, BatchInv, FetchOps
<1>2. Ws.at = "take" /\ Ws'.at = "post" /\ Ws'.batch = m_subscrube_topics
    BY <1>1 DEF TakeSubscribeTopics, Ws, TypeOK, Callbacks
<1>3. Posting = <<>> /\ Posting' = m_subscrube_topics /\ Arriving = <<>> /\ Arriving' = <<>>
    BY <1>2 DEF Posting, Arriving
<1>4. m_subscrube_topics' = <<>> /\ UNCHANGED Outside
    BY DEF TakeSubscribeTopics, outside, screenVars, serverVars, Outside
<1>5. Pipeline = <<>> \o (m_subscrube_topics \o <<>>) /\ Pipeline' = m_subscrube_topics \o (<<>> \o <<>>)
    BY <1>3, <1>4 DEF Pipeline
<1>6. m_subscrube_topics \o <<>> = m_subscrube_topics /\ <<>> \o m_subscrube_topics = m_subscrube_topics
      /\ <<>> \o <<>> = <<>>
    BY PartsType, EmptySeq, ConcatEmptySeq
<1> QED BY <1>4, <1>5, <1>6 DEF Quiet

\* ... and the callback posts it.
LEMMA UpdatesPosted ==
    ASSUME TypeOK, BatchInv, NEW t \in {"ws", "ses"}, Post(t)
    PROVE  HandedOn
<1>1. cb[t] \in Callbacks /\ tasks' = Append(tasks, cb[t]) /\ UNCHANGED <<updates, m_subscribe_topics>>
    BY DEF TypeOK, Post, serverVars
<1>2. IsFetch(cb[t]) => cb[t].batch = <<>>
    BY DEF BatchInv, Ws, IsFetch
<1>3. m_subscrube_topics' = m_subscrube_topics
    BY DEF Post, sessionVars
<1>4. Pipeline = cb[t].batch \o Pipeline'
    <2>1. CASE t = "ws"
        <3>1. Posting = cb[t].batch /\ Arriving = <<>>
            BY <2>1 DEF Post, Posting, Arriving, Ws
        <3>2. Posting' = <<>> /\ Arriving' = <<>>
            BY <2>1, ReturnBatch DEF Post, Posting, Arriving, Ws
        <3>3. Pipeline' = m_subscrube_topics \o Arriving
            BY <1>3, <3>1, <3>2, PartsType, ConcatEmptySeq DEF Pipeline
        <3> QED BY <3>1, <3>3 DEF Pipeline
    <2>2. CASE t = "ses"
        <3>1. cb[t].batch = <<>> /\ Ws' = Ws
            BY <2>2, ReturnBatch DEF BatchInv, Post, Ws
        <3>2. Pipeline' = Pipeline
            BY <1>3, <3>1 DEF Pipeline, Posting, Arriving
        <3> QED BY <3>1, <3>2, PartsType, ConcatEmptySeq
    <2> QED BY <2>1, <2>2
<1> QED BY <1>1, <1>2, <1>4 DEF HandedOn

LEMMA PipelineStep ==
    ASSUME TypeOK, BatchInv, [Next]_vars
    PROVE  Quiet \/ Brought \/ Ran \/ HandedOn
<1>1. CASE UserFetch \/ UserSubscribe \/ Wait \/ LibraryCall \/ Drain \/ UNCHANGED vars
           \/ \E f \in 1..MaxFetches : RouteStatus(f)
    <2>1. UNCHANGED <<Outside, cb, m_subscrube_topics>>
        BY <1>1 DEF UserFetch, UserSubscribe, Wait, LibraryCall, Drain, RouteStatus, vars, sessionVars,
            outside, screenVars, serverVars, Outside, FetchWithoutTransport, AddCommand, AddReply,
            AddSubscribe, AddConversation, SendFetch, SendSubscribe, Send, SendFails
    <2> QED BY <2>1, QuietElsewhere DEF Ws
<1>2. CASE RunTask
    <2>1. UNCHANGED <<updates, cb, m_subscrube_topics>>
        BY <1>2 DEF RunTask, sessionVars, serverVars
    <2> QED BY <1>2, <2>1 DEF Ran, Pipeline, Posting, Arriving, Ws
<1>3. CASE Answer \/ \E f \in 1..MaxFetches : RouteTopic(f)
    <2>1. Ws.at = "out" /\ Ws'.at = "entered" /\ Ws'.batch = <<>> /\ m_subscrube_topics' = m_subscrube_topics
        BY <1>3, RoutedBatch, RoutedPlace DEF Ws, sessionVars
    <2>2. UNCHANGED Outside
        BY <1>3 DEF Answer, RouteFetchResponse, RouteFetchError, RouteSubscribed, RouteSubscribeError,
            RouteResponse, RouteTopic, screenVars, serverVars, Outside
    <2> QED BY <2>1, <2>2, QuietEmpty DEF Posting, Arriving
<1>4. CASE RouteUpdate
    BY <1>4, UpdateArrives
<1>5. CASE OnFetchTopic \/ CheckSubscription \/ OnSubscribeCompleted \/ OnSubscribeError
           \/ OnFetchCompleted \/ OnFetchError
    <2>1. UNCHANGED <<Outside, m_subscrube_topics>>
        BY <1>5 DEF OnFetchTopic, CheckSubscription, OnSubscribeCompleted, OnSubscribeError, EndFetch,
            OnFetchCompleted, OnFetchError, outside, screenVars, serverVars, sessionVars, Outside
    <2>2. Ws.at \in {"entered", "check"} /\ (Ws.at = "entered" => Ws.batch = <<>>)
        BY <1>5 DEF BatchInv, Ws, At, OnFetchTopic, CheckSubscription, OnSubscribeCompleted,
            OnSubscribeError, EndFetch, OnFetchCompleted, OnFetchError
    <2>3. Ws'.at \in {"out", "loop", "stop"}
        BY <1>5, ReturnBatch, GoOnBatch DEF Ws, OnFetchTopic, CheckSubscription, OnSubscribeCompleted,
            OnSubscribeError, EndFetch, OnFetchCompleted, OnFetchError
    <2> QED BY <2>1, <2>2, <2>3, QuietEmpty DEF Posting, Arriving
<1>6. CASE OnFetchDiscard
    <2>1. UNCHANGED <<Outside, m_subscrube_topics>>
        BY <1>6 DEF OnFetchDiscard, EndFetch, outside, screenVars, serverVars, Outside
    <2> QED BY <1>6, <2>1, GoOnBatch, QuietElsewhere DEF OnFetchDiscard, EndFetch, Ws
<1>7. CASE OnSubscribeTopic
    BY <1>7, UpdateBuffered
<1>8. ASSUME NEW t \in {"ws", "ses"}, StopAnimator(t) PROVE Quiet
    <2>1. UNCHANGED <<Outside, m_subscrube_topics>>
        BY <1>8 DEF StopAnimator, sessionVars, outside, screenVars, serverVars, Outside
    <2>2. CASE t = "ses"
        BY <1>8, <2>1, <2>2, GoOnBatch, QuietElsewhere DEF StopAnimator, Ws
    <2>3. CASE t = "ws"
        <3>1. Ws.at = "stop" /\ Ws'.at \in {"take", "post"} /\ Ws'.batch = Ws.batch
              /\ (Ws'.at = "post" => Ws.batch = <<>>)
            BY <1>8, <2>3, GoOnBatch DEF StopAnimator, Ws, BatchInv
        <3> QED BY <2>1, <3>1, QuietEmpty DEF Posting, Arriving
    <2> QED BY <2>2, <2>3
<1>9. ASSUME NEW t \in {"ws", "ses"}, TakeFetchTopics(t) PROVE Quiet
    <2>1. UNCHANGED <<Outside, m_subscrube_topics>>
        BY <1>9 DEF TakeFetchTopics, outside, screenVars, serverVars, Outside
    <2>2. /\ cb[t].at = "take" /\ cb'[t].at = "post" /\ cb'[t].batch = cb[t].batch
          /\ cb[t].op \in FetchOps /\ \A u \in {"ws", "ses"} : u # t => cb'[u] = cb[u]
        BY <1>9 DEF TakeFetchTopics, At, FetchOps, TypeOK, Callbacks
    <2>3. CASE t = "ses"
        BY <2>1, <2>2, <2>3, QuietElsewhere DEF Ws
    <2>4. CASE t = "ws"
        BY <2>1, <2>2, <2>4, QuietEmpty DEF Posting, Arriving, Ws, BatchInv
    <2> QED BY <2>3, <2>4
<1>10. ASSUME NEW t \in {"ws", "ses"}, TakeSubscribeTopics(t) PROVE Quiet
    BY <1>10, UpdatesTaken
<1>11. ASSUME NEW t \in {"ws", "ses"}, Post(t) PROVE HandedOn
    BY <1>11, UpdatesPosted
<1>12. ASSUME NEW c \in conv, Discard(c) PROVE Quiet
    BY <1>12, DiscardPlace, QuietElsewhere DEF Discard, sessionVars, screenVars, serverVars, Outside, Ws
<1>13. CASE LinkDown \/ Reconnect \/ StartDiscarding \/ DiscardingDone
    BY <1>13, ConnectionPlace, QuietElsewhere
       DEF LinkDown, Reconnect, ReconnectSame, NewSessionOrNone, StartDiscarding, DiscardingDone,
           sessionVars, outside, screenVars, serverVars, Outside, Ws
<1> QED BY <1>1, <1>2, <1>3, <1>4, <1>5, <1>6, <1>7, <1>8, <1>9, <1>10, <1>11, <1>12, <1>13
        DEF Next, Incoming, WsStep, SesStep, CallbackStep

-----------------------------------------------------------------------------
(* The tasks of the screen                                                 *)

\* b[i] is the last update that is displayed once the first i tasks have run.
Chain(b) ==
    /\ b[0] = Len(m_subscribe_topics)
    /\ \A i \in 0..Len(tasks) : b[i] <= updates
    /\ \A i \in 1..Len(tasks) : Counts(tasks[i].batch, b[i - 1], b[i])
    /\ Counts(Pipeline, b[Len(tasks)], updates)

\* What is displayed, what the tasks will add to it and what is on its way to
\* further tasks count, one after the other, from 1 to the last update.
TasksInv ==
    /\ Counts(m_subscribe_topics, 0, Len(m_subscribe_topics))
    /\ \A i \in 1..Len(tasks) : IsFetch(tasks[i]) => tasks[i].batch = <<>>
    /\ \E b \in [Nat -> Nat] : Chain(b)

LEMMA TasksType ==
    ASSUME TypeOK
    PROVE  /\ tasks \in Seq(Callbacks) /\ m_subscribe_topics \in Seq(Nat) /\ updates \in Nat
           /\ Len(tasks) \in Nat /\ Len(m_subscribe_topics) \in Nat
           /\ \A i \in 1..Len(tasks) : tasks[i].batch \in Seq(Nat)
<1>1. tasks \in Seq(Callbacks) /\ m_subscribe_topics \in Seq(Nat) /\ updates \in Nat
    BY Counters DEF TypeOK
<1>2. Len(tasks) \in Nat /\ Len(m_subscribe_topics) \in Nat
    BY <1>1, LenProperties
<1>3. ASSUME NEW i \in 1..Len(tasks) PROVE tasks[i].batch \in Seq(Nat)
    <2>1. tasks[i] \in Callbacks
        BY <1>1, ElementOfSeq
    <2> QED BY <2>1 DEF Callbacks
<1> QED BY <1>1, <1>2, <1>3

LEMMA ShiftedChain ==
    ASSUME NEW b \in [Nat -> Nat]
    PROVE  \E c \in [Nat -> Nat] : \A i \in Nat : c[i] = b[i + 1]
<1> WITNESS [i \in Nat |-> b[i + 1]] \in [Nat -> Nat]
<1> QED OBVIOUS

LEMMA LongerChain ==
    ASSUME NEW b \in [Nat -> Nat], NEW n \in Nat, NEW last \in Nat
    PROVE  \E c \in [Nat -> Nat] : c[n + 1] = last /\ \A i \in 0..n : c[i] = b[i]
<1> WITNESS [b EXCEPT ![n + 1] = last] \in [Nat -> Nat]
<1> QED OBVIOUS

LEMMA TasksBrought ==
    ASSUME TypeOK, TasksInv, Brought
    PROVE  TasksInv'
<1>1. PICK b \in [Nat -> Nat] : Chain(b)
    BY DEF TasksInv
<1>2. Counts(Pipeline \o <<updates + 1>>, b[Len(tasks)], updates + 1)
    <2>0. updates \in Nat
        BY TasksType
    <2>1. updates \in Nat /\ updates + 1 \in Nat /\ Len(tasks) \in Nat /\ Pipeline \in Seq(Nat)
        <3>1. updates + 1 \in Nat
            BY <2>0
        <3> QED BY <2>0, <3>1, TasksType, PartsType
    <2>2. <<updates + 1>> \in Seq(Nat) /\ Counts(<<updates + 1>>, updates, updates + 1)
        BY <2>1 DEF Counts
    <2>3. Counts(Pipeline, b[Len(tasks)], updates) /\ b[Len(tasks)] \in Nat
        BY <1>1, <2>1 DEF Chain
    <2> QED BY <2>1, <2>2, <2>3, CountsConcat
<1>3. ASSUME NEW i \in 0..Len(tasks) PROVE b[i] <= updates + 1
    BY <1>1, TasksType DEF Chain
<1>4. Chain(b)'
    BY <1>1, <1>2, <1>3 DEF Chain, Brought
<1> QED BY <1>4 DEF TasksInv, Brought

\* What a task of the screen does to the list.
LEMMA TaskShown ==
    ASSUME TypeOK, TasksInv, Ran
    PROVE  /\ tasks # <<>> /\ tasks' = Tail(tasks) /\ Len(tasks) >= 1
           /\ m_subscribe_topics' = m_subscribe_topics \o tasks[1].batch
<1>1. tasks # <<>> /\ tasks' = Tail(tasks) /\ Len(tasks) >= 1 /\ Head(tasks) = tasks[1]
    BY TasksType, HeadTailProperties, EmptySeq DEF Ran, RunTask
<1>2. CASE IsFetch(tasks[1])
    <2>1. tasks[1].batch = <<>> /\ m_subscribe_topics' = m_subscribe_topics
        BY <1>1, <1>2, TasksType DEF TasksInv, Ran, RunTask, ShowFetch
    <2> QED BY <1>1, <2>1, TasksType, ConcatEmptySeq
<1>3. CASE ~IsFetch(tasks[1])
    BY <1>1, <1>3 DEF Ran, RunTask, ShowUpdates
<1> QED BY <1>1, <1>2, <1>3

LEMMA TasksRan ==
    ASSUME TypeOK, TasksInv, Ran
    PROVE  /\ TasksInv'
           /\ Len(m_subscribe_topics) <= Len(m_subscribe_topics')
           /\ Len(m_subscribe_topics') <= updates
<1>1. PICK b \in [Nat -> Nat] : Chain(b)
    BY DEF TasksInv
<1>0. PICK c \in [Nat -> Nat] : \A i \in Nat : c[i] = b[i + 1]
    BY ShiftedChain
<1> DEFINE first == tasks[1].batch
<1>2. /\ Len(tasks) >= 1 /\ first \in Seq(Nat)
      /\ Counts(m_subscribe_topics, 0, b[0]) /\ Counts(first, b[0], b[1])
      /\ b[0] = Len(m_subscribe_topics) /\ b[0] <= b[1] /\ b[1] <= updates
    <2>1. Len(tasks) \in Nat /\ Len(tasks) >= 1 /\ 1 \in 1..Len(tasks) /\ 1 \in 0..Len(tasks)
        BY TaskShown, TasksType
    <2>2. Counts(tasks[1].batch, b[1 - 1], b[1]) /\ b[1] <= updates /\ b[0] = Len(m_subscribe_topics)
        BY <1>1, <2>1 DEF Chain
    <2>3. Counts(m_subscribe_topics, 0, b[0]) /\ first \in Seq(Nat)
        BY <2>1, <2>2, TasksType DEF TasksInv
    <2>4. Counts(first, b[0], b[1])
        BY <2>2
    <2>5. b[0] <= b[1]
        BY <2>4 DEF Counts
    <2> QED BY <2>1, <2>2, <2>3, <2>4, <2>5
<1>3. Counts(m_subscribe_topics', 0, b[1]) /\ m_subscribe_topics' = m_subscribe_topics \o first
    BY <1>2, TaskShown, TasksType, CountsConcat
<1>4. Len(m_subscribe_topics') = b[1]
    BY <1>3 DEF Counts
<1>5. Len(tasks') = Len(tasks) - 1 /\ \A i \in 1..Len(tasks') : tasks'[i] = tasks[i + 1] /\ i + 1 \in 1..Len(tasks)
    <2>1. tasks \in Seq(Callbacks) /\ tasks # <<>> /\ tasks' = Tail(tasks) /\ Len(tasks) \in Nat
        BY TaskShown, TasksType
    <2>2. Len(tasks') = Len(tasks) - 1 /\ \A i \in 1..Len(tasks') : tasks'[i] = tasks[i + 1]
        BY <2>1, HeadTailProperties
    <2> QED BY <2>1, <2>2
<1>6. Chain(c)'
    <2>0. Len(tasks') \in Nat
        BY <1>2, <1>5, TasksType
    <2>1. c[0] = b[1] /\ c[Len(tasks')] = b[Len(tasks)]
        <3>1. Len(tasks') \in Nat /\ Len(tasks') + 1 = Len(tasks)
            BY <1>2, <1>5, TasksType
        <3> QED BY <1>0, <3>1
    <2>2. ASSUME NEW i \in 0..Len(tasks') PROVE c[i] <= updates
        <3>1. i + 1 \in 0..Len(tasks) /\ c[i] = b[i + 1]
            BY <1>0, <1>5, TasksType
        <3> QED BY <3>1, <1>1 DEF Chain
    <2>3. ASSUME NEW i \in 1..Len(tasks') PROVE Counts(tasks'[i].batch, c[i - 1], c[i])
        <3>1. tasks'[i] = tasks[i + 1] /\ i + 1 \in 1..Len(tasks)
            BY <1>5
        <3>2. c[i] = b[i + 1] /\ c[i - 1] = b[(i + 1) - 1]
            <4>1. i \in Nat /\ i - 1 \in Nat /\ (i - 1) + 1 = (i + 1) - 1
                BY <2>0
            <4> QED BY <1>0, <4>1
        <3> QED BY <3>1, <3>2, <1>1 DEF Chain
    <2>4. Counts(Pipeline', c[Len(tasks')], updates') /\ updates' = updates
        BY <1>1, <2>1 DEF Chain, Ran
    <2> QED BY <1>4, <2>1, <2>2, <2>3, <2>4 DEF Chain
<1>7. \A i \in 1..Len(tasks') : IsFetch(tasks'[i]) => tasks'[i].batch = <<>>
    BY <1>5 DEF TasksInv
<1>8. TasksInv'
    BY <1>3, <1>4, <1>6, <1>7 DEF TasksInv, IsFetch
<1> QED BY <1>2, <1>4, <1>8

LEMMA TasksHandedOn ==
    ASSUME TypeOK, TypeOK', TasksInv, HandedOn
    PROVE  TasksInv'
<1>1. PICK b \in [Nat -> Nat] : Chain(b)
    BY DEF TasksInv
<1>2. PICK r \in Callbacks :
          /\ tasks' = Append(tasks, r) /\ Pipeline = r.batch \o Pipeline'
          /\ IsFetch(r) => r.batch = <<>>
    BY DEF HandedOn
<1>3. PICK n \in Nat : n = Len(tasks)
    BY TasksType
<1>4. /\ tasks \in Seq(Callbacks) /\ r.batch \in Seq(Nat) /\ Len(r.batch) \in Nat
      /\ updates \in Nat /\ Pipeline' \in Seq(Nat) /\ b[n] \in Nat
    <2>1. r.batch \in Seq(Nat) /\ Len(r.batch) \in Nat
        BY LenProperties DEF Callbacks
    <2>2. (Pipeline \in Seq(Nat))'
        BY PipelineType, PTL
    <2> QED BY <2>1, <2>2, TasksType
<1>5. Counts(r.batch, b[n], b[n] + Len(r.batch)) /\ Counts(Pipeline', b[n] + Len(r.batch), updates)
    <2>1. Counts(r.batch \o Pipeline', b[n], updates)
        <3>1. Counts(Pipeline, b[n], updates)
            BY <1>1, <1>3 DEF Chain
        <3>2. Pipeline = r.batch \o Pipeline'
            BY <1>2
        <3> QED BY <3>1, <3>2
    <2> QED BY <1>4, <1>3, <2>1, CountsSplit
<1>6. Len(tasks') = n + 1 /\ tasks'[n + 1] = r /\ \A i \in 1..n : tasks'[i] = tasks[i]
    <2>1. Len(tasks') = Len(tasks) + 1 /\ tasks'[Len(tasks) + 1] = r
          /\ \A i \in 1..Len(tasks) : tasks'[i] = tasks[i]
        <3>1. tasks \in Seq(Callbacks) /\ tasks' = Append(tasks, r)
            BY <1>2, TasksType
        <3> QED BY <3>1, AppendProperties
    <2> QED BY <1>3, <2>1
<1>7. PICK c \in [Nat -> Nat] : c[n + 1] = b[n] + Len(r.batch) /\ \A i \in 0..n : c[i] = b[i]
    <2>1. b[n] \in Nat /\ Len(r.batch) \in Nat
        BY <1>4
    <2>2. \A x, y \in Nat : x + y \in Nat
        OBVIOUS
    <2>3. b[n] + Len(r.batch) \in Nat
        BY <2>1, <2>2
    <2> QED BY <2>3, LongerChain
<1>8. Chain(c)'
    <2>1. c[0] = Len(m_subscribe_topics)
        BY <1>4, <1>1, <1>3, <1>7 DEF Chain
    <2>2. ASSUME NEW i \in 0..n + 1 PROVE c[i] <= updates
        <3>1. CASE i \in 0..n
            BY <1>1, <1>3, <1>7, <3>1 DEF Chain
        <3>2. CASE i = n + 1
            BY <1>5, <1>7, <3>2 DEF Counts
        <3> QED BY <1>4, <1>3, <3>1, <3>2
    <2>3. ASSUME NEW i \in 1..n + 1 PROVE Counts(tasks'[i].batch, c[i - 1], c[i])
        <3>1. CASE i \in 1..n
            <4>1. tasks'[i] = tasks[i] /\ c[i] = b[i] /\ c[i - 1] = b[i - 1]
                BY <1>4, <1>3, <1>6, <1>7, <3>1
            <4> QED BY <1>1, <1>3, <3>1, <4>1 DEF Chain
        <3>2. CASE i = n + 1
            <4>1. tasks'[i] = r /\ c[i] = b[n] + Len(r.batch) /\ c[i - 1] = b[n]
                BY <1>3, <1>6, <1>7, <3>2
            <4> QED BY <1>5, <4>1
        <3>3. i \in 1..n \/ i = n + 1
            OBVIOUS
        <3> QED BY <3>1, <3>2, <3>3
    <2>4. UNCHANGED <<updates, m_subscribe_topics>>
        BY DEF HandedOn
    <2> QED BY <1>5, <1>6, <1>7, <2>1, <2>2, <2>3, <2>4 DEF Chain
<1>9. \A i \in 1..Len(tasks') : IsFetch(tasks'[i]) => tasks'[i].batch = <<>>
    <2>1. ASSUME NEW i \in 1..n + 1 PROVE IsFetch(tasks'[i]) => tasks'[i].batch = <<>>
        <3>1. CASE i \in 1..n
            <4>1. tasks'[i] = tasks[i] /\ (IsFetch(tasks[i]) => tasks[i].batch = <<>>)
                BY <1>3, <1>6, <3>1 DEF TasksInv
            <4> QED BY <4>1 DEF IsFetch
        <3>2. CASE i = n + 1
            <4>1. tasks'[i] = r
                BY <1>6, <3>2
            <4>2. IsFetch(r) => r.batch = <<>>
                BY <1>2
            <4> QED BY <4>1, <4>2 DEF IsFetch
        <3>3. i \in 1..n \/ i = n + 1
            OBVIOUS
        <3> QED BY <3>1, <3>2, <3>3
    <2> QED BY <1>6, <2>1
<1> QED BY <1>7, <1>8, <1>9 DEF TasksInv, IsFetch, HandedOn

-----------------------------------------------------------------------------
(* The refinement                                                          *)

FeedInv == BatchInv /\ TasksInv

LEMMA FeedInit == Init => FeedInv /\ Feed!Init
<1> SUFFICES ASSUME Init PROVE FeedInv /\ Feed!Init
    OBVIOUS
<1>1. Ws.at = "out" /\ Ws.batch = <<>> /\ Ws.op = "none" /\ BatchInv
    BY DEF Init, Ws, NoCallback, BatchInv
<1>2. Pipeline = <<>>
    BY <1>1, EmptySeq, ConcatEmptySeq DEF Init, Pipeline, Posting, Arriving
<1>3. Len(tasks) = 0 /\ Len(m_subscribe_topics) = 0 /\ updates = 0 /\ m_subscribe_topics = <<>>
    BY EmptySeq DEF Init
<1>4. Chain([i \in Nat |-> 0])
    BY <1>2, <1>3, CountsNothing DEF Chain
<1>5. TasksInv
    BY <1>3, <1>4, CountsNothing DEF TasksInv
<1> QED BY <1>1, <1>3, <1>5 DEF FeedInv, Feed!Init

LEMMA FeedStep ==
    ASSUME TypeOK, TypeOK', FeedInv, [Next]_vars
    PROVE  FeedInv' /\ [Feed!Next]_Feed!feedVars
<1>1. BatchInv' /\ TasksInv
    BY BatchStep DEF FeedInv
<1>2. CASE Quiet
    <2>1. TasksInv'
        BY <1>1, <1>2 DEF Quiet, Outside, TasksInv, Chain
    <2> QED BY <1>1, <1>2, <2>1 DEF Quiet, Outside, FeedInv, Feed!feedVars
<1>3. CASE Brought
    BY <1>1, <1>3, TasksBrought DEF Brought, FeedInv, Feed!Next, Feed!Receive
<1>4. CASE HandedOn
    BY <1>1, <1>4, TasksHandedOn DEF HandedOn, FeedInv, Feed!feedVars
<1>5. CASE Ran
    <2> DEFINE n == Len(m_subscribe_topics')
    <2>1. TasksInv' /\ Len(m_subscribe_topics) <= n /\ n <= updates /\ updates' = updates
        BY <1>1, <1>5, TasksRan DEF Ran
    <2>2. m_subscribe_topics' = [i \in 1..n |-> i]
        <3>1. m_subscribe_topics' \in Seq(Nat) /\ \A i \in 1..n : m_subscribe_topics'[i] = 0 + i
            BY <2>1, TasksType DEF TasksInv, Counts, TypeOK
        <3> QED BY <3>1, LenProperties
    <2>3. CASE n = Len(m_subscribe_topics)
        <3>1. m_subscribe_topics = [i \in 1..n |-> i]
            <4>1. m_subscribe_topics \in Seq(Nat) /\ \A i \in 1..n : m_subscribe_topics[i] = 0 + i
                BY <1>1, <2>3, TasksType DEF TasksInv, Counts
            <4> QED BY <2>3, <4>1, LenProperties
        <3> QED BY <1>1, <2>1, <2>2, <3>1 DEF FeedInv, Feed!feedVars
    <2>4. CASE n > Len(m_subscribe_topics)
        <3>1. n \in Len(m_subscribe_topics) + 1 .. updates
            BY <2>1, <2>4, TasksType, LenProperties DEF TypeOK
        <3>2. Feed!Display
            BY <2>1, <2>2, <3>1 DEF Feed!Display
        <3> QED BY <1>1, <2>1, <3>2 DEF FeedInv, Feed!Next
    <2> QED BY <2>1, <2>3, <2>4, TasksType, LenProperties DEF TypeOK
<1> QED BY <1>2, <1>3, <1>4, <1>5, PipelineStep DEF FeedInv

\* Whatever requests are made, refused or cut off, and wherever the connection
\* is lost, the list of the subscription tab grows as TopicFeed promises: the
\* buffer of the session, the callbacks of the transport thread and the tasks of
\* the screen lose, duplicate and reorder no update.
THEOREM FeedIsImplemented == Spec => FeedIsSafe
<1>1. TypeOK /\ TypeOK' /\ FeedInv /\ [Next]_vars => FeedInv' /\ [Feed!Next]_Feed!feedVars
    BY FeedStep
<1> QED BY <1>1, FeedInit, TypeCorrect, PTL DEF Spec, FeedIsSafe, Feed!SafeSpec

=============================================================================
