------------------------------- MODULE Session -------------------------------
(***************************************************************************)
(* The session of dmon: data/session.cpp with the callbacks that main.cpp  *)
(* installs and the parts of the user interface that start requests and    *)
(* display their results.                                                  *)
(*                                                                         *)
(* Three threads meet here.  "ui" runs screen.Loop: button handlers, which *)
(* call Session::fetch and Session::subscribe, and the tasks posted to the *)
(* screen.  "ws" is the library's transport thread: it sends what is       *)
(* queued and runs the callbacks of incoming messages.  "ses" is the       *)
(* library's session thread: it reconnects, and discards conversations.    *)
(* Two mutexes matter: m_operationMutex of the Session and the library's   *)
(* handler mutex, which guards its table of conversations.                 *)
(*                                                                         *)
(* Requests are numbered in the order they are made; a selector, and a     *)
(* fetched topic, are named by the request they belong to.                 *)
(***************************************************************************)
EXTENDS Naturals, Sequences

CONSTANTS
    MaxFetches,       \* bound: requests made with Session::fetch
    MaxSubscribes,    \* bound: requests made with Session::subscribe
    TopicsPerFetch,   \* bound: topics the server returns for one fetch
    MaxUpdates,       \* bound: topic messages of subscriptions
    MaxDrops,         \* bound: times the connection is lost
    Capacity,         \* capacity of the library's outbound queue (1000)
    FetchVerdicts,    \* what the server may answer to a fetch, and to a
    SubscribeVerdicts, \* subscribe request: "granted", "refused"
    RepliesFirst      \* does it send a fetch's topics before its response?

ASSUME ConstantsAssumption ==
    /\ {MaxFetches, MaxSubscribes, TopicsPerFetch, MaxUpdates, MaxDrops} \subseteq Nat
    /\ Capacity \in Nat \ {0}
    /\ FetchVerdicts \subseteq {"granted", "refused"}
    /\ SubscribeVerdicts \subseteq {"granted", "refused"}
    /\ RepliesFirst \in BOOLEAN

VARIABLES
    \* Members of class Session.
    m_fetch_in_progress, m_subscribe_in_progress,
    m_topics,                \* topics of the current fetch, as a set
    m_subscrube_topics,      \* buffered updates, oldest first
    m_selector,              \* the request whose selector it holds
    m_subscribeStatus,       \* has m_subscribeStatus been set to an error?
    \* Threads.
    ui,                      \* where the UI thread is in fetch or subscribe
    cb,                      \* the callback that "ws" and "ses" each run
    \* The animator, the screen's task queue and MainComponent.
    m_signals, tasks,
    shown,                   \* m_topics and m_fetch_error_message
    m_subscribe_topics,
    labels,                  \* the checkboxes of container_level_filter_
    \* The library and the server.
    transport, conv, outbound, serving, sent, updates,
    \* How many requests were made, and how often the connection was lost.
    fetches, subscribes, drops

sessionVars == <<m_fetch_in_progress, m_subscribe_in_progress, m_topics,
                 m_subscrube_topics, m_selector, m_subscribeStatus>>
screenVars  == <<tasks, shown, m_subscribe_topics, labels>>
serverVars  == <<serving, sent, updates>>
libVars     == <<transport, conv, outbound, drops>>
countVars   == <<fetches, subscribes>>
outside == <<screenVars, serverVars, libVars, countVars>>
vars == <<sessionVars, ui, cb, m_signals, outside>>

-----------------------------------------------------------------------------
NoSelector == <<"none", 0>>
Selectors  == {"none", "fetch", "subscribe"} \X Nat

FetchOps     == {"fetched", "fetchError", "fetchDiscard"}
SubscribeOps == {"subscribed", "subscribeError", "update"}
Ops          == FetchOps \cup SubscribeOps \cup {"topic", "none"}

\* A callback in flight: how far it is, what it was called for, and its
\* locals (the selector, and the topics captured for the screen).
Callbacks == [at : {"out", "connected", "loop", "entered", "check", "stop", "take", "post"},
              op : Ops, id : Nat, sel : Selectors,
              topics : SUBSET (Nat \X Nat), batch : Seq(Nat)]

NoCallback == [at |-> "out", op |-> "none", id |-> 0, sel |-> NoSelector,
               topics |-> {}, batch |-> <<>>]

TypeOK ==
    /\ m_fetch_in_progress \in BOOLEAN
    /\ m_subscribe_in_progress \in BOOLEAN
    /\ m_topics \in SUBSET (Nat \X Nat)
    /\ m_subscrube_topics \in Seq(Nat)
    /\ m_selector \in Selectors
    /\ m_subscribeStatus \in BOOLEAN
    /\ ui \in {"idle", "callFetch", "addReply", "sendFetch",
               "callSubscribe", "sendSubscribe", "selfLock"}
    /\ cb \in [{"ws", "ses"} -> Callbacks]
    /\ m_signals \in SUBSET {"fetch", "subscribe"}
    /\ tasks \in Seq(Callbacks)
    /\ shown \in [op : Ops, id : Nat, topics : SUBSET (Nat \X Nat)]
    /\ m_subscribe_topics \in Seq(Nat)
    /\ labels \in Seq(Selectors)
    /\ transport \in {"up", "down", "closed"}
    /\ conv \in SUBSET ({"command", "reply", "subscribe"} \X Nat)
    /\ outbound \in Seq({"fetch", "subscribe"} \X Nat)
    /\ Len(outbound) <= Capacity
    /\ serving \in SUBSET ({"fetch", "subscribe"} \X Nat \X {"granted", "refused"})
    /\ sent \in [1..MaxFetches -> 0..TopicsPerFetch]
    /\ updates \in 0..MaxUpdates
    /\ fetches \in 0..MaxFetches
    /\ subscribes \in 0..MaxSubscribes
    /\ drops \in 0..MaxDrops

\* main() has connected and installed the callbacks; the screen loop runs.
Init ==
    /\ m_fetch_in_progress = FALSE
    /\ m_subscribe_in_progress = FALSE
    /\ m_topics = {}
    /\ m_subscrube_topics = <<>>
    /\ m_selector = NoSelector
    /\ m_subscribeStatus = FALSE
    /\ ui = "idle"
    /\ cb = [t \in {"ws", "ses"} |-> NoCallback]
    /\ m_signals = {}
    /\ tasks = <<>>
    /\ shown = [op |-> "none", id |-> 0, topics |-> {}]
    /\ m_subscribe_topics = <<>>
    /\ labels = <<>>
    /\ transport = "up"
    /\ conv = {}
    /\ outbound = <<>>
    /\ serving = {}
    /\ sent = [f \in 1..MaxFetches |-> 0]
    /\ updates = 0
    /\ fetches = 0
    /\ subscribes = 0
    /\ drops = 0

\* m_operationMutex is kept over several steps only by fetch and subscribe;
\* every other critical section on it is one step.
OperationFree == ui = "idle"

\* The session thread keeps the handler mutex while it discards conversations.
HandlerFree == cb["ses"].at \in {"out", "connected"}

-----------------------------------------------------------------------------
(* The UI thread: Session::fetch and Session::subscribe                    *)

\* Mutant: requests are never turned away.
AlwaysAccepts == TRUE

\* Both fetch and subscribe are turned away while a fetch is in progress.
Accepts == ~m_fetch_in_progress

\* Session::fetch up to the library call, m_operationMutex taken and kept.
UserFetch ==
    /\ ui = "idle"
    /\ fetches < MaxFetches
    /\ Accepts
    /\ ui' = "callFetch"
    /\ fetches' = fetches + 1
    /\ m_fetch_in_progress' = TRUE
    /\ m_topics' = {}
    /\ m_selector' = <<"fetch", fetches + 1>>
    /\ m_signals' = m_signals \cup {"fetch"}        \* m_fetch_start_callback
    /\ UNCHANGED <<m_subscribe_in_progress, m_subscrube_topics, m_subscribeStatus,
                   cb, screenVars, serverVars, libVars, subscribes>>

\* ::fetch returns silently if the session has no transport.
FetchWithoutTransport ==
    /\ ui = "callFetch"
    /\ transport # "up"
    /\ ui' = "idle"
    /\ UNCHANGED <<sessionVars, cb, m_signals, outside>>

\* Mutant: off by one.
QueueOverfull == Len(outbound) > Capacity

QueueFull == Len(outbound) >= Capacity

\* Otherwise it registers two conversations, one for the response to the
\* command and one for its topics and status ...
AddConversation(from, to, kind, id) ==
    /\ ui = from
    /\ HandlerFree
    /\ conv' = conv \cup {<<kind, id>>}
    /\ ui' = to
    /\ UNCHANGED <<sessionVars, cb, m_signals, screenVars, serverVars,
                   transport, outbound, drops, countVars>>

AddCommand == transport = "up" /\ AddConversation("callFetch", "addReply", "command", fetches)
AddReply   == AddConversation("addReply", "sendFetch", "reply", fetches)

\* ... and queues the request, after which Session::fetch returns.
Send(from, kind, id) ==
    /\ ui = from
    /\ ~QueueFull
    /\ outbound' = Append(outbound, <<kind, id>>)
    /\ ui' = "idle"
    /\ UNCHANGED <<sessionVars, cb, m_signals, screenVars, serverVars,
                   transport, conv, drops, countVars>>

SendFetch == Send("sendFetch", "fetch", fetches)

\* The transport thread empties the queue between two callbacks.
Draining == transport = "up" /\ cb["ws"].at = "out"

\* It cannot as long as it waits for m_operationMutex in a callback.
Stuck == transport # "up" \/ cb["ws"].at \in {"entered", "check", "take"}

\* The queue stays full for 5 s: the library calls the error callback from
\* the caller's stack, and that locks the m_operationMutex its thread holds.
SendFails ==
    /\ ui \in {"sendFetch", "sendSubscribe"}
    /\ QueueFull /\ Stuck
    /\ ui' = "selfLock"
    /\ UNCHANGED <<sessionVars, cb, m_signals, outside>>

\* Session::subscribe up to the library call.  Only a fetch in progress stops
\* it, and it uses the same m_selector as fetch.
UserSubscribe ==
    /\ ui = "idle"
    /\ subscribes < MaxSubscribes
    /\ Accepts
    /\ ui' = "callSubscribe"
    /\ subscribes' = subscribes + 1
    /\ m_selector' = <<"subscribe", subscribes + 1>>
    /\ m_subscribe_in_progress' = TRUE
    /\ m_signals' = m_signals \cup {"subscribe"}    \* m_subscribe_start_callback
    /\ UNCHANGED <<m_fetch_in_progress, m_topics, m_subscrube_topics, m_subscribeStatus,
                   cb, screenVars, serverVars, libVars, fetches>>

\* ::subscribe does not look at the transport.
AddSubscribe  == AddConversation("callSubscribe", "sendSubscribe", "subscribe", subscribes)

\* Mutant: subscribe ends with a getter that locks m_operationMutex.
SendSubscribeRelocks ==
    /\ ui = "sendSubscribe"
    /\ ~QueueFull
    /\ outbound' = Append(outbound, <<"subscribe", subscribes>>)
    /\ ui' = "selfLock"
    /\ UNCHANGED <<sessionVars, cb, m_signals, screenVars, serverVars,
                   transport, conv, drops, countVars>>

SendSubscribe == Send("sendSubscribe", "subscribe", subscribes)

-----------------------------------------------------------------------------
(* The UI thread: tasks posted to the screen                               *)

IsFetch(r) == r.op \in FetchOps

\* MainComponent::onFetchCompleted replaces the list and the message.
ShowFetch(r) ==
    /\ shown' = [op |-> r.op, id |-> r.id, topics |-> r.topics]
    /\ UNCHANGED <<m_subscribe_topics, labels>>

\* MainComponent::onSubscribeCompleted appends, and adds a checkbox for the
\* selector unless it is empty.
ShowUpdates(r) ==
    /\ m_subscribe_topics' = m_subscribe_topics \o r.batch
    /\ labels' = IF r.sel = NoSelector THEN labels ELSE Append(labels, r.sel)
    /\ UNCHANGED shown

RunTask ==
    /\ ui = "idle"
    /\ tasks # <<>>
    /\ tasks' = Tail(tasks)
    /\ IF IsFetch(Head(tasks)) THEN ShowFetch(Head(tasks)) ELSE ShowUpdates(Head(tasks))
    /\ UNCHANGED <<sessionVars, ui, cb, m_signals, serverVars, libVars, countVars>>

\* The user does nothing.
Wait == ui = "idle" /\ UNCHANGED vars

-----------------------------------------------------------------------------
(* The library delivers a message: the transport thread enters a callback  *)

Enter(op, id, topics, batch) ==
    cb' = [cb EXCEPT !["ws"] = [NoCallback EXCEPT
              !.at = "entered", !.op = op, !.id = id, !.topics = topics, !.batch = batch]]

\* The transport thread serves one event at a time and looks the conversation
\* up under the handler mutex.
CanRoute == Draining /\ HandlerFree

\* The next queued request reaches the server, which grants or refuses it.
Drain ==
    /\ Draining
    /\ outbound # <<>>
    /\ outbound' = Tail(outbound)
    /\ \E v \in IF Head(outbound)[1] = "fetch" THEN FetchVerdicts ELSE SubscribeVerdicts :
           serving' = serving \cup {<<Head(outbound)[1], Head(outbound)[2], v>>}
    /\ UNCHANGED <<sessionVars, ui, cb, m_signals, screenVars, sent, updates,
                   transport, conv, drops, countVars>>

RouteTopic(f) ==
    /\ CanRoute
    /\ <<"reply", f>> \in conv
    /\ <<"fetch", f, "granted">> \in serving
    /\ RepliesFirst => <<"command", f>> \in conv
    /\ sent[f] < TopicsPerFetch
    /\ sent' = [sent EXCEPT ![f] = @ + 1]
    /\ Enter("topic", f, {<<f, sent[f] + 1>>}, <<>>)
    /\ UNCHANGED <<sessionVars, ui, m_signals, screenVars, serving, updates, libVars, countVars>>

\* A response ends its conversation before the callback is called.
RouteResponse(kind, id, request, op) ==
    /\ CanRoute
    /\ <<kind, id>> \in conv
    /\ request \in serving
    /\ conv' = conv \ {<<kind, id>>}
    /\ Enter(op, id, {}, <<>>)
    /\ UNCHANGED <<sessionVars, ui, m_signals, screenVars, serverVars,
                   transport, outbound, drops, countVars>>

RouteFetchResponse(f) == RouteResponse("command", f, <<"fetch", f, "granted">>, "fetched")
RouteFetchError(f)    == RouteResponse("command", f, <<"fetch", f, "refused">>, "fetchError")
RouteSubscribed(s)    == RouteResponse("subscribe", s, <<"subscribe", s, "granted">>, "subscribed")
RouteSubscribeError(s) == RouteResponse("subscribe", s, <<"subscribe", s, "refused">>, "subscribeError")

\* The status message ends the conversation of the topics; its callback logs.
RouteStatus(f) ==
    /\ CanRoute
    /\ <<"reply", f>> \in conv
    /\ <<"fetch", f, "granted">> \in serving
    /\ conv' = conv \ {<<"reply", f>>}
    /\ UNCHANGED <<sessionVars, ui, cb, m_signals, screenVars, serverVars,
                   transport, outbound, drops, countVars>>

\* A value of a subscribed topic; the server may send it before the response.
RouteUpdate ==
    /\ CanRoute
    /\ \E s \in 1..subscribes : <<"subscribe", s, "granted">> \in serving
    /\ updates < MaxUpdates
    /\ updates' = updates + 1
    /\ Enter("update", 0, {}, <<updates + 1>>)
    /\ UNCHANGED <<sessionVars, ui, m_signals, screenVars, serving, sent, libVars, countVars>>

-----------------------------------------------------------------------------
(* The callbacks: Session::on... and the lambdas of main.cpp               *)

At(t, at, op) == cb[t].at = at /\ cb[t].op = op

\* The callback returns to the transport thread's event loop, or to the
\* session thread's loop over the conversations.
Return(t) ==
    cb' = [cb EXCEPT ![t] = [NoCallback EXCEPT !.at = IF t = "ses" THEN "loop" ELSE "out"]]

\* The callback goes on, with the selector it has moved out of the session.
GoOn(t, at, sel) == cb' = [cb EXCEPT ![t].at = at, ![t].sel = sel]

OnFetchTopic ==
    /\ At("ws", "entered", "topic")
    /\ OperationFree
    /\ m_topics' = m_topics \cup cb["ws"].topics
    /\ Return("ws")
    /\ UNCHANGED <<m_fetch_in_progress, m_subscribe_in_progress, m_subscrube_topics, m_selector,
                   m_subscribeStatus, ui, m_signals, outside>>

\* Mutant: m_fetch_in_progress is left to the next critical section.
EndFetchLater(t, op, kept, handed) ==
    /\ At(t, "entered", op)
    /\ OperationFree
    /\ m_selector' = kept
    /\ GoOn(t, "stop", handed)
    /\ UNCHANGED <<m_fetch_in_progress, m_subscribe_in_progress, m_topics, m_subscrube_topics,
                   m_subscribeStatus, ui, m_signals, outside>>

\* The locked part of onFetchCompleted, onFetchError and onFetchDiscard: which
\* selector stays in m_selector, and which is handed on.  m_topics stays.
EndFetch(t, op, kept, handed) ==
    /\ At(t, "entered", op)
    /\ OperationFree
    /\ m_fetch_in_progress' = FALSE
    /\ m_selector' = kept
    /\ GoOn(t, "stop", handed)
    /\ UNCHANGED <<m_subscribe_in_progress, m_topics, m_subscrube_topics, m_subscribeStatus,
                   ui, m_signals, outside>>

\* Mutant: an error is only logged, as in on_subscribe_discard.
OnFetchErrorLogs ==
    /\ At("ws", "entered", "fetchError")
    /\ Return("ws")
    /\ UNCHANGED <<sessionVars, ui, m_signals, outside>>

\* Mutant: m_fetch_error_callback is not called.
OnFetchErrorQuiet ==
    /\ At("ws", "entered", "fetchError")
    /\ OperationFree
    /\ m_fetch_in_progress' = FALSE
    /\ Return("ws")
    /\ UNCHANGED <<m_subscribe_in_progress, m_topics, m_subscrube_topics, m_selector,
                   m_subscribeStatus, ui, m_signals, outside>>

OnFetchCompleted == EndFetch("ws", "fetched", NoSelector, m_selector)
OnFetchError     == EndFetch("ws", "fetchError", m_selector, NoSelector)
OnFetchDiscard   == EndFetch("ses", "fetchDiscard", NoSelector, m_selector)

\* Mutant: the wrong way round.
SubscriptionOver == ~m_subscribe_in_progress

isSubscribtionInProgress == m_subscribe_in_progress

\* onSubscribeTopic buffers the update in one critical section ...
OnSubscribeTopic ==
    /\ At("ws", "entered", "update")
    /\ OperationFree
    /\ m_subscrube_topics' = m_subscrube_topics \o cb["ws"].batch
    /\ GoOn("ws", "check", NoSelector)
    /\ UNCHANGED <<m_fetch_in_progress, m_subscribe_in_progress, m_topics, m_selector,
                   m_subscribeStatus, ui, m_signals, outside>>

\* ... and in a second one tests whether to hand the buffer to the screen.
CheckSubscription ==
    /\ At("ws", "check", "update")
    /\ OperationFree
    /\ IF isSubscribtionInProgress THEN Return("ws") ELSE GoOn("ws", "stop", NoSelector)
    /\ UNCHANGED <<sessionVars, ui, m_signals, outside>>

\* Mutant: the selector is copied, not moved.
OnSubscribeCompletedCopies ==
    /\ At("ws", "entered", "subscribed")
    /\ OperationFree
    /\ m_subscribe_in_progress' = FALSE
    /\ GoOn("ws", "stop", m_selector)
    /\ UNCHANGED <<m_fetch_in_progress, m_topics, m_subscrube_topics, m_selector,
                   m_subscribeStatus, ui, m_signals, outside>>

OnSubscribeCompleted ==
    /\ At("ws", "entered", "subscribed")
    /\ OperationFree
    /\ m_subscribe_in_progress' = FALSE
    /\ m_selector' = NoSelector
    /\ GoOn("ws", "stop", m_selector)
    /\ UNCHANGED <<m_fetch_in_progress, m_topics, m_subscrube_topics, m_subscribeStatus,
                   ui, m_signals, outside>>

\* Mutant: an error is only logged, as in on_subscribe_discard.
OnSubscribeErrorLogs ==
    /\ At("ws", "entered", "subscribeError")
    /\ Return("ws")
    /\ UNCHANGED <<sessionVars, ui, m_signals, outside>>

OnSubscribeError ==
    /\ At("ws", "entered", "subscribeError")
    /\ OperationFree
    /\ m_subscribe_in_progress' = FALSE
    /\ m_subscribeStatus' = TRUE
    /\ GoOn("ws", "stop", NoSelector)
    /\ UNCHANGED <<m_fetch_in_progress, m_topics, m_subscrube_topics, m_selector,
                   ui, m_signals, outside>>

\* Mutant: an error or a discard stops the other spinner.
SignalOfResult(op) == IF op = "fetched" THEN "fetch" ELSE "subscribe"

SignalOf(op) == IF op \in FetchOps THEN "fetch" ELSE "subscribe"

\* Each lambda of main.cpp first stops its spinner ...
StopAnimator(t) ==
    /\ cb[t].at = "stop"
    /\ m_signals' = m_signals \ {SignalOf(cb[t].op)}
    /\ GoOn(t, IF cb[t].op \in {"fetched", "subscribed", "update"} THEN "take" ELSE "post", cb[t].sel)
    /\ UNCHANGED <<sessionVars, ui, outside>>

\* Mutant: getFetchTopics copies the topics instead of moving them.
CopyFetchTopics(t) ==
    /\ At(t, "take", "fetched")
    /\ OperationFree
    /\ cb' = [cb EXCEPT ![t].at = "post", ![t].topics = m_topics]
    /\ UNCHANGED <<sessionVars, ui, m_signals, outside>>

TakeFetchTopics(t) ==
    /\ At(t, "take", "fetched")
    /\ OperationFree
    /\ cb' = [cb EXCEPT ![t].at = "post", ![t].topics = m_topics]
    /\ m_topics' = {}
    /\ UNCHANGED <<m_fetch_in_progress, m_subscribe_in_progress, m_subscrube_topics, m_selector,
                   m_subscribeStatus, ui, m_signals, outside>>

\* Mutant: getSubscribeTopics copies the buffer instead of moving it.
CopySubscribeTopics(t) ==
    /\ cb[t].at = "take" /\ cb[t].op \in {"subscribed", "update"}
    /\ OperationFree
    /\ cb' = [cb EXCEPT ![t].at = "post", ![t].batch = m_subscrube_topics]
    /\ UNCHANGED <<sessionVars, ui, m_signals, outside>>

\* ... then, if it has topics to deliver, moves them out of the session under
\* m_operationMutex (getFetchTopics above, getSubscribeTopics here) ...
TakeSubscribeTopics(t) ==
    /\ cb[t].at = "take" /\ cb[t].op \in {"subscribed", "update"}
    /\ OperationFree
    /\ cb' = [cb EXCEPT ![t].at = "post", ![t].batch = m_subscrube_topics]
    /\ m_subscrube_topics' = <<>>
    /\ UNCHANGED <<m_fetch_in_progress, m_subscribe_in_progress, m_topics, m_selector,
                   m_subscribeStatus, ui, m_signals, outside>>

\* ... and posts a task that shows its locals.  An error or a discard has
\* captured no topics, and an error no selector.
Post(t) ==
    /\ cb[t].at = "post"
    /\ tasks' = Append(tasks, cb[t])
    /\ Return(t)
    /\ UNCHANGED <<sessionVars, ui, m_signals, shown, m_subscribe_topics, labels,
                   serverVars, libVars, countVars>>

-----------------------------------------------------------------------------
(* Losing the connection: the library's session thread                     *)

\* The transport thread ends; it is not in a callback then.
LinkDown ==
    /\ transport = "up" /\ cb["ws"].at = "out" /\ cb["ses"].at = "out"
    /\ drops < MaxDrops
    /\ drops' = drops + 1
    /\ transport' = "down"
    /\ UNCHANGED <<sessionVars, ui, cb, m_signals, screenVars, serverVars, conv, outbound, countVars>>

\* The session thread, which is not discarding anything then.
Reconnecting == transport = "down" /\ cb["ses"].at = "out"

\* The server still knows the session: everything goes on.
ReconnectSame ==
    /\ Reconnecting
    /\ transport' = "up"
    /\ UNCHANGED <<sessionVars, ui, cb, m_signals, screenVars, serverVars,
                   conv, outbound, drops, countVars>>

\* A new session, or none (after the retries): the session thread goes on to
\* discard the conversations, with the new transport thread already running.
NewSessionOrNone ==
    /\ Reconnecting
    /\ transport' \in {"up", "closed"}
    /\ serving' = {}
    /\ cb' = [cb EXCEPT !["ses"].at = "connected"]
    /\ UNCHANGED <<sessionVars, ui, m_signals, screenVars, sent, updates,
                   conv, outbound, drops, countVars>>

\* session_discard_conversations takes the handler mutex ...
StartDiscarding ==
    /\ cb["ses"].at = "connected"
    /\ cb' = [cb EXCEPT !["ses"].at = "loop"]
    /\ UNCHANGED <<sessionVars, ui, m_signals, outside>>

\* ... calls the on_discard of each conversation (on_fetch_discard, or
\* on_subscribe_discard, which only logs) ...
Discard(c) ==
    /\ cb["ses"].at = "loop"
    /\ c \in conv
    /\ conv' = conv \ {c}
    /\ cb' = IF c[1] = "subscribe" THEN cb
             ELSE [cb EXCEPT !["ses"] = [NoCallback EXCEPT !.at = "entered",
                                         !.op = "fetchDiscard", !.id = c[2]]]
    /\ UNCHANGED <<sessionVars, ui, m_signals, screenVars, serverVars,
                   transport, outbound, drops, countVars>>

\* ... and gives it back.
DiscardingDone ==
    /\ cb["ses"].at = "loop"
    /\ conv = {}
    /\ cb' = [cb EXCEPT !["ses"].at = "out"]
    /\ UNCHANGED <<sessionVars, ui, m_signals, outside>>

-----------------------------------------------------------------------------
LibraryCall ==
    \/ FetchWithoutTransport \/ AddCommand \/ AddReply \/ SendFetch
    \/ AddSubscribe \/ SendSubscribe \/ SendFails

\* The server's answers to the requests it has received.
Answer ==
    \/ \E f \in 1..MaxFetches : RouteFetchResponse(f) \/ RouteFetchError(f)
    \/ \E s \in 1..MaxSubscribes : RouteSubscribed(s) \/ RouteSubscribeError(s)

Incoming ==
    \/ \E f \in 1..MaxFetches : RouteTopic(f) \/ RouteStatus(f)
    \/ RouteUpdate

CallbackStep(t) == StopAnimator(t) \/ TakeFetchTopics(t) \/ TakeSubscribeTopics(t) \/ Post(t)

WsStep ==
    \/ OnFetchTopic \/ OnFetchCompleted \/ OnFetchError
    \/ OnSubscribeTopic \/ CheckSubscription \/ OnSubscribeCompleted \/ OnSubscribeError
    \/ CallbackStep("ws")

SesStep ==
    \/ StartDiscarding \/ (\E c \in conv : Discard(c)) \/ DiscardingDone
    \/ OnFetchDiscard
    \/ CallbackStep("ses")

Reconnect == ReconnectSame \/ NewSessionOrNone

Next ==
    \/ UserFetch \/ UserSubscribe \/ Wait
    \/ LibraryCall \/ RunTask
    \/ Drain \/ Answer \/ Incoming
    \/ WsStep \/ SesStep
    \/ LinkDown \/ Reconnect

Spec == Init /\ [][Next]_vars

\* Threads that can run do run; the screen runs its tasks; the library sends
\* what is queued while it is connected, and ends an interruption one way or
\* the other; the server answers what it has received.  Nothing makes the user
\* act, the connection break, or the server send topics.
FairSpec ==
    /\ Spec
    /\ WF_vars(LibraryCall) /\ WF_vars(RunTask)
    /\ WF_vars(Drain) /\ WF_vars(Answer)
    /\ WF_vars(WsStep) /\ WF_vars(SesStep)
    /\ WF_vars(Reconnect)

-----------------------------------------------------------------------------
(* Properties                                                              *)

Ending(t) == cb[t].at = "entered" /\ cb[t].op \in FetchOps

\* While "In progress" is displayed, something is on its way that will end it:
\* ::fetch is about to open the fetch's command conversation, or that is open,
\* or a callback is about to clear m_fetch_in_progress.
FetchHasEnding ==
    m_fetch_in_progress =>
        \/ ui = "callFetch"
        \/ <<"command", fetches>> \in conv
        \/ \E t \in {"ws", "ses"} : Ending(t)

\* Fetches never overlap: whenever the library can route a response, an open
\* command conversation is that of the last fetch, and that fetch is in
\* progress.  m_topics is shared by all fetches, so an overlap would mix them.
OneFetch ==
    \A f \in 1..MaxFetches :
        HandlerFree /\ <<"command", f>> \in conv => f = fetches /\ m_fetch_in_progress

\* The fetch spinner turns only while a fetch is in progress, or until the
\* callback that ended it has reached animator.stop: no interleaving of a new
\* fetch with the callbacks of the last leaves it turning for ever.
NoOrphanSpinner ==
    "fetch" \in m_signals =>
        m_fetch_in_progress \/ \E t \in {"ws", "ses"} : cb[t].at = "stop" /\ cb[t].op \in FetchOps

\* The spinner of a fetch in progress is taken away only by the callback of an
\* earlier fetch that is late with its animator.stop, never by one of its own:
\* each of these has cleared m_fetch_in_progress before.
SpinnerTakenByEarlier ==
    [][ m_fetch_in_progress' /\ "fetch" \in m_signals =>
            \/ "fetch" \in m_signals'
            \/ \E t \in {"ws", "ses"} :
                   cb[t].at = "stop" /\ cb[t].op \in FetchOps /\ cb[t].id < fetches ]_m_signals

\* What is displayed as the result of a completed fetch is all that the server
\* sent for it and nothing else, unless the user has already started another
\* fetch: moving the topics out in getFetchTopics, after m_fetch_in_progress was
\* cleared, loses nothing of the newest fetch.
WholeResult ==
    shown.op = "fetched" =>
        /\ shown.topics \subseteq {shown.id} \X (1..sent[shown.id])
        /\ shown.id = fetches => shown.topics = {shown.id} \X (1..sent[shown.id])

\* The screen shows results in the order of the fetches: a late result never
\* replaces that of a newer fetch.
NeverOlder == [][shown'.id >= shown.id]_shown

Flushing ==
    \/ At("ws", "check", "update")
    \/ cb["ws"].at \in {"stop", "take"} /\ cb["ws"].op \in {"subscribed", "update"}

\* The search tab shows the results of fetches as FetchResults promises: each at
\* most once, in order, all of it or, if the next fetch has cleared m_topics
\* before getFetchTopics took them, nothing.
Results == INSTANCE FetchResults WITH
    Fetches <- 1..MaxFetches, requested <- fetches, busy <- m_fetch_in_progress,
    found <- sent, displayed <- shown
ResultsAreSafe == Results!SafeSpec

\* And the result of every fetch, or that of a later one, is displayed.
ResultsArrive == Results!Spec

\* Who has topics: the session, the callbacks, the screen and its tasks.
TopicOwners ==
    <<m_topics, cb["ws"].topics, cb["ses"].topics, shown.topics>>
        \o [i \in 1..Len(tasks) |-> tasks[i].topics]

\* A topic has one owner, and so is in one result at most, even if a connection
\* is lost and fetches overlap, so that the callback of one takes topics of another.
TopicsHaveOneOwner ==
    LET owners == TopicOwners IN
    \A i, j \in 1..Len(owners) : i # j => owners[i] \cap owners[j] = {}

\* Updates wait in the buffer although no subscribe request is in progress, and
\* no callback is about to hand them over.
Stranded == m_subscrube_topics # <<>> /\ ~m_subscribe_in_progress /\ ~Flushing

\* Updates are stranded only when a request is refused with others already in
\* the buffer (onSubscribeError does not hand them over), never by the gap
\* between the two critical sections of onSubscribeTopic, or by a request that
\* starts or ends in it.
StrandedOnlyByRefusal ==
    [][ Stranded' =>
            \/ Stranded
            \/ /\ At("ws", "entered", "subscribeError")
               /\ m_subscribe_in_progress /\ ~m_subscribe_in_progress' ]_vars

\* Whatever the server answers to the requests, every update received is
\* eventually displayed, unless a refusal has stranded it.
UpdatesArrive ==
    Len(m_subscribe_topics) < updates ~> Len(m_subscribe_topics) = updates \/ Stranded

\* The lists of the subscription tab grow as TopicFeed promises: no update is
\* lost, duplicated or reordered by the buffer, the callbacks and the tasks.
Feed == INSTANCE TopicFeed WITH received <- updates, displayed <- m_subscribe_topics
FeedIsSafe == Feed!SafeSpec

\* And every update is eventually displayed, with no exception for a stranded one.
FeedDelivers == Feed!Spec

\* A fetch ends.
FetchEnds == m_fetch_in_progress ~> ~m_fetch_in_progress

\* A request never hangs the user interface: the UI thread always gets out of
\* Session::fetch and Session::subscribe.
UiResponds == ui # "idle" ~> ui = "idle"

\* Nothing holds the UI thread up in fetch and subscribe: the handler mutex is
\* free when the library takes it, and there is room in the outbound queue for
\* the request.  The queue is not drained while the transport thread waits for
\* m_operationMutex, which the UI thread holds then; but a fetch can be queued
\* only if no other is, since it would be in progress.
UiIsNotBlocked ==
    /\ ui # "selfLock"
    /\ ui # "idle" => HandlerFree
    /\ ui \in {"sendFetch", "sendSubscribe"} => ~QueueFull

\* Whatever happens to the connection, the UI thread locks m_operationMutex for
\* a second time, in the error callback, only after more requests than the
\* outbound queue can hold.
SelfLockNeedsFullQueue == ui = "selfLock" => fetches + subscribes > Capacity

\* No two checkboxes of the "Subscriptions" window are for the same request:
\* fetch and subscribe share m_selector, and whoever ends a request moves out of
\* it the selector of the request made last, but nobody gets it twice.
LabelsAreDistinct == \A i, j \in 1..Len(labels) : labels[i] = labels[j] => i = j

\* A fetch is accepted only with a connection.
FetchNeedsConnection ==
    [][~m_fetch_in_progress /\ m_fetch_in_progress' => transport = "up"]_vars

\* The library's discarding of conversations comes to an end.
DiscardingEnds == cb["ses"].at = "loop" ~> cb["ses"].at = "out"

=============================================================================
