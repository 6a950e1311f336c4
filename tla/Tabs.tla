-------------------------------- MODULE Tabs --------------------------------
(***************************************************************************)
(* What the user sees of a request: the tabs "Search" (0) and              *)
(* "Subscription" (1) of MainComponent.  Each has its LogDisplayer, a list *)
(* of topics of which one row is highlighted and shown in the "Content"    *)
(* window.  A fetch replaces the list of its tab; whatever a subscription  *)
(* delivers is appended to the list of the other.  The two tabs have only  *)
(* the screen and the toggle in common, so one of them is observed.        *)
(*                                                                         *)
(* The screen's loop takes tasks and events from a queue and draws a frame *)
(* some time after an event, but not after a task.  A library thread ends  *)
(* a request in three steps: it clears the flag that says that it is in    *)
(* progress, posts the task that changes the list, and posts an event.     *)
(* That fetches do not overlap is shown in module Session.                 *)
(***************************************************************************)
EXTENDS Integers, Sequences, SequencesExt

CONSTANTS
    MaxRequests,    \* bound: requests made with the button of the tab
    MaxTopics       \* bound: topics of one fetch, or of all subscriptions

ASSUME BoundsAssumption == MaxRequests \in Nat /\ MaxTopics \in Nat

VARIABLES
    observed,       \* the tab that is observed; it never changes
    \* Session, as seen by the tab: m_fetch_in_progress or
    \* m_subscribe_in_progress; how many requests were made, how many are not
    \* answered and has one been granted; where the lambda of the library's
    \* thread is, and the result that it has captured.
    in_progress, requests, open, granted, lambda,
    results,        \* the list that the results so far add up to
    \* MainComponent: m_topics or m_subscribe_topics, and likewise the error
    \* message and the payload.
    m_topics, m_error_message, m_payload, tab_selected_,
    \* LogDisplayer: the highlighted row, counted from 0, the length of the list
    \* when it was last rendered, and the topic whose dump m_seltext is.
    selected_, size, m_seltext,
    \* ScreenInteractive: its queue, is an animation frame requested, is the
    \* last frame up to date, and what does the tab look like in its last frame?
    queue, animating, frame_valid, drawn

sessionVars == <<observed, in_progress, requests, open, granted, lambda, results>>
componentVars == <<m_topics, m_error_message, m_payload, tab_selected_>>
displayerVars == <<selected_, size, m_seltext>>
screenVars == <<queue, animating, frame_valid, drawn>>
vars == <<sessionVars, componentVars, displayerVars, screenVars>>

\* A topic is named by the fetch that found it, or by 1 if it was subscribed to,
\* and its place in the list.
Topics == Nat \X Nat
NoText == <<0, 0>>

Results == [topics : Seq(Topics), error : BOOLEAN]

\* "Fetching status" and "Subscribe status" show "In progress", the error, or
\* nothing.
Frames == [topics : Seq(Topics), row : Topics, content : Topics,
           status : {"progress", "error", "none"}]

TypeOK ==
    /\ observed \in 0..1
    /\ in_progress \in BOOLEAN
    /\ requests \in 0..MaxRequests
    /\ open \in 0..requests
    /\ granted \in BOOLEAN
    /\ lambda \in [at : {"out", "post", "event"}, result : Results]
    /\ results \in Seq(Topics)
    /\ m_topics \in Seq(Topics)
    /\ m_error_message \in BOOLEAN
    /\ m_payload \in Topics
    /\ tab_selected_ \in 0..2
    /\ selected_ \in Nat
    /\ size \in Nat
    /\ m_seltext \in Topics
    /\ queue \in Seq([kind : {"task", "event"}, result : Results])
    /\ animating \in BOOLEAN
    /\ frame_valid \in BOOLEAN
    /\ drawn \in Frames

NoResult == [topics |-> <<>>, error |-> FALSE]

Init ==
    /\ observed \in 0..1
    /\ in_progress = FALSE
    /\ requests = 0
    /\ open = 0
    /\ granted = FALSE
    /\ lambda = [at |-> "out", result |-> NoResult]
    /\ results = <<>>
    /\ m_topics = <<>>
    /\ m_error_message = FALSE
    /\ m_payload = NoText
    /\ tab_selected_ = 0
    /\ selected_ = 0
    /\ size = 0
    /\ m_seltext = NoText
    /\ queue = <<>>
    /\ animating = FALSE
    /\ frame_valid = FALSE
    /\ drawn = [topics |-> <<>>, row |-> NoText, content |-> NoText, status |-> "none"]

-----------------------------------------------------------------------------
(* The user                                                                *)

\* The button of the tab, or enter in its input: fetch, which is turned away
\* while a fetch is in progress, or subscribe, which is not turned away by
\* other subscribe requests; then clearSelected.
Request ==
    /\ tab_selected_ = observed
    /\ observed = 0 => ~in_progress
    /\ requests < MaxRequests
    /\ in_progress' = TRUE
    /\ requests' = requests + 1
    /\ open' = open + 1
    /\ m_seltext' = NoText
    /\ frame_valid' = FALSE
    /\ UNCHANGED <<observed, granted, lambda, results, componentVars, selected_, size,
                   queue, animating, drawn>>

Keys == {"ArrowUp", "ArrowDown", "Tab", "TabReverse", "PageUp", "PageDown"}

Moved(key) ==
    CASE key = "ArrowUp" -> selected_ - 1
      [] key = "ArrowDown" -> selected_ + 1
      [] key = "PageUp" -> selected_ - 10
      [] key = "PageDown" -> selected_ + 10
      [] key = "Tab" -> IF size > 0 THEN (selected_ + 1) % size ELSE selected_
      [] key = "TabReverse" -> IF size > 0 THEN (selected_ + size - 1) % size ELSE selected_

\* Mutant: not clamped from below.
ClampAbove(row) == IF row > size - 1 THEN size - 1 ELSE row

Clamp(row) == LET low == IF row > size - 1 THEN size - 1 ELSE row
              IN  IF low < 0 THEN 0 ELSE low

\* LogDisplayer::OnEvent while it has the focus.
Key(key) ==
    /\ tab_selected_ = observed
    /\ selected_' = Clamp(Moved(key))
    /\ animating' = (animating \/ selected_' # selected_)
    /\ frame_valid' = FALSE
    /\ UNCHANGED <<sessionVars, componentVars, size, m_seltext, queue, drawn>>

\* The toggle of the tabs.
SwitchTab(tab) ==
    /\ tab # tab_selected_
    /\ tab_selected_' = tab
    /\ frame_valid' = FALSE
    /\ UNCHANGED <<sessionVars, m_topics, m_error_message, m_payload,
                   displayerVars, queue, animating, drawn>>

\* Any other event, such as a tick of the animator, a move of the mouse, or one
\* that concerns the other tab.
OtherEvent ==
    /\ frame_valid
    /\ frame_valid' = FALSE
    /\ UNCHANGED <<sessionVars, componentVars, displayerVars, queue, animating, drawn>>

-----------------------------------------------------------------------------
(* The library's thread                                                    *)

\* Topics are found; the callback goes on to its lambda with them.
Deliver(topics, error) ==
    /\ lambda' = [at |-> "post", result |-> [topics |-> topics, error |-> error]]
    /\ results' = IF observed = 0 THEN topics ELSE results \o topics

\* onFetchCompleted, onFetchError or onFetchDiscard, and getFetchTopics.
EndFetch(n, error) ==
    /\ observed = 0 /\ open > 0
    /\ lambda.at = "out"
    /\ in_progress' = FALSE
    /\ open' = open - 1
    /\ Deliver([i \in 1..n |-> <<requests, i>>], error)
    /\ UNCHANGED <<observed, requests, granted, componentVars, displayerVars, screenVars>>

\* The next n topics of a subscription.
Subscribed(n) == [i \in 1..n |-> <<1, Len(results) + i>>]

\* onSubscribeCompleted with getSubscribeTopics, or onSubscribeError.
EndSubscribe(n, error) ==
    /\ observed = 1 /\ open > 0
    /\ lambda.at = "out"
    /\ Len(results) + n <= MaxTopics
    /\ in_progress' = FALSE
    /\ open' = open - 1
    /\ granted' = (granted \/ ~error)
    /\ Deliver(Subscribed(n), error)
    /\ UNCHANGED <<observed, requests, componentVars, displayerVars, screenVars>>

\* onSubscribeTopic, which hands its topic on, and what is left in the buffer,
\* unless a request is in progress.
OnSubscribeTopic(n) ==
    /\ observed = 1 /\ granted
    /\ lambda.at = "out"
    /\ ~in_progress
    /\ Len(results) + n <= MaxTopics
    /\ Deliver(Subscribed(n), FALSE)
    /\ UNCHANGED <<observed, in_progress, requests, open, granted,
                   componentVars, displayerVars, screenVars>>

\* screen.Post of the task ...
PostTask ==
    /\ lambda.at = "post"
    /\ queue' = Append(queue, [kind |-> "task", result |-> lambda.result])
    /\ lambda' = [lambda EXCEPT !.at = "event"]
    /\ UNCHANGED <<observed, in_progress, requests, open, granted, results, componentVars,
                   displayerVars, animating, frame_valid, drawn>>

\* Mutant: the lambda ends with screen.Post.
NoPostEvent ==
    /\ lambda.at = "event"
    /\ lambda' = [lambda EXCEPT !.at = "out"]
    /\ UNCHANGED <<observed, in_progress, requests, open, granted, results, componentVars,
                   displayerVars, screenVars>>

\* ... and screen.PostEvent.
PostEvent ==
    /\ lambda.at = "event"
    /\ queue' = Append(queue, [kind |-> "event", result |-> NoResult])
    /\ lambda' = [lambda EXCEPT !.at = "out", !.result = NoResult]
    /\ UNCHANGED <<observed, in_progress, requests, open, granted, results, componentVars,
                   displayerVars, animating, frame_valid, drawn>>

-----------------------------------------------------------------------------
(* The screen's loop                                                       *)

\* Mutant: onSubscribeCompleted replaces the list, as onFetchCompleted does.
Replaced(topics) == topics

\* MainComponent::onFetchCompleted moves the topics to m_topics,
\* onSubscribeCompleted copies them to the end of m_subscribe_topics.
Listed(topics) == IF observed = 0 THEN topics ELSE m_topics \o topics

\* Both also replace the error message.
RunTask ==
    /\ queue # <<>> /\ Head(queue).kind = "task"
    /\ queue' = Tail(queue)
    /\ m_topics' = Listed(Head(queue).result.topics)
    /\ m_error_message' = Head(queue).result.error
    /\ UNCHANGED <<sessionVars, m_payload, tab_selected_, displayerVars,
                   animating, frame_valid, drawn>>

\* MainComponent::OnEvent.
HandleEvent ==
    /\ queue # <<>> /\ Head(queue).kind = "event"
    /\ queue' = Tail(queue)
    /\ frame_valid' = FALSE
    /\ UNCHANGED <<sessionVars, componentVars, displayerVars, animating, drawn>>

\* An animation frame that was requested; nothing is animated.
Animate ==
    /\ animating
    /\ animating' = FALSE
    /\ frame_valid' = FALSE
    /\ UNCHANGED <<sessionVars, componentVars, displayerVars, queue, drawn>>

\* RenderLines forgets a row beyond the end of the list, but not one at it.
RenderedRow ==
    IF size # Len(m_topics) /\ selected_ > Len(m_topics) THEN 0 ELSE selected_

Highlighted == RenderedRow + 1 \in DOMAIN m_topics

\* Mutant: the text is kept when the list is empty.
KeptText == IF Highlighted THEN m_topics[RenderedRow + 1] ELSE m_seltext

\* Mutant: the dump is made only if there is none.
CachedText ==
    IF m_topics = <<>> THEN NoText
    ELSE IF Highlighted /\ m_seltext = NoText THEN m_topics[RenderedRow + 1] ELSE m_seltext

RenderedText ==
    IF m_topics = <<>> THEN NoText
    ELSE IF Highlighted THEN m_topics[RenderedRow + 1] ELSE m_seltext

Status ==
    IF in_progress THEN "progress"
    ELSE IF m_error_message THEN "error" ELSE "none"

\* MainComponent::Render: the payload is read before the lines are rendered,
\* which they are on their own tab only.
Render ==
    /\ ~frame_valid
    /\ frame_valid' = TRUE
    /\ m_payload' = m_seltext
    /\ IF tab_selected_ = observed
       THEN /\ selected_' = RenderedRow
            /\ m_seltext' = RenderedText
            /\ size' = Len(m_topics)
            /\ drawn' = [topics |-> m_topics,
                         row |-> IF Highlighted THEN m_topics[RenderedRow + 1] ELSE NoText,
                         content |-> m_seltext, status |-> Status]
       ELSE UNCHANGED <<displayerVars, drawn>>
    /\ UNCHANGED <<sessionVars, m_topics, m_error_message, tab_selected_, queue, animating>>

User ==
    \/ Request \/ OtherEvent
    \/ \E key \in Keys : Key(key)
    \/ \E tab \in 0..2 : SwitchTab(tab)

Library ==
    \/ \E n \in 0..MaxTopics, error \in BOOLEAN :
           (error => n = 0) /\ (EndFetch(n, error) \/ EndSubscribe(n, error))
    \/ \E n \in 1..MaxTopics : OnSubscribeTopic(n)
    \/ PostTask \/ PostEvent

Loop == RunTask \/ HandleEvent \/ Animate \/ Render

Next == User \/ Library \/ Loop

Spec == Init /\ [][Next]_vars

-----------------------------------------------------------------------------
(* Properties                                                              *)

\* The loop has nothing left to do, and no request is under way.
Quiet ==
    /\ queue = <<>> /\ ~animating /\ frame_valid
    /\ ~in_progress /\ lambda.at = "out"

\* Whatever the user does meanwhile, changing tabs included, the screen comes
\* to rest with the result of the last fetch, or with everything that the
\* subscriptions have delivered, and the status on it.  The task that changes
\* the list draws nothing; the event posted after it does.
ResultIsDrawn ==
    Quiet /\ tab_selected_ = observed =>
        /\ m_topics = results
        /\ drawn.topics = m_topics
        /\ drawn.status = Status

\* The text of the selected row is, in every frame, that of a topic in the list
\* drawn with it, or none, however the list is replaced and the selection moved;
\* except when the selection is just past the end of a shorter list, which
\* RenderLines does not notice (it tests > for >=).
TextIsListed ==
    frame_valid /\ tab_selected_ = observed =>
        \/ m_seltext \in Range(drawn.topics) \cup {NoText}
        \/ drawn.topics # <<>> /\ selected_ = Len(drawn.topics)

\* The content follows the highlight by one frame, and no more: a frame shows
\* the text of the row that was highlighted in the last one, even if the list
\* has been replaced since, unless a new request has cleared it.
ContentFollows ==
    [][drawn.row # NoText => drawn'.content \in {drawn.row, NoText}]_drawn

\* The user does not lose the place in the list of subscribed topics while it
\* grows: what was drawn stays, and some row is highlighted ever after the first
\* was.
PlaceIsKept ==
    [][ observed = 1 =>
            /\ IsPrefix(drawn.topics, drawn'.topics)
            /\ drawn.topics # <<>> => drawn.row # NoText /\ drawn'.row # NoText ]_drawn
=============================================================================
