----------------------------- MODULE Tabs_proofs -----------------------------
(***************************************************************************)
(* Proofs about Tabs, for lists of any length and any number of requests:  *)
(* type correctness, that the text of the selected row is that of a topic  *)
(* drawn with it, that the place in the subscribed topics is kept, and     *)
(* that the screen comes to rest with the result on it.                    *)
(***************************************************************************)
EXTENDS Tabs, SequenceTheorems, TLAPS

\* What most actions do: the selection and the frame stay as they are; at most
\* the frame is declared out of date.
FrameKept ==
    /\ UNCHANGED <<selected_, size, m_seltext, drawn, tab_selected_, observed>>
    /\ frame_valid' = frame_valid \/ ~frame_valid'

-----------------------------------------------------------------------------
(* Lemmas                                                                  *)

\* OnEvent leaves the selection on a row of the list as it was last rendered,
\* or on row 0.
LEMMA ClampInRange ==
    ASSUME size \in Nat, NEW row \in Int
    PROVE  Clamp(row) \in Nat /\ Clamp(row) <= size /\ (Clamp(row) < size \/ Clamp(row) = 0)
BY DEF Clamp

\* Every key moves the selection to an integer.
LEMMA MovedIsInt ==
    ASSUME selected_ \in Nat, size \in Nat, NEW key \in Keys
    PROVE  Moved(key) \in Int
<1>1. CASE key \in {"ArrowUp", "ArrowDown", "PageUp", "PageDown"}
    BY <1>1 DEF Moved
<1>2. CASE key = "Tab"
    BY <1>2 DEF Moved
<1>3. CASE key = "TabReverse"
    BY <1>3 DEF Moved
<1> QED BY <1>1, <1>2, <1>3 DEF Keys

\* The topics of a fetch, and of a subscription, are sequences of topics.
LEMMA ResultIsTyped ==
    ASSUME NEW k \in Nat, NEW first \in Nat, NEW n \in Nat
    PROVE  /\ [i \in 1..n |-> <<k, i>>] \in Seq(Topics)
           /\ [i \in 1..n |-> <<k, first + i>>] \in Seq(Topics)
<1>1. [i \in 1..n |-> <<k, i>>] \in [1..n -> Topics]
    BY DEF Topics
<1>2. [i \in 1..n |-> <<k, first + i>>] \in [1..n -> Topics]
    BY DEF Topics
<1> QED BY <1>1, <1>2

\* What is delivered, and the list that it adds up to.
LEMMA DeliverIsTyped ==
    ASSUME TypeOK, NEW topics \in Seq(Topics), NEW error \in BOOLEAN, Deliver(topics, error)
    PROVE  /\ lambda' \in [at : {"out", "post", "event"}, result : Results]
           /\ results' \in Seq(Topics)
<1>1. results \o topics \in Seq(Topics)
    BY DEF TypeOK
<1> QED BY <1>1 DEF Deliver, Results, TypeOK

\* No topic and no result are values of their types.
LEMMA NothingIsTyped == NoText \in Topics /\ NoResult \in Results
BY DEF NoText, NoResult, Topics, Results

-----------------------------------------------------------------------------
(* Type correctness                                                        *)

\* The variables keep their types: in particular the selection never becomes
\* negative, whatever key is pressed on a list of any length.
THEOREM TypeCorrect == Spec => []TypeOK
<1>1. Init => TypeOK
    <2> SUFFICES ASSUME Init PROVE TypeOK
        OBVIOUS
    <2>1. /\ m_topics \in Seq(Topics) /\ results \in Seq(Topics)
          /\ requests \in 0..MaxRequests /\ open \in 0..requests
        BY BoundsAssumption DEF Init
    <2>2. drawn \in Frames
        BY NothingIsTyped DEF Init, Frames
    <2>3. queue \in Seq([kind : {"task", "event"}, result : Results])
        BY DEF Init
    <2>4. lambda \in [at : {"out", "post", "event"}, result : Results]
        BY NothingIsTyped DEF Init
    <2>5. selected_ \in Nat /\ size \in Nat /\ tab_selected_ \in 0..2 /\ observed \in 0..1
        BY DEF Init
    <2>6. m_payload \in Topics /\ m_seltext \in Topics
        BY NothingIsTyped DEF Init
    <2>7. /\ in_progress \in BOOLEAN /\ granted \in BOOLEAN /\ m_error_message \in BOOLEAN
          /\ animating \in BOOLEAN /\ frame_valid \in BOOLEAN
        BY DEF Init
    <2> QED BY <2>1, <2>2, <2>3, <2>4, <2>5, <2>6, <2>7, Zenon DEF TypeOK
<1>2. TypeOK /\ [Next]_vars => TypeOK'
    <2> SUFFICES ASSUME TypeOK, [Next]_vars PROVE TypeOK'
        OBVIOUS
    <2> USE BoundsAssumption
    <2>1. CASE Request
        <3>1. requests' \in 0..MaxRequests /\ open' \in 0..requests'
            BY <2>1 DEF Request, TypeOK
        <3>2. m_seltext' \in Topics
            BY <2>1, NothingIsTyped DEF Request
        <3> QED BY <2>1, <3>1, <3>2, Zenon DEF Request, TypeOK, componentVars
    <2>2. CASE OtherEvent
        BY <2>2 DEF OtherEvent, TypeOK, sessionVars, componentVars, displayerVars
    <2>3. ASSUME NEW key \in Keys, Key(key) PROVE TypeOK'
        <3>1. selected_' \in Nat
            BY <2>3, MovedIsInt, ClampInRange DEF Key, TypeOK
        <3> QED BY <2>3, <3>1 DEF Key, TypeOK, sessionVars, componentVars
    <2>4. ASSUME NEW tab \in 0..2, SwitchTab(tab) PROVE TypeOK'
        BY <2>4 DEF SwitchTab, TypeOK, sessionVars, displayerVars
    <2>5. ASSUME NEW topics \in Seq(Topics), NEW error \in BOOLEAN, Deliver(topics, error),
                 open' \in 0..requests, in_progress' \in BOOLEAN, granted' \in BOOLEAN,
                 UNCHANGED <<observed, requests, componentVars, displayerVars, screenVars>>
          PROVE  TypeOK'
        BY <2>5, DeliverIsTyped DEF TypeOK, componentVars, displayerVars, screenVars
    <2>6. ASSUME NEW n \in 0..MaxTopics, NEW error \in BOOLEAN,
                  EndFetch(n, error) \/ EndSubscribe(n, error)
           PROVE  TypeOK'
        <3>1. open > 0 /\ open' = open - 1 /\ in_progress' = FALSE
            BY <2>6 DEF EndFetch, EndSubscribe
        <3>2. open' \in 0..requests
            <4>1. open \in 0..requests /\ requests \in Nat
                BY DEF TypeOK
            <4> QED BY <3>1, <4>1
        <3>3. requests \in Nat /\ Len(results) \in Nat /\ n \in Nat
            BY DEF TypeOK
        <3>4. CASE EndFetch(n, error)
            BY <2>5, <3>1, <3>2, <3>3, <3>4, ResultIsTyped, Zenon DEF EndFetch, TypeOK
        <3>5. CASE EndSubscribe(n, error)
            <4>1. (granted \/ ~error) \in BOOLEAN
                OBVIOUS
            <4> QED BY <2>5, <3>1, <3>2, <3>3, <3>5, <4>1, ResultIsTyped
                   DEF EndSubscribe, Subscribed
        <3> QED BY <2>6, <3>4, <3>5
    <2>7. ASSUME NEW n \in 1..MaxTopics, OnSubscribeTopic(n) PROVE TypeOK'
        <3>1. Len(results) \in Nat /\ n \in Nat /\ open \in 0..requests
              /\ in_progress \in BOOLEAN /\ granted \in BOOLEAN
            BY DEF TypeOK
        <3> QED BY <2>5, <2>7, <3>1, ResultIsTyped DEF OnSubscribeTopic, Subscribed
    <2>8. CASE PostTask
        <3>1. queue' \in Seq([kind : {"task", "event"}, result : Results])
            BY <2>8 DEF PostTask, TypeOK
        <3> QED BY <2>8, <3>1 DEF PostTask, TypeOK, componentVars, displayerVars
    <2>9. CASE PostEvent
        <3>1. queue' \in Seq([kind : {"task", "event"}, result : Results])
            BY <2>9, NothingIsTyped DEF PostEvent, TypeOK
        <3> QED BY <2>9, <3>1, NothingIsTyped
                DEF PostEvent, TypeOK, componentVars, displayerVars
    <2>10. CASE RunTask
        <3>1. Head(queue) \in [kind : {"task", "event"}, result : Results]
            BY <2>10, HeadTailProperties DEF RunTask, TypeOK
        <3>2. queue' \in Seq([kind : {"task", "event"}, result : Results])
            BY <2>10, HeadTailProperties DEF RunTask, TypeOK
        <3>3. m_topics' \in Seq(Topics)
            <4>1. Head(queue).result.topics \in Seq(Topics)
                BY <3>1 DEF Results
            <4> QED BY <2>10, <4>1 DEF RunTask, Listed, TypeOK
        <3> QED BY <2>10, <3>1, <3>2, <3>3
                DEF RunTask, TypeOK, Results, sessionVars, displayerVars
    <2>11. CASE HandleEvent
        <3>1. queue' \in Seq([kind : {"task", "event"}, result : Results])
            BY <2>11, HeadTailProperties DEF HandleEvent, TypeOK
        <3> QED BY <2>11, <3>1 DEF HandleEvent, TypeOK, sessionVars, componentVars, displayerVars
    <2>12. CASE Animate
        BY <2>12 DEF Animate, TypeOK, sessionVars, componentVars, displayerVars
    <2>13. CASE Render
        <3>1. RenderedRow \in Nat /\ Len(m_topics) \in Nat
            BY DEF RenderedRow, TypeOK
        <3>2. Highlighted => m_topics[RenderedRow + 1] \in Topics
            BY ElementOfSeq, <3>1 DEF Highlighted, TypeOK
        <3>3. RenderedText \in Topics
            BY <3>2, NothingIsTyped DEF RenderedText, TypeOK
        <3>4. Status \in {"progress", "error", "none"}
            BY DEF Status
        <3>5. drawn' \in Frames
            BY <2>13, <3>2, <3>4, NothingIsTyped DEF Render, TypeOK, Frames, displayerVars
        <3> QED BY <2>13, <3>1, <3>3, <3>5 DEF Render, TypeOK, sessionVars, displayerVars
    <2>14. CASE UNCHANGED vars
        BY <2>14 DEF vars, sessionVars, componentVars, displayerVars, screenVars, TypeOK
    <2> QED BY <2>1, <2>2, <2>3, <2>4, <2>6, <2>7, <2>8, <2>9, <2>10, <2>11,
               <2>12, <2>13, <2>14
            DEF Next, User, Library, Loop
<1> QED BY <1>1, <1>2, PTL DEF Spec

-----------------------------------------------------------------------------
(* The text of the selected row                                            *)

\* The selection is at most just past the end of the list that was last rendered.
SelectionInv == selected_ <= size

TextInv == SelectionInv /\ TextIsListed

\* TextIsListed, for lists of any length.  It rests on the selection: were it
\* further past the end, RenderLines could leave the old text in place without
\* the one exception that TextIsListed allows.
THEOREM TextStaysListed == Spec => []TextIsListed
<1>1. Init => TextInv
    BY DEF Init, TextInv, SelectionInv, TextIsListed
<1>2. TypeOK /\ TextInv /\ [Next]_vars => TextInv'
    <2> SUFFICES ASSUME TypeOK, TextInv, [Next]_vars PROVE TextInv'
        OBVIOUS
    <2> USE DEF TextInv, SelectionInv, TextIsListed
    <2>1. CASE FrameKept
        BY <2>1 DEF FrameKept
    <2>2. CASE Request
        BY <2>2 DEF Request
    <2>3. ASSUME NEW key \in Keys, Key(key) PROVE TextInv'
        <3>1. selected_' <= size'
            BY <2>3, MovedIsInt, ClampInRange DEF Key, TypeOK
        <3> QED BY <2>3, <3>1 DEF Key
    <2>4. ASSUME NEW tab \in 0..2, SwitchTab(tab) PROVE TextInv'
        BY <2>4 DEF SwitchTab, displayerVars
    <2>5. CASE Render /\ tab_selected_ = observed
        <3> DEFINE n == Len(m_topics)
        <3>0. n \in Nat /\ selected_ \in Nat /\ size \in Nat
            BY DEF TypeOK
        <3>1. RenderedRow \in Nat /\ RenderedRow <= n
            BY <3>0 DEF RenderedRow
        <3>2. selected_' = RenderedRow /\ size' = n /\ m_seltext' = RenderedText
              /\ drawn'.topics = m_topics
            BY <2>5 DEF Render
        <3>3. CASE m_topics = <<>>
            BY <3>1, <3>2, <3>3 DEF RenderedText
        <3>4. CASE m_topics # <<>> /\ Highlighted
            <4>1. RenderedRow + 1 \in DOMAIN m_topics
                BY <3>4 DEF Highlighted
            <4>2. m_topics[RenderedRow + 1] \in Range(m_topics)
                BY <4>1 DEF Range
            <4>3. m_seltext' \in Range(drawn'.topics)
                BY <3>2, <3>4, <4>2 DEF RenderedText
            <4> QED BY <3>1, <3>2, <4>3
        <3>5. CASE m_topics # <<>> /\ ~Highlighted
            <4>1. DOMAIN m_topics = 1..n
                BY DEF TypeOK
            <4>2. RenderedRow + 1 \notin 1..n
                BY <3>5, <4>1 DEF Highlighted
            <4>3. RenderedRow = n
                BY <3>0, <3>1, <4>2
            <4> QED BY <3>1, <3>2, <3>5, <4>3
        <3> QED BY <3>3, <3>4, <3>5
    <2>6. CASE Render /\ tab_selected_ # observed
        BY <2>6 DEF Render, sessionVars, displayerVars
    <2>7. OtherEvent \/ HandleEvent \/ Animate => FrameKept
        BY DEF OtherEvent, HandleEvent, Animate, FrameKept, sessionVars, displayerVars,
               componentVars
    <2>8. RunTask \/ PostTask \/ PostEvent => FrameKept
        BY DEF RunTask, PostTask, PostEvent, FrameKept, sessionVars, displayerVars, componentVars
    <2>9. ASSUME NEW n, NEW error,
                 EndFetch(n, error) \/ EndSubscribe(n, error) \/ OnSubscribeTopic(n)
          PROVE  FrameKept
        BY <2>9 DEF EndFetch, EndSubscribe, OnSubscribeTopic, FrameKept, componentVars,
                    displayerVars, screenVars
    <2>10. UNCHANGED vars => FrameKept
        BY DEF vars, FrameKept, sessionVars, displayerVars, componentVars, screenVars
    <2> QED BY <2>1, <2>2, <2>3, <2>4, <2>5, <2>6, <2>7, <2>8, <2>9, <2>10
            DEF Next, User, Library, Loop
<1> QED BY <1>1, <1>2, TypeCorrect, PTL DEF Spec, TextInv

-----------------------------------------------------------------------------
(* The place in the list of subscribed topics                              *)

\* A prefix stays one when topics are added.
LEMMA PrefixOfLonger ==
    ASSUME NEW s \in Seq(Topics), NEW t \in Seq(Topics), NEW u \in Seq(Topics), IsPrefix(s, t)
    PROVE  IsPrefix(s, t \o u)
<1>1. Len(s) <= Len(t) /\ Len(t) <= Len(t \o u) /\ Len(s) \in Nat
    BY DEF IsPrefix
<1>2. SubSeq(t, 1, Len(s)) = SubSeq(t \o u, 1, Len(s))
    <2>1. SubSeq(t, 1, Len(s)) = [i \in 1..Len(s) |-> t[i]]
        BY <1>1
    <2>2. SubSeq(t \o u, 1, Len(s)) = [i \in 1..Len(s) |-> (t \o u)[i]]
        BY <1>1
    <2>3. \A i \in 1..Len(s) : (t \o u)[i] = t[i]
        BY <1>1
    <2> QED BY <2>1, <2>2, <2>3
<1> QED BY <1>1, <1>2 DEF IsPrefix

\* A sequence is a prefix of itself, and the empty one of every sequence.
LEMMA PrefixOfItself ==
    ASSUME NEW s \in Seq(Topics)
    PROVE  IsPrefix(s, s) /\ IsPrefix(<<>>, s)
BY DEF IsPrefix

\* Subscribed topics; none of them is NoText.
SubscribedTopics == {1} \X Nat

\* Everything on its way to the list is a sequence of subscribed topics.
FeedInv ==
    /\ m_topics \in Seq(SubscribedTopics)
    /\ lambda.result.topics \in Seq(SubscribedTopics)
    /\ queue \in Seq([kind : {"task", "event"},
                     result : [topics : Seq(SubscribedTopics), error : BOOLEAN]])

\* What is drawn is the beginning of the list, and the selection is a row of it.
RowInv ==
    /\ IsPrefix(drawn.topics, m_topics)
    /\ size = Len(drawn.topics)
    /\ selected_ < size \/ selected_ = 0
    /\ drawn.topics # <<>> => drawn.row # NoText

PlaceInv == observed = 1 => FeedInv /\ RowInv

\* A step that PlaceIsKept allows.
PlaceStep ==
    observed = 1 =>
        /\ IsPrefix(drawn.topics, drawn'.topics)
        /\ drawn.topics # <<>> => drawn.row # NoText /\ drawn'.row # NoText

\* FeedInv is inductive.
LEMMA FeedStep ==
    ASSUME TypeOK, observed = 1, FeedInv, [Next]_vars
    PROVE  FeedInv'
<1> DEFINE S == Seq(SubscribedTopics)
           Q == [kind : {"task", "event"}, result : [topics : S, error : BOOLEAN]]
<1>1. ASSUME UNCHANGED <<m_topics, lambda, queue>> PROVE FeedInv'
    BY <1>1 DEF FeedInv
<1>2. ASSUME NEW n \in Nat, NEW error, Deliver(Subscribed(n), error), UNCHANGED <<m_topics, queue>>
      PROVE  FeedInv'
    <2>1. Subscribed(n) \in [1..n -> SubscribedTopics]
        BY DEF Subscribed, SubscribedTopics, TypeOK
    <2>2. Subscribed(n) \in S
        BY <2>1
    <2> QED BY <1>2, <2>2 DEF Deliver, FeedInv
<1>3. CASE PostTask
    <2>1. [kind |-> "task", result |-> lambda.result] \in Q
        <3>1. lambda.result.error \in BOOLEAN /\ lambda.result \in Results
            BY DEF TypeOK, Results
        <3> QED BY <3>1 DEF FeedInv, Results
    <2>2. queue' \in Seq(Q)
        BY <1>3, <2>1 DEF PostTask, FeedInv
    <2>3. lambda'.result = lambda.result
        BY <1>3 DEF PostTask, TypeOK
    <2> QED BY <1>3, <2>2, <2>3 DEF PostTask, FeedInv, componentVars
<1>4. CASE PostEvent
    <2>1. NoResult \in [topics : S, error : BOOLEAN]
        BY DEF NoResult
    <2>2. queue' \in Seq(Q)
        BY <1>4, <2>1 DEF PostEvent, FeedInv
    <2>3. lambda'.result = NoResult
        BY <1>4 DEF PostEvent, TypeOK
    <2> QED BY <1>4, <2>1, <2>2, <2>3 DEF PostEvent, FeedInv, componentVars
<1>5. CASE RunTask
    <2>1. Head(queue) \in Q /\ queue' \in Seq(Q)
        BY <1>5, HeadTailProperties DEF RunTask, FeedInv
    <2>2. m_topics' \in S
        BY <1>5, <2>1 DEF RunTask, Listed, FeedInv
    <2> QED BY <1>5, <2>1, <2>2 DEF RunTask, FeedInv, sessionVars
<1>6. CASE HandleEvent
    <2>1. queue' \in Seq(Q)
        BY <1>6, HeadTailProperties DEF HandleEvent, FeedInv
    <2> QED BY <1>6, <2>1 DEF HandleEvent, FeedInv, sessionVars, componentVars
<1>7. Request \/ OtherEvent \/ Animate \/ Render \/ UNCHANGED vars =>
          UNCHANGED <<m_topics, lambda, queue>>
    BY DEF Request, OtherEvent, Animate, Render, vars, sessionVars, componentVars, screenVars
<1>8. ASSUME NEW k, Key(k) \/ SwitchTab(k) PROVE UNCHANGED <<m_topics, lambda, queue>>
    BY <1>8 DEF Key, SwitchTab, sessionVars, componentVars
<1>9. ASSUME NEW n \in 0..MaxTopics, NEW error, EndFetch(n, error) PROVE FeedInv'
    BY <1>9 DEF EndFetch
<1>10. ASSUME NEW n \in Nat, NEW error, EndSubscribe(n, error) \/ OnSubscribeTopic(n)
       PROVE  FeedInv'
    BY <1>2, <1>10 DEF EndSubscribe, OnSubscribeTopic, componentVars, screenVars
<1> QED BY <1>1, <1>3, <1>4, <1>5, <1>6, <1>7, <1>8, <1>9, <1>10, BoundsAssumption
        DEF Next, User, Library, Loop

\* Rendering the tab: the list has only grown since the last frame, and so the
\* selection is still a row of it.
LEMMA RenderKeepsPlace ==
    ASSUME TypeOK, observed = 1, FeedInv, RowInv, Render, tab_selected_ = observed
    PROVE  RowInv' /\ PlaceStep
<1>1. /\ drawn'.topics = m_topics /\ m_topics' = m_topics
      /\ selected_' = RenderedRow /\ size' = Len(m_topics)
      /\ drawn'.row = IF Highlighted THEN m_topics[RenderedRow + 1] ELSE NoText
    BY DEF Render
<1>2. /\ selected_ \in Nat /\ size \in Nat /\ Len(m_topics) \in Nat
      /\ m_topics \in Seq(Topics) /\ drawn.topics \in Seq(Topics)
    BY DEF TypeOK, Frames
<1>3. size <= Len(m_topics)
    BY DEF RowInv, IsPrefix
<1>4. RenderedRow = selected_ /\ (selected_' < size' \/ selected_' = 0)
    BY <1>1, <1>2, <1>3 DEF RowInv, RenderedRow
<1>5. ASSUME m_topics # <<>> PROVE drawn'.row # NoText
    <2>1. RenderedRow + 1 \in DOMAIN m_topics
        BY <1>1, <1>2, <1>4, <1>5
    <2>2. m_topics[RenderedRow + 1] \in SubscribedTopics
        BY <2>1 DEF FeedInv
    <2>3. drawn'.row \in SubscribedTopics
        BY <1>1, <2>1, <2>2 DEF Highlighted
    <2> QED BY <2>3 DEF SubscribedTopics, NoText
<1>6. drawn.topics # <<>> => m_topics # <<>>
    BY <1>2, <1>3 DEF RowInv
<1> QED BY <1>1, <1>2, <1>4, <1>5, <1>6, PrefixOfItself DEF RowInv, PlaceStep

\* RowInv is inductive, and every step keeps the place.
LEMMA RowStep ==
    ASSUME TypeOK, observed = 1, FeedInv, RowInv, [Next]_vars
    PROVE  RowInv' /\ (PlaceStep \/ drawn' = drawn)
<1>1. ASSUME UNCHANGED <<selected_, size, drawn, m_topics>>
      PROVE  RowInv' /\ (PlaceStep \/ drawn' = drawn)
    BY <1>1 DEF RowInv
<1>2. ASSUME NEW key \in Keys, Key(key) PROVE RowInv' /\ drawn' = drawn
    <2>1. selected_' < size \/ selected_' = 0
        BY <1>2, MovedIsInt, ClampInRange DEF Key, TypeOK
    <2>2. UNCHANGED <<size, drawn, m_topics>>
        BY <1>2 DEF Key, componentVars
    <2> QED BY <2>1, <2>2 DEF RowInv
<1>3. CASE RunTask
    <2>1. Head(queue).result.topics \in Seq(Topics)
        <3> DEFINE Q == [kind : {"task", "event"}, result : Results]
        <3>1. queue \in Seq(Q) /\ queue # <<>>
            BY <1>3 DEF RunTask, TypeOK
        <3>2. Head(queue) \in Q
            BY <3>1, HeadTailProperties
        <3> QED BY <3>2 DEF Results
    <2>2. m_topics' = m_topics \o Head(queue).result.topics
        BY <1>3 DEF RunTask, Listed
    <2>3. drawn.topics \in Seq(Topics) /\ m_topics \in Seq(Topics)
        BY DEF TypeOK, Frames
    <2>4. IsPrefix(drawn.topics, m_topics')
        BY <2>1, <2>2, <2>3, PrefixOfLonger DEF RowInv
    <2>5. UNCHANGED <<drawn, selected_, size>>
        BY <1>3 DEF RunTask, displayerVars
    <2> QED BY <2>4, <2>5 DEF RowInv
<1>4. CASE Render /\ tab_selected_ = observed
    BY <1>4, RenderKeepsPlace
<1>5. Render /\ tab_selected_ # observed => UNCHANGED <<selected_, size, drawn, m_topics>>
    BY DEF Render, displayerVars
<1>6. Request \/ OtherEvent \/ HandleEvent \/ Animate \/ PostTask \/ PostEvent
      \/ UNCHANGED vars => UNCHANGED <<selected_, size, drawn, m_topics>>
    BY DEF Request, OtherEvent, HandleEvent, Animate, PostTask, PostEvent, vars,
           componentVars, displayerVars, screenVars
<1>7. ASSUME NEW tab, SwitchTab(tab) PROVE UNCHANGED <<selected_, size, drawn, m_topics>>
    BY <1>7 DEF SwitchTab, displayerVars
<1>8. ASSUME NEW n, NEW error,
             EndFetch(n, error) \/ EndSubscribe(n, error) \/ OnSubscribeTopic(n)
      PROVE  UNCHANGED <<selected_, size, drawn, m_topics>>
    BY <1>8 DEF EndFetch, EndSubscribe, OnSubscribeTopic, componentVars, displayerVars,
                screenVars
<1> QED BY <1>1, <1>2, <1>3, <1>4, <1>5, <1>6, <1>7, <1>8 DEF Next, User, Library, Loop

\* PlaceIsKept, for any number of subscriptions and updates.  What it rests on:
\* the list only grows, and neither the keys nor RenderLines move the selection
\* past the list that was last drawn.
THEOREM PlaceStays == Spec => PlaceIsKept
<1>1. Init => PlaceInv
    <2> SUFFICES ASSUME Init, observed = 1 PROVE FeedInv /\ RowInv
        BY DEF PlaceInv
    <2>1. FeedInv
        <3>1. m_topics = <<>> /\ lambda.result.topics = <<>> /\ queue = <<>>
            BY DEF Init, NoResult
        <3> QED BY <3>1 DEF FeedInv
    <2>2. RowInv
        <3>1. drawn.topics = <<>> /\ m_topics = <<>> /\ size = 0 /\ selected_ = 0
            BY DEF Init
        <3>2. IsPrefix(<<>>, <<>>) /\ Len(<<>>) = 0
            BY DEF IsPrefix
        <3> QED BY <3>1, <3>2 DEF RowInv
    <2> QED BY <2>1, <2>2
<1>2. TypeOK /\ PlaceInv /\ [Next]_vars => PlaceInv' /\ [PlaceStep]_drawn
    <2> SUFFICES ASSUME TypeOK, PlaceInv, [Next]_vars PROVE PlaceInv' /\ [PlaceStep]_drawn
        OBVIOUS
    <2>1. observed' = observed
        BY DEF Next, User, Library, Loop, Request, OtherEvent, Key, SwitchTab, EndFetch,
               EndSubscribe, OnSubscribeTopic, PostTask, PostEvent, RunTask, HandleEvent,
               Animate, Render, vars, sessionVars
    <2>2. CASE observed = 1
        BY <2>1, <2>2, FeedStep, RowStep DEF PlaceInv
    <2>3. CASE observed # 1
        BY <2>1, <2>3 DEF PlaceInv, PlaceStep
    <2> QED BY <2>2, <2>3
<1> QED BY <1>1, <1>2, TypeCorrect, PTL DEF Spec, PlaceIsKept, PlaceStep

-----------------------------------------------------------------------------
(* The result is drawn                                                     *)

\* The list with topics added in the way of the tab, as Listed does, and what
\* an entry of the screen's queue makes of the list.
Added(list, topics) == IF observed = 0 THEN topics ELSE list \o topics

After(list, entry) ==
    IF entry.kind = "task" THEN Added(list, entry.result.topics) ELSE list

\* The lists that the loop is going to have, from the present one on: the last,
\* with what the library's thread is about to post, is what all results add up to.
Chain(g) ==
    /\ g[0] = m_topics
    /\ \A k \in 1..Len(queue) : g[k] = After(g[k - 1], queue[k])
    /\ results = IF lambda.at = "post" THEN Added(g[Len(queue)], lambda.result.topics)
                                       ELSE g[Len(queue)]

Lists == [0..Len(queue) -> Seq(Topics)]

ListInv == \E g \in Lists : Chain(g)

IsEvent(k) == queue[k].kind = "event"

EventComing == lambda.at # "out" \/ \E k \in 1..Len(queue) : IsEvent(k)

FrameIsRight == drawn.topics = m_topics /\ drawn.status = Status

\* A task is followed by an event, and a frame that is not right by one, too.
EventInv ==
    /\ \A k \in 1..Len(queue) :
           IsEvent(k) \/ lambda.at = "event" \/ \E j \in (k + 1)..Len(queue) : IsEvent(j)
    /\ frame_valid /\ tab_selected_ = observed => FrameIsRight \/ EventComing

\* An entry joins the queue.
LEMMA ChainGrows ==
    ASSUME TypeOK, ListInv, NEW entry, queue' = Append(queue, entry),
           UNCHANGED <<observed, m_topics, results>>, lambda'.at # "post",
           \A g \in Lists : Chain(g) => results = After(g[Len(queue)], entry)
    PROVE  ListInv'
<1>1. PICK g \in Lists : Chain(g)
    BY DEF ListInv
<1> DEFINE n == Len(queue)
<1>0. PICK h : h = [k \in 0..(n + 1) |-> IF k = n + 1 THEN results ELSE g[k]]
    OBVIOUS
<1>2. /\ n \in Nat /\ Len(queue') = n + 1 /\ results \in Seq(Topics)
      /\ \A k \in 1..n : queue'[k] = queue[k]
      /\ queue'[n + 1] = entry
    BY DEF TypeOK
<1>3. h \in Lists'
    <2>1. \A k \in 0..(n + 1) : h[k] \in Seq(Topics)
        BY <1>1, <1>2, <1>0 DEF Lists
    <2> QED BY <1>2, <1>0, <2>1 DEF Lists
<1>4. h[0] = m_topics' /\ h[n + 1] = results' /\ \A k \in 0..n : h[k] = g[k]
    BY <1>1, <1>2, <1>0 DEF Chain
<1>5. ASSUME NEW k \in 1..(n + 1) PROVE h[k] = After(h[k - 1], queue[k])'
    <2>1. CASE k = n + 1
        <3>1. h[k - 1] = g[n]
            BY <1>2, <1>4, <2>1
        <3>2. results = After(g[n], entry)
            BY <1>1
        <3> QED BY <1>2, <1>4, <2>1, <3>1, <3>2 DEF After, Added
    <2>2. CASE k # n + 1
        <3>1. k \in 1..n /\ k - 1 \in 0..n /\ k \in 0..n
            BY <1>2, <2>2
        <3>2. g[k] = After(g[k - 1], queue[k])
            BY <1>1, <3>1 DEF Chain
        <3> QED BY <1>2, <1>4, <3>1, <3>2 DEF After, Added
    <2> QED BY <2>1, <2>2
<1>6. Chain(h)'
    BY <1>2, <1>4, <1>5 DEF Chain
<1> QED BY <1>3, <1>6 DEF ListInv

\* The loop takes the first entry.
LEMMA ChainShrinks ==
    ASSUME TypeOK, ListInv, queue # <<>>, queue' = Tail(queue),
           m_topics' = After(m_topics, Head(queue)), UNCHANGED <<observed, lambda, results>>
    PROVE  ListInv'
<1>1. PICK g \in Lists : Chain(g)
    BY DEF ListInv
<1> DEFINE n == Len(queue)
<1>0. PICK h : h = [k \in 0..(n - 1) |-> g[k + 1]]
    OBVIOUS
<1>2. /\ n \in Nat /\ n >= 1 /\ Len(queue') = n - 1
      /\ \A k \in 1..(n - 1) : queue'[k] = queue[k + 1]
      /\ Head(queue) = queue[1]
    BY HeadTailProperties, EmptySeq DEF TypeOK
<1>3. h \in Lists'
    <2>1. \A k \in 0..(n - 1) : h[k] \in Seq(Topics)
        BY <1>1, <1>2, <1>0 DEF Lists
    <2> QED BY <1>2, <1>0, <2>1 DEF Lists
<1>4. \A k \in 0..(n - 1) : h[k] = g[k + 1]
    BY <1>0
<1>5. h[0] = m_topics'
    <2>1. g[1] = After(g[0], queue[1]) /\ g[0] = m_topics
        BY <1>1, <1>2 DEF Chain
    <2> QED BY <1>2, <1>4, <2>1
<1>6. ASSUME NEW k \in 1..(n - 1) PROVE h[k] = After(h[k - 1], queue[k])'
    <2>1. g[k + 1] = After(g[k], queue[k + 1])
        <3>1. k + 1 \in 1..n /\ (k + 1) - 1 = k
            BY <1>2
        <3> QED BY <1>1, <3>1 DEF Chain
    <2>2. h[k] = g[k + 1] /\ h[k - 1] = g[k] /\ queue'[k] = queue[k + 1]
        <3>1. k \in 0..(n - 1) /\ k - 1 \in 0..(n - 1) /\ (k - 1) + 1 = k
            BY <1>2
        <3> QED BY <1>2, <1>4, <3>1
    <2> QED BY <2>1, <2>2 DEF After, Added
<1>7. h[n - 1] = g[n]
    BY <1>2, <1>4
<1>8. Chain(h)'
    BY <1>1, <1>2, <1>5, <1>6, <1>7 DEF Chain, Added
<1> QED BY <1>3, <1>8 DEF ListInv

\* The library's thread comes with a result.
LEMMA ChainIsDelivered ==
    ASSUME TypeOK, ListInv, NEW topics, NEW error, Deliver(topics, error), lambda.at = "out",
           UNCHANGED <<observed, m_topics, queue>>
    PROVE  ListInv'
<1>1. PICK g \in Lists : Chain(g)
    BY DEF ListInv
<1>2. g \in Lists'
    BY <1>1 DEF Lists
<1>3. results' = Added(g[Len(queue)], topics)
    BY <1>1 DEF Chain, Deliver, Added
<1>4. lambda'.at = "post" /\ lambda'.result.topics = topics
    BY DEF Deliver
<1>5. Chain(g)'
    BY <1>1, <1>3, <1>4 DEF Chain, After, Added
<1> QED BY <1>2, <1>5 DEF ListInv

\* ListInv is inductive.
LEMMA ListStep ==
    ASSUME TypeOK, ListInv, [Next]_vars
    PROVE  ListInv'
<1>1. ASSUME UNCHANGED <<observed, m_topics, queue, lambda, results>> PROVE ListInv'
    BY <1>1 DEF ListInv, Lists, Chain, After, Added
<1>2. ASSUME NEW n, NEW error,
             EndFetch(n, error) \/ EndSubscribe(n, error) \/ OnSubscribeTopic(n)
      PROVE  ListInv'
    BY <1>2, ChainIsDelivered DEF EndFetch, EndSubscribe, OnSubscribeTopic, componentVars,
                                  screenVars
<1>3. CASE PostTask
    <2> DEFINE entry == [kind |-> "task", result |-> lambda.result]
    <2>1. lambda'.at # "post"
        BY <1>3 DEF PostTask, TypeOK
    <2>2. ASSUME NEW g \in Lists, Chain(g) PROVE results = After(g[Len(queue)], entry)
        BY <1>3, <2>2 DEF PostTask, Chain, After
    <2> QED BY <1>3, <2>1, <2>2, ChainGrows DEF PostTask, componentVars
<1>4. CASE PostEvent
    <2> DEFINE entry == [kind |-> "event", result |-> NoResult]
    <2>1. lambda'.at # "post"
        BY <1>4 DEF PostEvent, TypeOK
    <2>2. ASSUME NEW g \in Lists, Chain(g) PROVE results = After(g[Len(queue)], entry)
        BY <1>4, <2>2 DEF PostEvent, Chain, After
    <2> QED BY <1>4, <2>1, <2>2, ChainGrows DEF PostEvent, componentVars
<1>5. RunTask \/ HandleEvent => ListInv'
    BY ChainShrinks
       DEF RunTask, HandleEvent, Listed, After, Added, sessionVars, componentVars
<1>6. Request \/ OtherEvent \/ Animate \/ Render \/ UNCHANGED vars =>
          UNCHANGED <<observed, m_topics, queue, lambda, results>>
    BY DEF Request, OtherEvent, Animate, Render, vars, sessionVars, componentVars, screenVars
<1>7. ASSUME NEW k, Key(k) \/ SwitchTab(k)
      PROVE  UNCHANGED <<observed, m_topics, queue, lambda, results>>
    BY <1>7 DEF Key, SwitchTab, sessionVars, componentVars
<1> QED BY <1>1, <1>2, <1>3, <1>4, <1>5, <1>6, <1>7 DEF Next, User, Library, Loop

\* The loop takes the first entry: what followed a task still does.
LEMMA EventsStayInOrder ==
    ASSUME TypeOK, EventInv, queue # <<>>, queue' = Tail(queue), lambda' = lambda
    PROVE  /\ \A k \in 1..Len(queue') :
                  IsEvent(k)' \/ lambda'.at = "event" \/ \E j \in (k + 1)..Len(queue') : IsEvent(j)'
           /\ ~IsEvent(1) => EventComing'
<1> DEFINE n == Len(queue)
<1>1. /\ n \in Nat /\ n >= 1 /\ Len(queue') = n - 1
      /\ \A k \in 1..(n - 1) : queue'[k] = queue[k + 1]
    BY HeadTailProperties, EmptySeq DEF TypeOK
<1>2. ASSUME NEW j \in 2..n, IsEvent(j) PROVE j - 1 \in 1..(n - 1) /\ IsEvent(j - 1)'
    <2>1. j - 1 \in 1..(n - 1) /\ (j - 1) + 1 = j
        BY <1>1
    <2> QED BY <1>1, <1>2, <2>1 DEF IsEvent
<1>3. ASSUME NEW k \in 1..(n - 1), ~IsEvent(k)', lambda.at # "event"
      PROVE  \E j \in (k + 1)..(n - 1) : IsEvent(j)'
    <2>1. k + 1 \in 1..n /\ ~IsEvent(k + 1)
        BY <1>1, <1>3 DEF IsEvent
    <2>2. PICK j \in (k + 2)..n : IsEvent(j)
        BY <1>3, <2>1 DEF EventInv
    <2>3. j \in 2..n /\ j - 1 \in (k + 1)..(n - 1)
        BY <1>1
    <2> QED BY <1>2, <2>2, <2>3
<1>4. ASSUME ~IsEvent(1) PROVE EventComing'
    <2>1. CASE lambda.at = "event"
        BY <2>1 DEF EventComing
    <2>2. CASE lambda.at # "event"
        <3>1. PICK j \in 2..n : IsEvent(j)
            BY <1>1, <1>4, <2>2 DEF EventInv
        <3> QED BY <1>1, <1>2, <3>1 DEF EventComing
    <2> QED BY <2>1, <2>2
<1> QED BY <1>1, <1>3, <1>4

\* EventInv is inductive.
LEMMA EventStep ==
    ASSUME TypeOK, EventInv, [Next]_vars
    PROVE  EventInv'
<1>1. ASSUME UNCHANGED <<queue, lambda>>,
             \/ ~frame_valid'
             \/ UNCHANGED <<frame_valid, tab_selected_, observed, drawn, m_topics, in_progress,
                            m_error_message>>
      PROVE  EventInv'
    BY <1>1 DEF EventInv, IsEvent, EventComing, FrameIsRight, Status
<1>2. ASSUME NEW topics, NEW error, Deliver(topics, error), lambda.at = "out", queue' = queue
      PROVE  EventInv'
    BY <1>2 DEF Deliver, EventInv, IsEvent, EventComing
<1>3. CASE PostTask
    <2>1. lambda'.at = "event"
        BY <1>3 DEF PostTask, TypeOK
    <2> QED BY <2>1 DEF EventInv, EventComing
<1>4. CASE PostEvent
    <2>0. PICK n \in Nat : n = Len(queue)
        BY DEF TypeOK
    <2>1. n \in Nat /\ Len(queue') = n + 1 /\ IsEvent(n + 1)'
        BY <1>4, <2>0 DEF PostEvent, TypeOK, IsEvent
    <2>2. \A k \in 1..(n + 1) : k = n + 1 \/ n + 1 \in (k + 1)..(n + 1)
        BY <2>1
    <2>3. EventComing'
        BY <2>1 DEF EventComing
    <2> QED BY <2>1, <2>2, <2>3 DEF EventInv
<1>5. CASE RunTask
    <2>1. ~IsEvent(1)
        BY <1>5, HeadTailProperties DEF RunTask, IsEvent, TypeOK
    <2> QED BY <1>5, <2>1, EventsStayInOrder DEF RunTask, EventInv, sessionVars
<1>6. CASE HandleEvent
    BY <1>6, EventsStayInOrder DEF HandleEvent, EventInv, sessionVars
<1>7. CASE Render
    <2>1. UNCHANGED <<queue, lambda, tab_selected_, observed, m_topics, in_progress,
                      m_error_message>>
        BY <1>7 DEF Render, sessionVars
    <2>2. tab_selected_ = observed => FrameIsRight'
        BY <1>7, <2>1 DEF Render, FrameIsRight, Status
    <2> QED BY <2>1, <2>2 DEF EventInv, IsEvent
<1>8. ASSUME NEW n, NEW error,
             EndFetch(n, error) \/ EndSubscribe(n, error) \/ OnSubscribeTopic(n)
      PROVE  EventInv'
    BY <1>2, <1>8 DEF EndFetch, EndSubscribe, OnSubscribeTopic, screenVars
<1>9. Request \/ OtherEvent \/ Animate => UNCHANGED <<queue, lambda>> /\ ~frame_valid'
    BY DEF Request, OtherEvent, Animate, sessionVars
<1>10. ASSUME NEW k, Key(k) \/ SwitchTab(k) PROVE UNCHANGED <<queue, lambda>> /\ ~frame_valid'
    BY <1>10 DEF Key, SwitchTab, sessionVars
<1>11. UNCHANGED vars =>
           UNCHANGED <<queue, lambda, frame_valid, tab_selected_, observed, drawn, m_topics,
                       in_progress, m_error_message>>
    BY DEF vars, sessionVars, componentVars, screenVars
<1> QED BY <1>1, <1>3, <1>4, <1>5, <1>6, <1>7, <1>8, <1>9, <1>10, <1>11
        DEF Next, User, Library, Loop

\* ResultIsDrawn, for any number of requests and results, in both tabs.  The
\* tasks in the queue lead from the list to what all results add up to, and
\* until the frame shows it an event is still to come.
THEOREM ResultGetsDrawn == Spec => []ResultIsDrawn
<1>1. Init => ListInv /\ EventInv
    <2> SUFFICES ASSUME Init PROVE ListInv /\ EventInv
        OBVIOUS
    <2>1. queue = <<>> /\ Len(<<>>) = 0 /\ m_topics = <<>> /\ results = <<>>
          /\ lambda.at = "out" /\ ~frame_valid
        BY DEF Init
    <2>2. EventInv
        BY <2>1 DEF EventInv
    <2>3. [k \in 0..0 |-> <<>>] \in Lists /\ Chain([k \in 0..0 |-> <<>>])
        BY <2>1 DEF Lists, Chain
    <2> QED BY <2>2, <2>3 DEF ListInv
<1>2. TypeOK /\ ListInv /\ EventInv /\ [Next]_vars => ListInv' /\ EventInv'
    BY ListStep, EventStep
<1>3. ListInv /\ EventInv => ResultIsDrawn
    <2> SUFFICES ASSUME ListInv, EventInv, Quiet, tab_selected_ = observed
                 PROVE  m_topics = results /\ FrameIsRight
        BY DEF ResultIsDrawn, FrameIsRight
    <2>1. Len(queue) = 0 /\ lambda.at = "out" /\ frame_valid
        BY DEF Quiet
    <2>2. m_topics = results
        BY <2>1 DEF ListInv, Chain
    <2>3. ~EventComing
        BY <2>1 DEF EventComing
    <2> QED BY <2>1, <2>2, <2>3 DEF EventInv
<1> QED BY <1>1, <1>2, <1>3, TypeCorrect, PTL DEF Spec

-----------------------------------------------------------------------------
(* The content follows the highlight                                       *)

\* The text of the selected row is that of the row highlighted in the last frame,
\* if there is one, until a request clears it.
ContentInv == drawn.row # NoText => m_seltext \in {drawn.row, NoText}

ContentStep == drawn.row # NoText => drawn'.content \in {drawn.row, NoText}

\* ContentFollows, for lists of any length: no key, task or change of tabs
\* touches the text, so the next frame starts from what this one highlighted.
THEOREM ContentAlwaysFollows == Spec => ContentFollows
<1>1. Init => ContentInv
    BY DEF Init, ContentInv
<1>2. ContentInv /\ [Next]_vars => ContentInv' /\ [ContentStep]_drawn
    <2> SUFFICES ASSUME ContentInv, [Next]_vars PROVE ContentInv' /\ [ContentStep]_drawn
        OBVIOUS
    <2>1. ASSUME m_seltext' \in {m_seltext, NoText}, drawn' = drawn
          PROVE  ContentInv' /\ [ContentStep]_drawn
        BY <2>1 DEF ContentInv
    <2>2. CASE Render /\ tab_selected_ = observed
        <3>1. drawn'.content = m_seltext /\ m_seltext' = RenderedText
            BY <2>2 DEF Render
        <3>2. CASE Highlighted
            <4>1. m_topics # <<>>
                BY <3>2 DEF Highlighted
            <4>2. m_seltext' = drawn'.row
                BY <2>2, <3>2, <4>1 DEF Render, RenderedText
            <4> QED BY <3>1, <4>2 DEF ContentInv, ContentStep
        <3>3. CASE ~Highlighted
            BY <2>2, <3>1, <3>3 DEF Render, ContentInv, ContentStep
        <3> QED BY <3>2, <3>3
    <2>3. Render /\ tab_selected_ # observed => m_seltext' = m_seltext /\ drawn' = drawn
        BY DEF Render, displayerVars
    <2>4. Request => m_seltext' = NoText /\ drawn' = drawn
        BY DEF Request
    <2>5. OtherEvent \/ PostTask \/ PostEvent \/ RunTask \/ HandleEvent \/ Animate \/ UNCHANGED vars =>
              m_seltext' = m_seltext /\ drawn' = drawn
        BY DEF OtherEvent, PostTask, PostEvent, RunTask, HandleEvent, Animate, vars,
               displayerVars, screenVars
    <2>6. ASSUME NEW k, Key(k) \/ SwitchTab(k) PROVE m_seltext' = m_seltext /\ drawn' = drawn
        BY <2>6 DEF Key, SwitchTab, displayerVars
    <2>7. ASSUME NEW n, NEW error,
                 EndFetch(n, error) \/ EndSubscribe(n, error) \/ OnSubscribeTopic(n)
          PROVE  m_seltext' = m_seltext /\ drawn' = drawn
        BY <2>7 DEF EndFetch, EndSubscribe, OnSubscribeTopic, displayerVars, screenVars
    <2> QED BY <2>1, <2>2, <2>3, <2>4, <2>5, <2>6, <2>7 DEF Next, User, Library, Loop
<1> QED BY <1>1, <1>2, PTL DEF Spec, ContentFollows, ContentStep

=============================================================================
