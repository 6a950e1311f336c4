------------------------ MODULE SessionResults_proofs ------------------------
(***************************************************************************)
(* What reaches the screen, for any number of requests.                    *)
(*                                                                         *)
(* The selector of a request is in one place at a time: fetch or subscribe *)
(* stores it in m_selector, a callback moves it out of there, a task       *)
(* carries it to the screen, and a checkbox is labelled with it.  Requests *)
(* may be refused, discarded or cut off.                                   *)
(*                                                                         *)
(* The topics of a fetch are shown all of them, and never after those of a *)
(* later one, as long as the connection holds.                             *)
(***************************************************************************)
EXTENDS SessionSafety_proofs

\* The holders of selectors: the session, the callbacks of the two threads, the
\* tasks in the screen's queue and the checkboxes, the last two by their place.
TheSession == <<"session", 0>>
Thread(t) == <<t, 0>>

Holders ==
    {TheSession, Thread("ws"), Thread("ses")}
        \cup {"task"} \X (1..Len(tasks)) \cup {"label"} \X (1..Len(labels))

Held(p) ==
    CASE p[1] = "session"       -> m_selector
      [] p[1] \in {"ws", "ses"} -> cb[p[1]].sel
      [] p[1] = "task"          -> tasks[p[2]].sel
      [] p[1] = "label"         -> labels[p[2]]

Holds(p) == p \in Holders /\ Held(p) # NoSelector

\* The selector is that of a request that has been made.
Issued(sel) ==
    \/ sel[1] = "fetch" /\ sel[2] <= fetches
    \/ sel[1] = "subscribe" /\ sel[2] <= subscribes

\* No two hold the same selector, and a checkbox has one.
LabelsInv ==
    /\ \A p \in Holders : Holds(p) => Issued(Held(p))
    /\ \A p, q \in Holders : Holds(p) /\ Holds(q) /\ Held(p) = Held(q) => p = q
    /\ \A i \in 1..Len(labels) : labels[i] # NoSelector

-----------------------------------------------------------------------------
(* Selectors move                                                          *)

AllHolders == {"session", "ws", "ses", "task", "label"} \X Nat

\* The holders are among a set that does not change.
LEMMA HoldersType == TypeOK => Holders \subseteq AllHolders
BY DEF TypeOK, Holders, AllHolders, TheSession, Thread

\* What is held is a selector.
LEMMA HeldType ==
    ASSUME TypeOK, NEW p \in Holders
    PROVE  Held(p) \in Selectors
<1>1. CASE p = TheSession
    BY <1>1 DEF TypeOK, Held, TheSession
<1>2. ASSUME NEW t \in {"ws", "ses"}, p = Thread(t) PROVE Held(p) \in Selectors
    BY <1>2 DEF TypeOK, Held, Thread, Callbacks
<1>3. CASE p \in {"task"} \X (1..Len(tasks))
    <2>1. tasks[p[2]] \in Callbacks
        BY <1>3 DEF TypeOK
    <2> QED BY <1>3, <2>1 DEF Held, Callbacks
<1>4. CASE p \in {"label"} \X (1..Len(labels))
    BY <1>4 DEF TypeOK, Held
<1> QED BY <1>1, <1>2, <1>3, <1>4 DEF Holders

\* Every selector that is held has been held before, by from[p] if p holds it
\* now, and was not copied.
LEMMA SelectorsMove ==
    ASSUME LabelsInv, NEW from \in [AllHolders -> AllHolders],
           Holders' \subseteq AllHolders,
           \A p \in Holders' : Holds(p)' => Holds(from[p]) /\ Held(p)' = Held(from[p]),
           \A p, q \in Holders' : Holds(p)' /\ Holds(q)' /\ from[p] = from[q] => p = q,
           \A i \in 1..Len(labels') : labels'[i] # NoSelector,
           UNCHANGED countVars
    PROVE  LabelsInv'
<1>1. ASSUME NEW p \in Holders', Holds(p)' PROVE Issued(Held(p))'
    <2>1. Holds(from[p]) /\ Held(p)' = Held(from[p])
        BY <1>1
    <2>2. Issued(Held(from[p]))
        BY <2>1 DEF LabelsInv, Holds
    <2> QED BY <2>1, <2>2 DEF Issued, countVars
<1>2. ASSUME NEW p \in Holders', NEW q \in Holders', Holds(p)', Holds(q)', Held(p)' = Held(q)'
      PROVE  p = q
    <2>1. Holds(from[p]) /\ Holds(from[q]) /\ Held(from[p]) = Held(from[q])
        BY <1>2
    <2>2. from[p] = from[q]
        BY <2>1 DEF LabelsInv, Holds
    <2> QED BY <1>2, <2>2
<1> QED BY <1>1, <1>2 DEF LabelsInv

\* Nothing is moved; at most a callback drops what it holds.
LEMMA SelectorsStay ==
    ASSUME TypeOK, LabelsInv, UNCHANGED <<m_selector, tasks, labels, countVars>>,
           \A t \in {"ws", "ses"} : cb'[t].sel \in {cb[t].sel, NoSelector}
    PROVE  LabelsInv'
<1>1. PICK from \in [AllHolders -> AllHolders] : \A p \in AllHolders : from[p] = p
    <2> WITNESS [p \in AllHolders |-> p] \in [AllHolders -> AllHolders]
    <2> QED OBVIOUS
<1>2. Holders' = Holders /\ Holders \subseteq AllHolders
    BY HoldersType DEF Holders
<1>3. ASSUME NEW p \in Holders, Holds(p)' PROVE Holds(p) /\ Held(p)' = Held(p)
    BY <1>3 DEF Holds, Held, Holders, TheSession, Thread
<1>4. \A p \in Holders' : Holds(p)' => Holds(from[p]) /\ Held(p)' = Held(from[p])
    BY <1>1, <1>2, <1>3
<1>5. \A p, q \in Holders' : Holds(p)' /\ Holds(q)' /\ from[p] = from[q] => p = q
    BY <1>1, <1>2
<1>6. \A i \in 1..Len(labels') : labels'[i] # NoSelector
    BY DEF LabelsInv
<1> QED BY <1>2, <1>4, <1>5, <1>6, SelectorsMove

\* A request stores a new one in m_selector.
LEMMA SelectorStored ==
    ASSUME TypeOK, LabelsInv, UserFetch \/ UserSubscribe
    PROVE  LabelsInv'
<1>1. UNCHANGED <<cb, tasks, labels>> /\ Holders' = Holders
    BY DEF UserFetch, UserSubscribe, screenVars, Holders
<1>2. fetches \in Nat /\ subscribes \in Nat
    BY Counters
<1>3. /\ fetches' >= fetches /\ subscribes' >= subscribes
      /\ Issued(m_selector)' /\ ~Issued(m_selector')
    BY <1>2 DEF UserFetch, UserSubscribe, Issued
<1>4. ASSUME NEW p \in Holders, p # TheSession PROVE Held(p)' = Held(p) /\ Holds(p)' = Holds(p)
    BY <1>1, <1>4 DEF Held, Holds, Holders, TheSession, Thread
<1>5. Held(TheSession)' = m_selector'
    BY DEF Held, TheSession
<1>6. ASSUME NEW p \in Holders, p # TheSession, Holds(p)'
      PROVE  Issued(Held(p))' /\ Issued(Held(p)')
    <2>1. Issued(Held(p)) /\ Held(p)' = Held(p)
        BY <1>4, <1>6 DEF LabelsInv
    <2>2. \/ fetches' = fetches + 1 /\ subscribes' = subscribes
          \/ fetches' = fetches /\ subscribes' = subscribes + 1
        BY DEF UserFetch, UserSubscribe
    <2>3. \/ Held(p)[1] = "fetch" /\ Held(p)[2] <= fetches
          \/ Held(p)[1] = "subscribe" /\ Held(p)[2] <= subscribes
        BY <2>1 DEF Issued
    <2>4. Held(p)[1] = "fetch" \/ Held(p)[1] = "subscribe"
        BY <2>3
    <2>5. Held(p)[2] \in Nat
        BY HeldType DEF Selectors
    <2>6. Issued(Held(p)')
        BY <2>1, <2>3 DEF Issued
    <2>7. Issued(Held(p))'
        BY <1>2, <2>1, <2>2, <2>3, <2>5 DEF Issued
    <2> QED BY <2>6, <2>7
<1>7. \A p \in Holders : Holds(p)' => Issued(Held(p))'
    BY <1>3, <1>5, <1>6
<1>8. ASSUME NEW p \in Holders, NEW q \in Holders, Holds(p)', Holds(q)', Held(p)' = Held(q)'
      PROVE  p = q
    <2>1. CASE p # TheSession /\ q # TheSession
        BY <1>4, <1>8, <2>1 DEF LabelsInv
    <2>2. CASE p = TheSession /\ q # TheSession
        BY <1>3, <1>5, <1>6, <1>8, <2>2
    <2>3. CASE p # TheSession /\ q = TheSession
        BY <1>3, <1>5, <1>6, <1>8, <2>3
    <2> QED BY <2>1, <2>2, <2>3
<1> QED BY <1>1, <1>7, <1>8 DEF LabelsInv

\* A callback moves it out of there, and whatever it has held is gone.
LEMMA SelectorHanded ==
    ASSUME TypeOK, LabelsInv, NEW t \in {"ws", "ses"},
           m_selector' = NoSelector, cb'[t].sel = m_selector,
           \A u \in {"ws", "ses"} : u # t => cb'[u] = cb[u],
           UNCHANGED <<tasks, labels, countVars>>
    PROVE  LabelsInv'
<1>1. PICK from \in [AllHolders -> AllHolders] :
          \A p \in AllHolders : from[p] = IF p = Thread(t) THEN TheSession ELSE p
    <2>1. TheSession \in AllHolders
        BY DEF TheSession, AllHolders
    <2> DEFINE f == [p \in AllHolders |-> IF p = Thread(t) THEN TheSession ELSE p]
    <2>2. f \in [AllHolders -> AllHolders]
        BY <2>1
    <2> WITNESS f \in [AllHolders -> AllHolders]
    <2> QED OBVIOUS
<1>2. Holders' = Holders /\ Holders \subseteq AllHolders /\ TheSession \in Holders
    BY HoldersType DEF Holders
<1>3. Held(Thread(t))' = Held(TheSession) /\ Held(TheSession)' = NoSelector
    BY DEF Held, Thread, TheSession
<1>4. ASSUME NEW p \in Holders, p # Thread(t), p # TheSession PROVE Held(p)' = Held(p)
    BY <1>4 DEF Held, Holders, TheSession, Thread
<1>5. ASSUME NEW p \in Holders', Holds(p)' PROVE Holds(from[p]) /\ Held(p)' = Held(from[p])
    BY <1>1, <1>2, <1>3, <1>4, <1>5 DEF Holds
<1>6. ASSUME NEW p \in Holders', NEW q \in Holders', Holds(p)', Holds(q)', from[p] = from[q]
      PROVE  p = q
    BY <1>1, <1>2, <1>3, <1>6 DEF Holds
<1>7. \A i \in 1..Len(labels') : labels'[i] # NoSelector
    BY DEF LabelsInv
<1> QED BY <1>2, <1>5, <1>6, <1>7, SelectorsMove

\* The callback posts it.
LEMMA SelectorPosted ==
    ASSUME TypeOK, TypeOK', LabelsInv, NEW t \in {"ws", "ses"}, Post(t)
    PROVE  LabelsInv'
<1>0. PICK n \in Nat : n = Len(tasks)
    BY DEF TypeOK
<1>1. PICK from \in [AllHolders -> AllHolders] :
          \A p \in AllHolders : from[p] = IF p = <<"task", n + 1>> THEN Thread(t) ELSE p
    <2>1. Thread(t) \in AllHolders
        BY DEF Thread, AllHolders
    <2> DEFINE f == [p \in AllHolders |-> IF p = <<"task", n + 1>> THEN Thread(t) ELSE p]
    <2>2. f \in [AllHolders -> AllHolders]
        BY <2>1
    <2> WITNESS f \in [AllHolders -> AllHolders]
    <2> QED OBVIOUS
<1>2. /\ Len(tasks') = n + 1 /\ tasks'[n + 1] = cb[t]
      /\ \A i \in 1..n : tasks'[i] = tasks[i]
      /\ UNCHANGED <<m_selector, labels, countVars>>
    BY <1>0, AppendProperties DEF Post, TypeOK, sessionVars
<1>3. /\ cb'[t].sel = NoSelector
      /\ \A u \in {"ws", "ses"} : u # t => cb'[u] = cb[u]
    BY DEF Post, Return, NoCallback, TypeOK
<1>4. Holders' = Holders \cup {<<"task", n + 1>>} /\ Holders' \subseteq AllHolders
      /\ Thread(t) \in Holders
    <2>1. (Holders \subseteq AllHolders)'
        BY HoldersType, PTL
    <2>2. {"task"} \X (1..(n + 1)) = {"task"} \X (1..n) \cup {<<"task", n + 1>>}
        OBVIOUS
    <2> QED BY <1>0, <1>2, <2>1, <2>2 DEF Holders, AllHolders, TheSession, Thread
<1>5. Held(<<"task", n + 1>>)' = Held(Thread(t)) /\ Held(Thread(t))' = NoSelector
    BY <1>2, <1>3 DEF Held, Thread
<1>6. ASSUME NEW p \in Holders, p # Thread(t) PROVE Held(p)' = Held(p)
    BY <1>0, <1>2, <1>3, <1>6 DEF Held, Holders, TheSession, Thread
<1>7. ASSUME NEW p \in Holders', Holds(p)' PROVE Holds(from[p]) /\ Held(p)' = Held(from[p])
    BY <1>1, <1>4, <1>5, <1>6, <1>7 DEF Holds
<1>8. ASSUME NEW p \in Holders', NEW q \in Holders', Holds(p)', Holds(q)', from[p] = from[q]
      PROVE  p = q
    BY <1>1, <1>4, <1>5, <1>8 DEF Holds
<1>9. \A i \in 1..Len(labels') : labels'[i] # NoSelector
    BY <1>2 DEF LabelsInv
<1> QED BY <1>2, <1>4, <1>7, <1>8, <1>9, SelectorsMove

\* The task labels a checkbox with it, unless it is the task of a fetch.
LEMMA SelectorShown ==
    ASSUME TypeOK, TypeOK', LabelsInv, RunTask
    PROVE  LabelsInv'
<1>0. PICK n \in Nat : n = Len(tasks)
    BY DEF TypeOK
<1>00. PICK m \in Nat : m = Len(labels)
    BY DEF TypeOK
<1>1. PICK from \in [AllHolders -> AllHolders] :
          \A p \in AllHolders :
              from[p] = IF p[1] = "task" THEN <<"task", p[2] + 1>>
                        ELSE IF p = <<"label", m + 1>> THEN <<"task", 1>> ELSE p
    <2> DEFINE f == [p \in AllHolders |-> IF p[1] = "task" THEN <<"task", p[2] + 1>>
                        ELSE IF p = <<"label", m + 1>> THEN <<"task", 1>> ELSE p]
    <2>1. ASSUME NEW p \in AllHolders PROVE f[p] \in AllHolders
        <3>1. p[1] \in {"session", "ws", "ses", "task", "label"} /\ p[2] \in Nat
            BY DEF AllHolders
        <3>2. <<"task", p[2] + 1>> \in AllHolders /\ <<"task", 1>> \in AllHolders
            BY <3>1 DEF AllHolders
        <3> QED BY <3>2
    <2>2. f \in [AllHolders -> AllHolders]
        BY <2>1
    <2> WITNESS f \in [AllHolders -> AllHolders]
    <2> QED OBVIOUS
<1>2. /\ n >= 1 /\ Len(tasks') = n - 1
      /\ \A i \in 1..(n - 1) : tasks'[i] = tasks[i + 1]
      /\ Head(tasks) = tasks[1]
      /\ UNCHANGED <<m_selector, cb, countVars>>
    BY <1>0, HeadTailProperties, EmptySeq DEF RunTask, TypeOK, sessionVars
<1>3. \/ labels' = labels
      \/ labels' = Append(labels, tasks[1].sel) /\ tasks[1].sel # NoSelector
    BY <1>2 DEF RunTask, ShowFetch, ShowUpdates
<1>30. labels \in Seq(Selectors) /\ tasks[1].sel \in Selectors
    <2>1. tasks[1] \in Callbacks
        BY <1>0, <1>2 DEF TypeOK
    <2> QED BY <2>1 DEF TypeOK, Callbacks
<1>4. \/ Len(labels') = m
      \/ Len(labels') = m + 1 /\ labels'[m + 1] = tasks[1].sel /\ tasks[1].sel # NoSelector
    BY <1>00, <1>3, <1>30, AppendProperties
<1>5. \A i \in 1..m : labels'[i] = labels[i]
    BY <1>00, <1>3, <1>30, AppendProperties
<1>6. Holders' \subseteq AllHolders
    <2>1. (Holders \subseteq AllHolders)'
        BY HoldersType, PTL
    <2> QED BY <2>1 DEF AllHolders
<1>7. ASSUME NEW p \in Holders'
      PROVE  \/ p \in {TheSession, Thread("ws"), Thread("ses")} /\ Held(p)' = Held(p)
             \/ /\ p[1] = "task" /\ p = <<"task", p[2]>> /\ p[2] \in 1..(n - 1)
                /\ Held(p)' = Held(<<"task", p[2] + 1>>)
             \/ p[1] = "label" /\ p = <<"label", p[2]>> /\ p[2] \in 1..m /\ Held(p)' = Held(p)
             \/ p = <<"label", m + 1>> /\ Held(p)' = Held(<<"task", 1>>)
    <2>1. CASE p \in {TheSession, Thread("ws"), Thread("ses")}
        BY <1>2, <2>1 DEF Held, TheSession, Thread
    <2>2. CASE p \in {"task"} \X (1..(n - 1))
        BY <1>2, <2>2 DEF Held
    <2>3. CASE p \in {"label"} \X (1..m)
        BY <1>5, <2>3 DEF Held
    <2>4. CASE p = <<"label", m + 1>> /\ Len(labels') = m + 1
        BY <1>4, <2>4 DEF Held
    <2> QED BY <1>2, <1>4, <2>1, <2>2, <2>3, <2>4 DEF Holders
<1>8. /\ {TheSession, Thread("ws"), Thread("ses")} \subseteq Holders
      /\ \A i \in 1..n : <<"task", i>> \in Holders
      /\ \A i \in 1..m : <<"label", i>> \in Holders
    BY <1>0, <1>00 DEF Holders
<1>9. ASSUME NEW p \in Holders', Holds(p)' PROVE Holds(from[p]) /\ Held(p)' = Held(from[p])
    <2>1. p \in AllHolders /\ Held(p)' # NoSelector
        BY <1>6, <1>9 DEF Holds
    <2>2. CASE p \in {TheSession, Thread("ws"), Thread("ses")} /\ Held(p)' = Held(p)
        <3>1. from[p] = p
            BY <1>1, <2>1, <2>2 DEF TheSession, Thread
        <3> QED BY <1>8, <2>1, <2>2, <3>1 DEF Holds
    <2>3. CASE /\ p[1] = "task" /\ p = <<"task", p[2]>> /\ p[2] \in 1..(n - 1)
               /\ Held(p)' = Held(<<"task", p[2] + 1>>)
        <3>1. from[p] = <<"task", p[2] + 1>> /\ p[2] + 1 \in 1..n
            BY <1>1, <2>1, <2>3
        <3> QED BY <1>8, <2>1, <2>3, <3>1 DEF Holds
    <2>4. CASE p[1] = "label" /\ p = <<"label", p[2]>> /\ p[2] \in 1..m /\ Held(p)' = Held(p)
        <3>1. from[p] = p
            BY <1>1, <2>1, <2>4
        <3> QED BY <1>8, <2>1, <2>4, <3>1 DEF Holds
    <2>5. CASE p = <<"label", m + 1>> /\ Held(p)' = Held(<<"task", 1>>)
        <3>1. from[p] = <<"task", 1>>
            BY <1>1, <2>1, <2>5
        <3>2. 1 \in 1..n
            BY <1>2
        <3> QED BY <1>8, <2>1, <2>5, <3>1, <3>2 DEF Holds
    <2> QED BY <1>7, <1>9, <2>2, <2>3, <2>4, <2>5
<1>10. ASSUME NEW p \in Holders', NEW q \in Holders', Holds(p)', Holds(q)', from[p] = from[q]
       PROVE  p = q
    BY <1>1, <1>6, <1>7, <1>10 DEF TheSession, Thread
<1>11. \A i \in 1..Len(labels') : labels'[i] # NoSelector
    BY <1>00, <1>4, <1>5 DEF LabelsInv
<1> QED BY <1>2, <1>6, <1>9, <1>10, <1>11, SelectorsMove

-----------------------------------------------------------------------------
(* The steps                                                               *)

\* The selector in a callback that has returned, gone on or begun.
LEMMA ReturnSel ==
    ASSUME TypeOK, NEW t \in {"ws", "ses"}, Return(t)
    PROVE  cb'[t].sel = NoSelector /\ \A u \in {"ws", "ses"} : u # t => cb'[u] = cb[u]
BY DEF TypeOK, Return, NoCallback

LEMMA GoOnSel ==
    ASSUME TypeOK, NEW t \in {"ws", "ses"}, NEW at, NEW sel, GoOn(t, at, sel)
    PROVE  cb'[t].sel = sel /\ \A u \in {"ws", "ses"} : u # t => cb'[u] = cb[u]
BY DEF TypeOK, GoOn, Callbacks

LEMMA EnterSel ==
    ASSUME TypeOK, NEW op, NEW id, NEW topics, NEW batch, Enter(op, id, topics, batch)
    PROVE  cb'["ws"].sel = NoSelector /\ cb'["ses"] = cb["ses"]
BY DEF TypeOK, Enter, NoCallback

\* LabelsInv is inductive.
LEMMA LabelsStep ==
    ASSUME TypeOK, TypeOK', LabelsInv, [Next]_vars
    PROVE  LabelsInv'
<1> DEFINE Kept == UNCHANGED <<m_selector, tasks, labels, countVars>>
<1>1. CASE UserFetch \/ UserSubscribe
    BY <1>1, SelectorStored
<1>2. CASE RunTask
    BY <1>2, SelectorShown
<1>3. CASE Wait \/ LibraryCall \/ Drain \/ UNCHANGED vars \/ \E f \in 1..MaxFetches : RouteStatus(f)
    <2>1. Kept /\ cb' = cb
        BY <1>3 DEF Wait, LibraryCall, Drain, RouteStatus, vars, sessionVars,
            outside, screenVars, FetchWithoutTransport, AddCommand, AddReply,
            AddSubscribe, AddConversation, SendFetch, SendSubscribe, Send, SendFails
    <2> QED BY <2>1, SelectorsStay
<1>4. ASSUME NEW kind, NEW id, NEW request, NEW op, RouteResponse(kind, id, request, op)
      PROVE  LabelsInv'
    BY <1>4, EnterSel, SelectorsStay DEF RouteResponse, sessionVars, screenVars
<1>5. CASE Answer
    BY <1>4, <1>5
       DEF Answer, RouteFetchResponse, RouteFetchError, RouteSubscribed, RouteSubscribeError
<1>6. CASE RouteUpdate \/ \E f \in 1..MaxFetches : RouteTopic(f)
    BY <1>6, EnterSel, SelectorsStay DEF RouteUpdate, RouteTopic, sessionVars, screenVars
<1>7. CASE OnFetchTopic \/ OnSubscribeTopic \/ CheckSubscription \/ OnSubscribeError
    <2>1. Kept
        BY <1>7 DEF OnFetchTopic, OnSubscribeTopic, CheckSubscription, OnSubscribeError,
            sessionVars, outside, screenVars
    <2>2. cb'["ws"].sel = NoSelector /\ cb'["ses"] = cb["ses"]
        BY <1>7, ReturnSel, GoOnSel
           DEF OnFetchTopic, OnSubscribeTopic, CheckSubscription, OnSubscribeError
    <2> QED BY <2>1, <2>2, SelectorsStay
<1>8. CASE OnFetchError
    <2>1. Kept
        BY <1>8 DEF OnFetchError, EndFetch, outside, screenVars
    <2>2. cb'["ws"].sel = NoSelector /\ cb'["ses"] = cb["ses"]
        BY <1>8, GoOnSel DEF OnFetchError, EndFetch
    <2> QED BY <2>1, <2>2, SelectorsStay
<1>9. ASSUME NEW t \in {"ws", "ses"}, NEW op, EndFetch(t, op, NoSelector, m_selector)
      PROVE  LabelsInv'
    BY <1>9, GoOnSel, SelectorHanded DEF EndFetch, outside, screenVars
<1>10. CASE OnSubscribeCompleted
    BY <1>10, GoOnSel, SelectorHanded DEF OnSubscribeCompleted, outside, screenVars
<1>11. ASSUME NEW t \in {"ws", "ses"},
              StopAnimator(t) \/ TakeFetchTopics(t) \/ TakeSubscribeTopics(t)
       PROVE  LabelsInv'
    <2>1. Kept
        BY <1>11 DEF StopAnimator, TakeFetchTopics, TakeSubscribeTopics, sessionVars, outside,
                     screenVars
    <2>2. cb'[t].sel = cb[t].sel /\ \A u \in {"ws", "ses"} : u # t => cb'[u] = cb[u]
        <3>1. CASE StopAnimator(t)
            BY <3>1, GoOnSel DEF StopAnimator
        <3>2. CASE TakeFetchTopics(t)
            BY <3>2 DEF TakeFetchTopics, TypeOK, Callbacks
        <3>3. CASE TakeSubscribeTopics(t)
            BY <3>3 DEF TakeSubscribeTopics, TypeOK, Callbacks
        <3> QED BY <1>11, <3>1, <3>2, <3>3
    <2> QED BY <2>1, <2>2, SelectorsStay
<1>12. ASSUME NEW t \in {"ws", "ses"}, Post(t) PROVE LabelsInv'
    BY <1>12, SelectorPosted
<1>13. ASSUME NEW c \in conv, Discard(c) PROVE LabelsInv'
    <2>1. cb'["ws"] = cb["ws"] /\ cb'["ses"].sel \in {cb["ses"].sel, NoSelector}
        BY <1>13 DEF Discard, TypeOK, NoCallback
    <2> QED BY <1>13, <2>1, SelectorsStay DEF Discard, sessionVars, screenVars
<1>14. CASE LinkDown \/ Reconnect \/ StartDiscarding \/ DiscardingDone
    <2>1. cb'["ws"] = cb["ws"] /\ cb'["ses"].sel = cb["ses"].sel
        <3>1. CASE LinkDown \/ ReconnectSame
            BY <3>1 DEF LinkDown, ReconnectSame
        <3>2. \A at : LET next == [cb EXCEPT !["ses"].at = at]
                      IN next["ws"] = cb["ws"] /\ next["ses"].sel = cb["ses"].sel
            BY DEF TypeOK, Callbacks
        <3>3. CASE NewSessionOrNone \/ StartDiscarding \/ DiscardingDone
            BY <3>2, <3>3 DEF NewSessionOrNone, StartDiscarding, DiscardingDone
        <3> QED BY <1>14, <3>1, <3>3 DEF Reconnect
    <2>2. Kept
        BY <1>14 DEF LinkDown, Reconnect, ReconnectSame, NewSessionOrNone, StartDiscarding,
            DiscardingDone, sessionVars, outside, screenVars
    <2> QED BY <2>1, <2>2, SelectorsStay
<1> QED BY <1>1, <1>2, <1>3, <1>5, <1>6, <1>7, <1>8, <1>9, <1>10, <1>11, <1>12, <1>13, <1>14
        DEF Next, Incoming, WsStep, SesStep, CallbackStep, OnFetchCompleted, OnFetchDiscard

\* LabelsAreDistinct, for all bounds, with lost connections and full queues: no
\* two checkboxes of the window "Subscriptions" are for the same request, since
\* what moves a selector out of m_selector, or out of a task, leaves none there.
THEOREM LabelsStayDistinct == Spec => []LabelsAreDistinct
<1>1. Init => LabelsInv
    <2> SUFFICES ASSUME Init PROVE LabelsInv
        OBVIOUS
    <2>1. Len(tasks) = 0 /\ Len(labels) = 0
        BY DEF Init
    <2>2. \A p \in Holders : Held(p) = NoSelector
        BY <2>1 DEF Init, Holders, Held, TheSession, Thread, NoCallback
    <2> QED BY <2>1, <2>2 DEF LabelsInv, Holds
<1>2. TypeOK /\ TypeOK' /\ LabelsInv /\ [Next]_vars => LabelsInv'
    BY LabelsStep
<1>3. TypeOK /\ LabelsInv => LabelsAreDistinct
    <2> SUFFICES ASSUME TypeOK, LabelsInv,
                        NEW i \in 1..Len(labels), NEW j \in 1..Len(labels), labels[i] = labels[j]
                 PROVE  i = j
        BY DEF LabelsAreDistinct
    <2>1. <<"label", i>> \in Holders /\ <<"label", j>> \in Holders
        BY DEF Holders
    <2>2. Held(<<"label", i>>) = labels[i] /\ Held(<<"label", j>>) = labels[j]
        BY DEF Held
    <2>3. labels[i] # NoSelector
        BY DEF LabelsInv
    <2>4. <<"label", i>> = <<"label", j>>
        BY <2>1, <2>2, <2>3 DEF LabelsInv, Holds
    <2> QED BY <2>4
<1> QED BY <1>1, <1>2, <1>3, TypeCorrect, PTL DEF Spec

-----------------------------------------------------------------------------
(* The order of results                                                    *)

\* A fetch that is not in progress any more.
Past(r) == r.id <= fetches /\ (m_fetch_in_progress => r.id < fetches)

\* The results of fetches, from the one shown over the tasks in the screen's
\* queue to the one in the transport thread's hands, are of ever newer fetches,
\* which have ended.
OrderInv ==
    /\ Past(shown)
    /\ \A i \in 1..Len(tasks) :
           IsFetch(tasks[i]) => shown.id < tasks[i].id /\ Past(tasks[i])
    /\ \A i, j \in 1..Len(tasks) :
           IsFetch(tasks[i]) /\ IsFetch(tasks[j]) /\ i < j => tasks[i].id < tasks[j].id
    /\ IsFetch(cb["ws"]) =>
           /\ IF cb["ws"].at = "entered" THEN cb["ws"].id = fetches ELSE Past(cb["ws"])
           /\ shown.id < cb["ws"].id
           /\ \A i \in 1..Len(tasks) : IsFetch(tasks[i]) => tasks[i].id < cb["ws"].id

\* What every step does.
OrderKept == OrderInv' /\ (shown' = shown \/ shown'.id > shown.id)

\* What the transport thread's callback is after it has returned, gone on or begun.
LEMMA ReturnIs ==
    ASSUME TypeOK, NEW t \in {"ws", "ses"}, Return(t), t = "ws"
    PROVE  cb'["ws"].op = "none" /\ cb'["ws"].at = "out"
BY DEF TypeOK, Return, NoCallback

LEMMA GoOnIs ==
    ASSUME TypeOK, NEW t \in {"ws", "ses"}, NEW at, NEW sel, GoOn(t, at, sel), t = "ws"
    PROVE  /\ cb'["ws"].at = at /\ cb'["ws"].op = cb["ws"].op /\ cb'["ws"].id = cb["ws"].id
           /\ cb'["ws"].topics = cb["ws"].topics
BY DEF TypeOK, GoOn, Callbacks

LEMMA EnterIs ==
    ASSUME TypeOK, NEW op, NEW id, NEW topics, NEW batch, Enter(op, id, topics, batch)
    PROVE  /\ cb'["ws"].at = "entered" /\ cb'["ws"].op = op /\ cb'["ws"].id = id
           /\ cb'["ws"].topics = topics
BY DEF TypeOK, Enter, NoCallback

\* While the connection holds, the callback of a response to a fetch is that of
\* the last fetch, which is in progress.
LEMMA ResponseIsOfLast ==
    ASSUME TypeOK, FetchInv, NEW f \in 1..MaxFetches, RouteFetchResponse(f) \/ RouteFetchError(f)
    PROVE  /\ f = fetches /\ m_fetch_in_progress
           /\ cb["ws"].at = "out" /\ cb'["ws"].at = "entered"
           /\ cb'["ws"].op \in FetchOps /\ cb'["ws"].id = f /\ cb'["ws"].topics = {}
           /\ UNCHANGED <<m_topics, m_fetch_in_progress, sent, tasks, shown, fetches>>
<1>1. f \in Nat /\ <<"command", f>> \in conv
    BY ConstantsAssumption DEF RouteFetchResponse, RouteFetchError, RouteResponse
<1>2. f = fetches /\ m_fetch_in_progress
    BY <1>1 DEF FetchInv
<1> QED BY <1>2, EnterIs
        DEF RouteFetchResponse, RouteFetchError, RouteResponse, CanRoute, Draining, FetchOps,
            sessionVars, serverVars, screenVars, countVars

\* The steps of the session thread and of the connection do not happen.
LEMMA ConnectedSteps ==
    ASSUME MaxDrops = 0, TypeOK, FetchInv
    PROVE  /\ ~LinkDown /\ ~Reconnect
           /\ ~StartDiscarding /\ ~DiscardingDone /\ ~OnFetchDiscard
           /\ \A c \in conv : ~Discard(c)
           /\ ~CallbackStep("ses")
<1>1. transport = "up" /\ drops = 0 /\ MaxDrops = 0 /\ cb["ses"].at = "out"
    BY DEF FetchInv, Connected
<1>2. ~LinkDown /\ ~Reconnect
    BY <1>1 DEF LinkDown, Reconnect, ReconnectSame, NewSessionOrNone, Reconnecting
<1>3. ~StartDiscarding /\ ~DiscardingDone /\ ~OnFetchDiscard /\ \A c \in conv : ~Discard(c)
    BY <1>1 DEF StartDiscarding, DiscardingDone, OnFetchDiscard, EndFetch, At, Discard
<1>4. ~CallbackStep("ses")
    BY <1>1 DEF CallbackStep, StopAnimator, TakeFetchTopics, TakeSubscribeTopics, Post, At
<1> QED BY <1>2, <1>3, <1>4

\* The transport thread posts its result behind the others.
LEMMA OrderPosted ==
    ASSUME TypeOK, OrderInv, Post("ws")
    PROVE  OrderKept
<1>0. PICK n \in Nat : n = Len(tasks)
    BY DEF TypeOK
<1>1. /\ Len(tasks') = n + 1 /\ tasks'[n + 1] = cb["ws"]
      /\ \A i \in 1..n : tasks'[i] = tasks[i]
      /\ UNCHANGED <<shown, fetches, m_fetch_in_progress>>
      /\ ~IsFetch(cb["ws"])' /\ cb["ws"].at = "post"
    <2>1. tasks' = Append(tasks, cb["ws"]) /\ tasks \in Seq(Callbacks) /\ cb["ws"] \in Callbacks
        BY DEF Post, TypeOK
    <2>2. /\ Len(tasks') = n + 1 /\ tasks'[n + 1] = cb["ws"]
          /\ \A i \in 1..n : tasks'[i] = tasks[i]
        BY <1>0, <2>1, AppendProperties
    <2>3. ~IsFetch(cb["ws"])'
        BY ReturnIs DEF Post, IsFetch, FetchOps
    <2> QED BY <2>2, <2>3 DEF Post, countVars, sessionVars
<1>2. ASSUME NEW i \in 1..(n + 1), IsFetch(tasks[i])'
      PROVE  shown.id < tasks'[i].id /\ Past(tasks[i])'
    <2>1. CASE i = n + 1
        BY <1>1, <1>2, <2>1 DEF OrderInv, IsFetch, Past
    <2>2. CASE i # n + 1
        BY <1>0, <1>1, <1>2, <2>2 DEF OrderInv, IsFetch, Past
    <2> QED BY <2>1, <2>2
<1>3. ASSUME NEW i \in 1..(n + 1), NEW j \in 1..(n + 1),
             IsFetch(tasks[i])', IsFetch(tasks[j])', i < j
      PROVE  tasks'[i].id < tasks'[j].id
    <2>1. CASE j = n + 1
        BY <1>0, <1>1, <1>3, <2>1 DEF OrderInv, IsFetch
    <2>2. CASE j # n + 1
        BY <1>0, <1>1, <1>3, <2>2 DEF OrderInv, IsFetch
    <2> QED BY <2>1, <2>2
<1>4. Past(shown)'
    BY <1>1 DEF OrderInv, Past
<1>5. OrderInv'
    BY <1>1, <1>2, <1>3, <1>4 DEF OrderInv
<1> QED BY <1>1, <1>5 DEF OrderKept

\* The screen shows the first task, if it is the result of a fetch.
LEMMA OrderShown ==
    ASSUME TypeOK, OrderInv, RunTask
    PROVE  OrderKept
<1>0. PICK n \in Nat : n = Len(tasks)
    BY DEF TypeOK
<1>1. /\ n >= 1 /\ Len(tasks') = n - 1
      /\ \A i \in 1..(n - 1) : tasks'[i] = tasks[i + 1]
      /\ Head(tasks) = tasks[1]
      /\ UNCHANGED <<cb, fetches, m_fetch_in_progress>>
    BY <1>0, HeadTailProperties, EmptySeq DEF RunTask, TypeOK, countVars, sessionVars
<1>2. \A i \in 1..(n - 1) : i + 1 \in 1..n /\ 1 < i + 1
    OBVIOUS
<1>3. \A i, j \in 1..(n - 1) : i < j => i + 1 < j + 1
    OBVIOUS
<1>4. CASE IsFetch(tasks[1])
    <2>1. shown'.id = tasks[1].id
        BY <1>1, <1>4 DEF RunTask, ShowFetch
    <2>2. 1 \in 1..n
        BY <1>1
    <2>3. Past(shown)' /\ shown'.id > shown.id
        BY <1>0, <1>1, <1>4, <2>1, <2>2 DEF OrderInv, Past, TypeOK
    <2> QED BY <1>0, <1>1, <1>2, <1>3, <1>4, <2>1, <2>2, <2>3 DEF OrderKept, OrderInv, IsFetch, Past
<1>5. CASE ~IsFetch(tasks[1])
    <2>1. shown' = shown
        BY <1>1, <1>5 DEF RunTask, ShowUpdates
    <2> QED BY <1>0, <1>1, <1>2, <1>3, <2>1 DEF OrderKept, OrderInv, IsFetch, Past
<1> QED BY <1>4, <1>5

\* Steps that neither post nor show a result; the last fetch may end, or a new
\* one be made.
LEMMA OrderFrame ==
    ASSUME TypeOK, OrderInv, UNCHANGED <<shown, tasks>>,
           \/ UNCHANGED fetches /\ (m_fetch_in_progress' => m_fetch_in_progress)
           \/ fetches' = fetches + 1 /\ ~Ending("ws"),
           IsFetch(cb["ws"])' =>
               /\ IsFetch(cb["ws"]) /\ cb'["ws"].id = cb["ws"].id
               /\ \/ cb'["ws"].at = cb["ws"].at
                  \/ cb'["ws"].at # "entered" /\ cb["ws"].at # "entered"
                  \/ cb'["ws"].at # "entered" /\ ~m_fetch_in_progress'
    PROVE  OrderKept
<1>1. fetches \in Nat /\ shown.id \in Nat /\ cb["ws"].id \in Nat
    BY Counters DEF TypeOK, Callbacks
<1>2. ASSUME NEW n \in Nat, n <= fetches, m_fetch_in_progress => n < fetches
      PROVE  n <= fetches' /\ (m_fetch_in_progress' => n < fetches')
    BY <1>1, <1>2
<1>3. ASSUME NEW i \in 1..Len(tasks) PROVE tasks[i].id \in Nat
    <2>1. tasks[i] \in Callbacks
        BY DEF TypeOK
    <2> QED BY <2>1 DEF Callbacks
<1>4. Past(shown)' /\ \A i \in 1..Len(tasks) : IsFetch(tasks[i]) => Past(tasks[i])'
    BY <1>1, <1>2, <1>3 DEF OrderInv, Past
<1>5. IsFetch(cb["ws"])' =>
          IF cb'["ws"].at = "entered" THEN cb'["ws"].id = fetches' ELSE Past(cb["ws"])'
    <2>1. CASE cb["ws"].at # "entered"
        BY <1>1, <1>2, <2>1 DEF OrderInv, Past
    <2>2. CASE cb["ws"].at = "entered"
        BY <1>1, <2>2 DEF OrderInv, Past, Ending, IsFetch
    <2> QED BY <2>1, <2>2
<1> QED BY <1>4, <1>5 DEF OrderKept, OrderInv, IsFetch

\* OrderInv is inductive while the connection holds.
LEMMA OrderStep ==
    ASSUME MaxDrops = 0, TypeOK, FetchInv, OrderInv, [Next]_vars
    PROVE  OrderKept
<1>0. shown.id \in Nat /\ fetches \in Nat /\ cb["ws"].id \in Nat
    BY Counters DEF TypeOK, Callbacks
<1>1. CASE UserFetch
    <2>1. ~Ending("ws") /\ fetches' = fetches + 1 /\ UNCHANGED <<shown, tasks, cb>>
        BY <1>1 DEF UserFetch, Accepts, FetchInv, screenVars
    <2> QED BY <2>1, OrderFrame DEF IsFetch
<1>2. ASSUME NEW f \in 1..MaxFetches, RouteFetchResponse(f) \/ RouteFetchError(f) PROVE OrderKept
    <2>1. Past(shown)' /\ \A i \in 1..Len(tasks) : IsFetch(tasks[i]) => Past(tasks[i])'
        BY <1>2, ResponseIsOfLast DEF OrderInv, Past
    <2> QED BY <1>0, <1>2, <2>1, ResponseIsOfLast DEF OrderKept, OrderInv, IsFetch, Past
<1>4. CASE \/ UserSubscribe \/ Wait \/ LibraryCall \/ Drain \/ UNCHANGED vars
           \/ \E f \in 1..MaxFetches : RouteStatus(f)
    <2>1. UNCHANGED <<shown, tasks, fetches, m_fetch_in_progress, cb>>
        BY <1>4 DEF UserSubscribe, Wait, LibraryCall, Drain, RouteStatus, vars, sessionVars,
            outside, screenVars, countVars, FetchWithoutTransport, AddCommand, AddReply,
            AddSubscribe, AddConversation, SendFetch, SendSubscribe, Send, SendFails
    <2> QED BY <2>1, OrderFrame
<1>5. ASSUME NEW op \in SubscribeOps \cup {"topic"}, NEW id, NEW topics, NEW batch,
             Enter(op, id, topics, batch), UNCHANGED <<shown, tasks, fetches, m_fetch_in_progress>>
      PROVE  OrderKept
    BY <1>5, EnterIs, OrderFrame DEF IsFetch, FetchOps, SubscribeOps
<1>6. (\E s \in 1..MaxSubscribes : RouteSubscribed(s) \/ RouteSubscribeError(s))
          \/ RouteUpdate \/ (\E f \in 1..MaxFetches : RouteTopic(f)) => OrderKept
    BY <1>5 DEF RouteSubscribed, RouteSubscribeError, RouteResponse, RouteUpdate, RouteTopic,
                SubscribeOps, screenVars, countVars, sessionVars
<1>7. CASE OnFetchTopic \/ OnSubscribeTopic \/ CheckSubscription \/ OnSubscribeCompleted
              \/ OnSubscribeError
    <2>1. UNCHANGED <<shown, tasks, fetches, m_fetch_in_progress>>
        BY <1>7 DEF OnFetchTopic, OnSubscribeTopic, CheckSubscription, OnSubscribeCompleted,
            OnSubscribeError, outside, screenVars, countVars, sessionVars
    <2>2. ~IsFetch(cb["ws"])'
        BY <1>7, GoOnIs, ReturnIs
           DEF OnFetchTopic, OnSubscribeTopic, CheckSubscription, OnSubscribeCompleted,
            OnSubscribeError, IsFetch, FetchOps, At
    <2> QED BY <2>1, <2>2, OrderFrame
<1>8. CASE OnFetchCompleted \/ OnFetchError
    <2>1. UNCHANGED <<shown, tasks, fetches>> /\ m_fetch_in_progress' = FALSE
        BY <1>8 DEF OnFetchCompleted, OnFetchError, EndFetch, outside, screenVars, countVars
    <2>2. cb'["ws"].op = cb["ws"].op /\ cb'["ws"].id = cb["ws"].id /\ cb'["ws"].at = "stop"
        BY <1>8, GoOnIs DEF OnFetchCompleted, OnFetchError, EndFetch
    <2> QED BY <2>1, <2>2, OrderFrame DEF IsFetch
<1>9. CASE StopAnimator("ws") \/ TakeFetchTopics("ws") \/ TakeSubscribeTopics("ws")
    <2>1. UNCHANGED <<shown, tasks, fetches, m_fetch_in_progress>>
        BY <1>9 DEF StopAnimator, TakeFetchTopics, TakeSubscribeTopics, sessionVars, outside,
                    screenVars, countVars
    <2>2. /\ cb'["ws"].op = cb["ws"].op /\ cb'["ws"].id = cb["ws"].id
          /\ cb["ws"].at # "entered" /\ cb'["ws"].at # "entered"
        <3>1. CASE StopAnimator("ws")
            BY <3>1, GoOnIs DEF StopAnimator
        <3>2. CASE TakeFetchTopics("ws") \/ TakeSubscribeTopics("ws")
            BY <3>2, TakePlace
        <3> QED BY <1>9, <3>1, <3>2
    <2> QED BY <2>1, <2>2, OrderFrame DEF IsFetch
<1>10. CASE Post("ws")
    BY <1>10, OrderPosted
<1>11. CASE RunTask
    BY <1>11, OrderShown
<1> QED BY <1>1, <1>2, <1>4, <1>6, <1>7, <1>8, <1>9, <1>10, <1>11, ConnectedSteps
       DEF Next, Answer, Incoming, WsStep, SesStep, CallbackStep

LEMMA OrderHolds ==
    ASSUME MaxDrops = 0
    PROVE  Spec => []OrderInv
<1>1. Init => OrderInv
    <2> SUFFICES ASSUME Init PROVE OrderInv
        OBVIOUS
    <2>1. Len(tasks) = 0 /\ shown.id = 0 /\ fetches = 0 /\ cb["ws"].op = "none"
        BY DEF Init, NoCallback
    <2> QED BY <2>1 DEF Init, OrderInv, Past, IsFetch, FetchOps
<1>2. TypeOK /\ FetchInv /\ OrderInv /\ [Next]_vars => OrderInv'
    BY OrderStep DEF OrderKept
<1> QED BY <1>1, <1>2, FetchInvHolds, TypeCorrect, PTL DEF Spec

\* NeverOlder, for all bounds, as long as the connection holds: the screen never
\* goes back to the result of an older fetch.
THEOREM ResultsStayInOrder ==
    ASSUME MaxDrops = 0
    PROVE  Spec => NeverOlder
<1>1. ASSUME TypeOK, TypeOK', FetchInv, OrderInv, [Next]_vars
      PROVE  [shown'.id >= shown.id]_shown
    <2>1. shown.id \in Nat /\ shown'.id \in Nat
        BY <1>1 DEF TypeOK
    <2> QED BY <1>1, <2>1, OrderStep DEF OrderKept
<1> QED BY <1>1, OrderHolds, FetchInvHolds, TypeCorrect, PTL DEF Spec, NeverOlder

-----------------------------------------------------------------------------
(* The topics of a result                                                  *)

\* The record r has been made of a fetch that has ended: of n fetches, the last of
\* which is in progress or not, and for each of which some topics were found.
WholeOf(r, n, busy, found) ==
    IsFetch(r) =>
        /\ r.id \in 1..n
        /\ r.id = n => ~busy
        /\ IF r.op = "fetched"
           THEN r.topics = {r.id} \X (1..found[r.id]) \/ (r.id # n /\ r.topics = {})
           ELSE r.topics = {}

Whole(r) == WholeOf(r, fetches, m_fetch_in_progress, sent)

\* A topic is in the hands of the transport thread, or a result that the callback
\* has not taken out of m_topics.
Coming == cb["ws"].at = "entered" /\ cb["ws"].op = "topic"
Taking == cb["ws"].at \in {"stop", "take"} /\ cb["ws"].op = "fetched"

Carried == IF Coming THEN cb["ws"].topics ELSE {}

\* What has arrived for the last fetch is in m_topics until it is taken; a fetch
\* that is made before it is taken finds nothing there, and gets nothing into it.
TopicsInv ==
    /\ \A f \in 1..MaxFetches : f > fetches => sent[f] = 0
    /\ m_fetch_in_progress => fetches >= 1
    /\ m_fetch_in_progress \/ (Taking /\ cb["ws"].id = fetches) =>
           m_topics \cup Carried = {fetches} \X (1..sent[fetches])
    /\ Coming => m_fetch_in_progress
    /\ Ending("ws") => cb["ws"].id = fetches /\ cb["ws"].topics = {}
    /\ Taking =>
           /\ cb["ws"].id \in 1..fetches
           /\ IF cb["ws"].id = fetches THEN ~m_fetch_in_progress ELSE m_topics = {}

\* The callback has its result: an error has none to take.
Ready == cb["ws"].at = "post" \/ (cb["ws"].at = "stop" /\ cb["ws"].op # "fetched")

ResultsInv ==
    /\ Ready => Whole(cb["ws"])
    /\ \A i \in 1..Len(tasks) : Whole(tasks[i])
    /\ Whole(shown)

\* A result stays one while more is found for the fetch that is in progress.
LEMMA WholeStays ==
    ASSUME NEW n \in Nat, NEW m \in Nat, n <= m, NEW busy, NEW busyNow, NEW found, NEW foundNow,
           \A f \in 1..n : foundNow[f] # found[f] => busy /\ f = n,
           n = m /\ ~busy => ~busyNow,
           NEW r, WholeOf(r, n, busy, found)
    PROVE  WholeOf(r, m, busyNow, foundNow)
<1> SUFFICES ASSUME IsFetch(r)
             PROVE  /\ r.id \in 1..m
                    /\ r.id = m => ~busyNow
                    /\ IF r.op = "fetched"
                       THEN \/ r.topics = {r.id} \X (1..foundNow[r.id])
                            \/ r.id # m /\ r.topics = {}
                       ELSE r.topics = {}
    BY DEF WholeOf
<1>1. r.id \in 1..n /\ (r.id = n => ~busy)
    BY DEF WholeOf
<1>2. foundNow[r.id] = found[r.id]
    BY <1>1
<1>3. r.id = m => r.id = n /\ n = m
    BY <1>1
<1> QED BY <1>1, <1>2, <1>3 DEF WholeOf

\* How many topics were found for the fetches.
LEMMA SentIsNat ==
    ASSUME TypeOK
    PROVE  /\ fetches \in Nat /\ MaxFetches \in Nat /\ fetches <= MaxFetches
           /\ \A f \in 1..MaxFetches : sent[f] \in Nat
           /\ \A f \in 1..fetches : f \in 1..MaxFetches /\ sent[f] \in Nat
<1>1. fetches \in Nat /\ MaxFetches \in Nat /\ fetches <= MaxFetches
    BY ConstantsAssumption DEF TypeOK
<1>2. ASSUME NEW f \in 1..MaxFetches PROVE sent[f] \in Nat
    <2>1. sent[f] \in 0..TopicsPerFetch
        BY DEF TypeOK
    <2> QED BY <2>1, ConstantsAssumption
<1>3. \A f \in 1..fetches : f \in 1..MaxFetches
    BY <1>1
<1> QED BY <1>1, <1>2, <1>3

\* The same of everything that is not new.
LEMMA ResultsStay ==
    ASSUME TypeOK, TypeOK', ResultsInv, UNCHANGED <<tasks, shown>>,
           Ready' => \/ Whole(cb["ws"])'
                     \/ Ready /\ cb'["ws"].op = cb["ws"].op /\ cb'["ws"].id = cb["ws"].id
                              /\ cb'["ws"].topics = cb["ws"].topics,
           fetches <= fetches',
           \A f \in 1..fetches : sent'[f] # sent[f] => m_fetch_in_progress /\ f = fetches,
           fetches' = fetches /\ ~m_fetch_in_progress => ~m_fetch_in_progress'
    PROVE  ResultsInv'
<1>1. fetches \in Nat /\ fetches' \in Nat
    BY ConstantsAssumption DEF TypeOK
<1>2. \A r : WholeOf(r, fetches, m_fetch_in_progress, sent) =>
             WholeOf(r, fetches', m_fetch_in_progress', sent')
    BY <1>1, WholeStays
<1>3. Ready' => Whole(cb["ws"])'
    <2>1. CASE Ready /\ cb'["ws"].op = cb["ws"].op /\ cb'["ws"].id = cb["ws"].id
                    /\ cb'["ws"].topics = cb["ws"].topics
        <3>1. WholeOf(cb["ws"], fetches', m_fetch_in_progress', sent')
            BY <1>2, <2>1 DEF ResultsInv, Whole
        <3> QED BY <2>1, <3>1 DEF Whole, WholeOf, IsFetch
    <2> QED BY <2>1
<1> QED BY <1>2, <1>3 DEF ResultsInv, Whole

\* A step that neither moves topics nor takes a fetch further.
LEMMA TopicsStay ==
    ASSUME TypeOK, TopicsInv, UNCHANGED <<fetches, m_fetch_in_progress, sent, m_topics>>,
           Coming' <=> Coming, Coming => cb'["ws"].topics = cb["ws"].topics,
           Ending("ws")' => Ending("ws") /\ cb'["ws"].id = cb["ws"].id
                                         /\ cb'["ws"].topics = cb["ws"].topics,
           Taking' => Taking /\ cb'["ws"].id = cb["ws"].id
    PROVE  TopicsInv'
<1>1. Carried' = Carried
    BY DEF Carried
<1> QED BY <1>1 DEF TopicsInv

WholeInv == TopicsInv /\ ResultsInv

\* Steps in which the transport thread's callback does not get on with a fetch.
LEMMA WholeFrame ==
    ASSUME TypeOK, TypeOK', WholeInv,
           UNCHANGED <<fetches, m_fetch_in_progress, sent, m_topics, tasks, shown>>,
           \/ cb'["ws"] = cb["ws"]
           \/ cb'["ws"].op = "none" /\ ~Coming
           \/ cb'["ws"].op \in SubscribeOps /\ ~Coming
    PROVE  WholeInv'
<1>1. TopicsInv'
    BY TopicsStay DEF WholeInv, Coming, Taking, Ending, FetchOps, SubscribeOps
<1>2. Ready' => Whole(cb["ws"])' \/ (Ready /\ cb'["ws"] = cb["ws"])
    BY DEF Ready, Whole, WholeOf, IsFetch, FetchOps, SubscribeOps
<1>3. ResultsInv'
    BY <1>2, SentIsNat, ResultsStay DEF WholeInv
<1> QED BY <1>1, <1>3 DEF WholeInv

\* The request of a fetch: nothing has arrived for it.
LEMMA WholeRequested ==
    ASSUME TypeOK, TypeOK', FetchInv, WholeInv, UserFetch
    PROVE  WholeInv'
<1>1. /\ fetches' = fetches + 1 /\ fetches < MaxFetches /\ fetches \in Nat /\ MaxFetches \in Nat
      /\ m_fetch_in_progress' = TRUE /\ ~m_fetch_in_progress /\ m_topics' = {}
      /\ UNCHANGED <<cb, sent, tasks, shown>>
    BY Counters, ConstantsAssumption DEF UserFetch, Accepts, screenVars, serverVars
<1>2. ~Coming /\ ~Ending("ws")
    BY <1>1 DEF WholeInv, TopicsInv, FetchInv
<1>3. sent[fetches + 1] = 0
    BY <1>1 DEF WholeInv, TopicsInv
<1>4. TopicsInv'
    <2>1. ~Coming' /\ ~Ending("ws")' /\ Carried' = {} /\ (Taking' <=> Taking)
        BY <1>1, <1>2 DEF Coming, Ending, Carried, Taking
    <2>2. {fetches'} \X (1..sent'[fetches']) = {}
        BY <1>1, <1>3
    <2>3. Taking => cb["ws"].id \in 1..fetches' /\ cb["ws"].id # fetches'
        BY <1>1 DEF WholeInv, TopicsInv
    <2>4. \A f \in 1..MaxFetches : f > fetches' => sent'[f] = 0
        BY <1>1 DEF WholeInv, TopicsInv
    <2> QED BY <1>1, <2>1, <2>2, <2>3, <2>4 DEF TopicsInv
<1>5. ResultsInv'
    BY <1>1, SentIsNat, ResultsStay DEF WholeInv, Ready
<1> QED BY <1>4, <1>5 DEF WholeInv

\* A topic arrives.
LEMMA WholeRouted ==
    ASSUME RepliesFirst, TypeOK, TypeOK', FetchInv, WholeInv,
           NEW f \in 1..MaxFetches, RouteTopic(f)
    PROVE  WholeInv'
<1>1. f = fetches /\ m_fetch_in_progress /\ f \in Nat /\ f \in 1..MaxFetches
    BY ConstantsAssumption DEF RouteTopic, FetchInv
<1>2. /\ UNCHANGED <<fetches, m_fetch_in_progress, m_topics, tasks, shown>>
      /\ sent' = [sent EXCEPT ![f] = @ + 1] /\ cb["ws"].at = "out"
      /\ cb'["ws"].at = "entered" /\ cb'["ws"].op = "topic"
      /\ cb'["ws"].topics = {<<f, sent[f] + 1>>}
    BY EnterIs DEF RouteTopic, CanRoute, Draining, sessionVars, screenVars, countVars
<1>3. /\ Coming' /\ Carried' = {<<f, sent[f] + 1>>} /\ ~Taking' /\ ~Ending("ws")'
      /\ Carried = {} /\ ~Coming
    BY <1>2 DEF Coming, Carried, Taking, Ending, FetchOps
<1>4. ASSUME NEW g \in 1..MaxFetches
      PROVE sent[g] \in Nat /\ sent'[g] = IF g = f THEN sent[g] + 1 ELSE sent[g]
    BY <1>2, SentIsNat DEF TypeOK
<1>5. m_topics' \cup Carried' = {fetches} \X (1..sent'[fetches])
    <2>1. m_topics = {f} \X (1..sent[f])
        BY <1>1, <1>3 DEF WholeInv, TopicsInv
    <2>2. sent'[f] = sent[f] + 1 /\ sent[f] \in Nat
        BY <1>4
    <2>3. 1..(sent[f] + 1) = 1..sent[f] \cup {sent[f] + 1}
        BY <2>2
    <2> QED BY <1>1, <1>2, <1>3, <2>1, <2>2, <2>3
<1>6. TopicsInv'
    BY <1>1, <1>2, <1>3, <1>4, <1>5 DEF WholeInv, TopicsInv
<1>7. \A g \in 1..fetches : sent'[g] # sent[g] => g = fetches
    BY <1>1, <1>4, SentIsNat
<1>8. ResultsInv'
    BY <1>1, <1>2, <1>7, ResultsStay DEF WholeInv, Ready
<1> QED BY <1>6, <1>8 DEF WholeInv

\* onFetchTopic stores it.
LEMMA WholeStored ==
    ASSUME TypeOK, TypeOK', FetchInv, WholeInv, OnFetchTopic
    PROVE  WholeInv'
<1>1. /\ UNCHANGED <<fetches, m_fetch_in_progress, sent, tasks, shown>>
      /\ m_topics' = m_topics \cup cb["ws"].topics
      /\ Coming /\ Carried = cb["ws"].topics /\ m_fetch_in_progress
      /\ cb'["ws"].op = "none"
    BY ReturnIs DEF OnFetchTopic, At, Coming, Carried, WholeInv, TopicsInv, outside, screenVars,
                    serverVars, countVars
<1>2. ~Coming' /\ ~Taking' /\ ~Ending("ws")' /\ Carried' = {}
    BY <1>1 DEF Coming, Taking, Ending, Carried, FetchOps
<1>3. TopicsInv'
    BY <1>1, <1>2 DEF WholeInv, TopicsInv
<1>4. Ready' => Whole(cb["ws"])'
    BY <1>1 DEF Whole, WholeOf, IsFetch, FetchOps
<1>5. ResultsInv'
    BY <1>1, <1>4, SentIsNat, ResultsStay DEF WholeInv
<1> QED BY <1>3, <1>5 DEF WholeInv

\* The last fetch ends, and its result is ready to be taken.
LEMMA WholeEnded ==
    ASSUME TypeOK, TypeOK', FetchInv, WholeInv, OnFetchCompleted \/ OnFetchError
    PROVE  WholeInv'
<1>1. /\ UNCHANGED <<fetches, m_topics, sent, tasks, shown>>
      /\ Ending("ws") /\ m_fetch_in_progress' = FALSE
      /\ cb'["ws"].at = "stop" /\ cb'["ws"].id = cb["ws"].id
      /\ cb'["ws"].topics = cb["ws"].topics
    BY GoOnIs DEF OnFetchCompleted, OnFetchError, EndFetch, At, Ending, FetchOps, outside, screenVars,
                  serverVars, countVars
<1>2. m_fetch_in_progress /\ cb["ws"].id = fetches /\ fetches \in Nat /\ fetches >= 1
    BY <1>1, Counters DEF FetchInv, WholeInv, TopicsInv
<1>3. ~Coming /\ ~Coming' /\ Carried = {} /\ Carried' = {} /\ ~Ending("ws")'
    BY <1>1 DEF Coming, Carried, Ending, FetchOps
<1>4. TopicsInv'
    BY <1>1, <1>2, <1>3 DEF WholeInv, TopicsInv
<1>5. Ready' => Whole(cb["ws"])'
    BY <1>1, <1>2 DEF Ready, Whole, WholeOf, WholeInv, TopicsInv
<1>6. ResultsInv'
    BY <1>1, <1>2, <1>5, SentIsNat, ResultsStay DEF WholeInv
<1> QED BY <1>4, <1>6 DEF WholeInv

\* getFetchTopics takes it: all of it, or nothing if there is a new fetch.
LEMMA WholeTaken ==
    ASSUME TypeOK, TypeOK', FetchInv, WholeInv, TakeFetchTopics("ws")
    PROVE  WholeInv'
<1>1. /\ UNCHANGED <<fetches, m_fetch_in_progress, sent, tasks, shown>>
      /\ m_topics' = {} /\ Taking
      /\ cb'["ws"].at = "post" /\ cb'["ws"].op = "fetched" /\ cb'["ws"].id = cb["ws"].id
      /\ cb'["ws"].topics = m_topics
    BY DEF TakeFetchTopics, At, Taking, TypeOK, Callbacks, outside, screenVars, serverVars, countVars
<1>2. ~Coming /\ ~Coming' /\ Carried = {} /\ Carried' = {} /\ ~Ending("ws")' /\ ~Taking'
    BY <1>1 DEF Coming, Carried, Ending, Taking
<1>3. TopicsInv'
    BY <1>1, <1>2 DEF WholeInv, TopicsInv
<1>4. Whole(cb["ws"])'
    <2>1. cb["ws"].id \in 1..fetches
        BY <1>1 DEF WholeInv, TopicsInv
    <2>2. CASE cb["ws"].id = fetches
        BY <1>1, <1>2, <2>1, <2>2 DEF WholeInv, TopicsInv, Whole, WholeOf
    <2>3. CASE cb["ws"].id # fetches
        BY <1>1, <1>2, <2>1, <2>3 DEF WholeInv, TopicsInv, Whole, WholeOf
    <2> QED BY <2>2, <2>3
<1>5. ResultsInv'
    BY <1>1, <1>4 DEF WholeInv, ResultsInv, Whole
<1> QED BY <1>3, <1>5 DEF WholeInv

\* The result moves on to the screen's queue ...
LEMMA WholePosted ==
    ASSUME TypeOK, TypeOK', WholeInv, Post("ws")
    PROVE  WholeInv'
<1>1. UNCHANGED <<fetches, m_fetch_in_progress, sent, m_topics, shown>>
      /\ cb["ws"].at = "post" /\ cb'["ws"].at = "out"
    BY ReturnIs DEF Post, sessionVars, serverVars, countVars
<1>2. TopicsInv'
    BY <1>1, TopicsStay DEF WholeInv, Coming, Taking, Ending
<1>3. PICK n \in Nat : n = Len(tasks)
    BY DEF TypeOK
<1>4. /\ Len(tasks') = n + 1 /\ tasks'[n + 1] = cb["ws"]
      /\ \A i \in 1..n : tasks'[i] = tasks[i]
    BY <1>3, AppendProperties DEF Post, TypeOK
<1>5. ASSUME NEW i \in 1..(n + 1) PROVE Whole(tasks[i])'
    <2>1. CASE i = n + 1
        BY <1>1, <1>4, <2>1 DEF WholeInv, ResultsInv, Ready, Whole
    <2>2. CASE i # n + 1
        <3>1. i \in 1..n
            BY <2>2
        <3> QED BY <1>1, <1>3, <1>4, <3>1 DEF WholeInv, ResultsInv, Whole
    <2> QED BY <2>1, <2>2
<1>6. ResultsInv'
    BY <1>1, <1>4, <1>5 DEF WholeInv, ResultsInv, Ready, Whole
<1> QED BY <1>2, <1>6 DEF WholeInv

\* ... and to the screen.
LEMMA WholeShown ==
    ASSUME TypeOK, TypeOK', WholeInv, RunTask
    PROVE  WholeInv'
<1>1. UNCHANGED <<fetches, m_fetch_in_progress, sent, m_topics, cb>>
    BY DEF RunTask, sessionVars, serverVars, countVars
<1>2. TopicsInv'
    BY <1>1, TopicsStay DEF WholeInv, Coming, Taking, Ending
<1>3. PICK n \in Nat : n = Len(tasks)
    BY DEF TypeOK
<1>4. /\ n >= 1 /\ Len(tasks') = n - 1
      /\ \A i \in 1..(n - 1) : tasks'[i] = tasks[i + 1]
      /\ Head(tasks) = tasks[1]
    BY <1>3, HeadTailProperties, EmptySeq DEF RunTask, TypeOK
<1>5. \/ shown' = shown
      \/ shown' = [op |-> tasks[1].op, id |-> tasks[1].id, topics |-> tasks[1].topics]
    BY <1>4 DEF RunTask, ShowFetch, ShowUpdates
<1>6. Whole(shown)'
    <2>1. Whole(tasks[1])
        BY <1>3, <1>4 DEF WholeInv, ResultsInv
    <2> QED BY <1>1, <1>5, <2>1 DEF WholeInv, ResultsInv, Whole, WholeOf, IsFetch
<1>7. ASSUME NEW i \in 1..(n - 1) PROVE Whole(tasks[i])'
    <2>1. i + 1 \in 1..n
        OBVIOUS
    <2> QED BY <1>1, <1>3, <1>4, <2>1 DEF WholeInv, ResultsInv, Whole
<1>8. ResultsInv'
    BY <1>1, <1>4, <1>6, <1>7 DEF WholeInv, ResultsInv, Ready, Whole
<1> QED BY <1>2, <1>8 DEF WholeInv

\* WholeInv is inductive while the connection holds.
LEMMA WholeStep ==
    ASSUME MaxDrops = 0, RepliesFirst, TypeOK, TypeOK', FetchInv, WholeInv, [Next]_vars
    PROVE  WholeInv'
<1> DEFINE Kept == UNCHANGED <<fetches, m_fetch_in_progress, sent, m_topics, tasks, shown>>
<1>1. CASE UserFetch
    BY <1>1, WholeRequested
<1>2. CASE UserSubscribe \/ Wait \/ LibraryCall \/ Drain \/ UNCHANGED vars
             \/ \E f \in 1..MaxFetches : RouteStatus(f)
    <2>1. Kept /\ cb' = cb
        BY <1>2 DEF UserSubscribe, Wait, LibraryCall, Drain, RouteStatus, vars, sessionVars,
            outside, screenVars, serverVars, countVars, FetchWithoutTransport, AddCommand, AddReply,
            AddSubscribe, AddConversation, SendFetch, SendSubscribe, Send, SendFails
    <2> QED BY <2>1, WholeFrame
<1>3. CASE RunTask
    BY <1>3, WholeShown
<1>4. ASSUME NEW f \in 1..MaxFetches, RouteFetchResponse(f) \/ RouteFetchError(f) PROVE WholeInv'
    <2>1. Kept /\ f = fetches
        BY <1>4, ResponseIsOfLast
    <2>2. cb["ws"].at = "out" /\ cb'["ws"].at = "entered" /\ cb'["ws"].op \in FetchOps
          /\ cb'["ws"].id = f /\ cb'["ws"].topics = {}
        BY <1>4, ResponseIsOfLast
    <2>3. ~Coming /\ ~Coming' /\ ~Taking /\ ~Taking' /\ Carried = {} /\ Carried' = {}
        BY <2>2 DEF Coming, Taking, Carried, FetchOps
    <2>4. TopicsInv'
        BY <2>1, <2>2, <2>3 DEF WholeInv, TopicsInv
    <2>5. ResultsInv'
        BY <2>1, <2>2, SentIsNat, ResultsStay DEF WholeInv, Ready
    <2> QED BY <2>4, <2>5 DEF WholeInv
<1>5. ASSUME NEW op \in SubscribeOps, NEW id, NEW topics, NEW batch,
             Enter(op, id, topics, batch), cb["ws"].at = "out", Kept
      PROVE  WholeInv'
    BY <1>5, EnterIs, WholeFrame DEF Coming
<1>6. ASSUME NEW s \in 1..MaxSubscribes, RouteSubscribed(s) \/ RouteSubscribeError(s)
      PROVE  WholeInv'
    BY <1>5, <1>6 DEF RouteSubscribed, RouteSubscribeError, RouteResponse, CanRoute, Draining,
                      SubscribeOps, sessionVars, screenVars, serverVars, countVars
<1>7. CASE RouteUpdate
    BY <1>5, <1>7 DEF RouteUpdate, CanRoute, Draining, SubscribeOps, sessionVars, screenVars, countVars
<1>8. ASSUME NEW f \in 1..MaxFetches, RouteTopic(f) PROVE WholeInv'
    BY <1>8, WholeRouted
<1>9. CASE OnFetchTopic
    BY <1>9, WholeStored
<1>10. CASE OnFetchCompleted \/ OnFetchError
    BY <1>10, WholeEnded
<1>11. CASE OnSubscribeTopic \/ CheckSubscription \/ OnSubscribeCompleted \/ OnSubscribeError
    <2>1. Kept
        BY <1>11 DEF OnSubscribeTopic, CheckSubscription, OnSubscribeCompleted, OnSubscribeError,
            sessionVars, outside, screenVars, serverVars, countVars
    <2>2. cb["ws"].op \in SubscribeOps /\ (cb'["ws"].op = "none" \/ cb'["ws"].op = cb["ws"].op)
        BY <1>11, GoOnIs, ReturnIs DEF OnSubscribeTopic, CheckSubscription, OnSubscribeCompleted,
            OnSubscribeError, At, SubscribeOps
    <2> QED BY <2>1, <2>2, WholeFrame DEF Coming, SubscribeOps
<1>12. CASE StopAnimator("ws")
    <2>1. Kept
        BY <1>12 DEF StopAnimator, sessionVars, outside, screenVars, serverVars, countVars
    <2>2. /\ cb["ws"].at = "stop" /\ cb'["ws"].op = cb["ws"].op /\ cb'["ws"].id = cb["ws"].id
          /\ cb'["ws"].topics = cb["ws"].topics /\ cb'["ws"].at \in {"take", "post"}
          /\ cb["ws"].op = "fetched" => cb'["ws"].at = "take"
        BY <1>12, GoOnIs DEF StopAnimator
    <2>3. TopicsInv'
        BY <2>1, <2>2, TopicsStay DEF WholeInv, Coming, Taking, Ending
    <2>4. ResultsInv'
        BY <2>1, <2>2, SentIsNat, ResultsStay DEF WholeInv, Ready
    <2> QED BY <2>3, <2>4 DEF WholeInv
<1>13. CASE TakeFetchTopics("ws")
    BY <1>13, WholeTaken
<1>14. CASE TakeSubscribeTopics("ws")
    <2>1. Kept
        BY <1>14 DEF TakeSubscribeTopics, outside, screenVars, serverVars, countVars
    <2>2. cb["ws"].op \in SubscribeOps /\ cb'["ws"].op = cb["ws"].op
        BY <1>14 DEF TakeSubscribeTopics, SubscribeOps, TypeOK, Callbacks
    <2> QED BY <2>1, <2>2, WholeFrame DEF Coming, SubscribeOps
<1>15. CASE Post("ws")
    BY <1>15, WholePosted
<1> QED BY <1>1, <1>2, <1>3, <1>4, <1>6, <1>7, <1>8, <1>9, <1>10, <1>11, <1>12, <1>13, <1>14,
           <1>15, ConnectedSteps
        DEF Next, Answer, Incoming, WsStep, SesStep, CallbackStep

LEMMA WholeHolds ==
    ASSUME MaxDrops = 0, RepliesFirst
    PROVE  Spec => []WholeInv
<1>1. Init => WholeInv
    <2> SUFFICES ASSUME Init PROVE WholeInv
        OBVIOUS
    <2>1. /\ Len(tasks) = 0 /\ shown.op = "none" /\ ~m_fetch_in_progress
          /\ cb["ws"].op = "none" /\ cb["ws"].at = "out"
          /\ \A f \in 1..MaxFetches : sent[f] = 0
        BY DEF Init, NoCallback
    <2> QED BY <2>1 DEF WholeInv, TopicsInv, ResultsInv, Ready, Whole, WholeOf, IsFetch, FetchOps,
                        Coming, Taking, Ending
<1>2. TypeOK /\ TypeOK' /\ FetchInv /\ WholeInv /\ [Next]_vars => WholeInv'
    BY WholeStep
<1> QED BY <1>1, <1>2, FetchInvHolds, TypeCorrect, PTL DEF Spec

\* WholeResult, for all bounds, as long as the connection holds and the server
\* sends the topics of a fetch before the response: what getFetchTopics moves out
\* after m_fetch_in_progress was cleared is all of the fetch that has just
\* ended, or nothing if the user has started another.
THEOREM ResultsAreWhole ==
    ASSUME MaxDrops = 0, RepliesFirst
    PROVE  Spec => []WholeResult
<1>1. WholeInv => WholeResult
    BY DEF WholeInv, ResultsInv, Whole, WholeOf, WholeResult, IsFetch, FetchOps
<1> QED BY <1>1, WholeHolds, PTL

-----------------------------------------------------------------------------
(* The search tab implements FetchResults                                  *)

\* A step that shows no result, makes no fetch, ends none and finds no topic.
ResultsStutter == UNCHANGED <<fetches, m_fetch_in_progress, sent, shown>>

\* The screen goes on to the first task, if it is a result.
LEMMA ResultIsDisplayed ==
    ASSUME TypeOK, TypeOK', OrderInv, WholeInv, RunTask
    PROVE  Results!Display \/ ResultsStutter
<1>1. tasks \in Seq(Callbacks) /\ tasks # <<>> /\ UNCHANGED <<fetches, m_fetch_in_progress, sent>>
    BY DEF RunTask, TypeOK, countVars, sessionVars, serverVars
<1>2. Head(tasks) = tasks[1] /\ 1 \in 1..Len(tasks)
    BY <1>1, HeadTailProperties, EmptySeq
<1>3. CASE ~IsFetch(tasks[1])
    BY <1>1, <1>2, <1>3 DEF RunTask, ShowUpdates, ResultsStutter
<1>4. CASE IsFetch(tasks[1])
    <2> DEFINE r == tasks[1]
    <2>1. shown' = [op |-> r.op, id |-> r.id, topics |-> r.topics]
        BY <1>2, <1>4 DEF RunTask, ShowFetch
    <2>2. fetches \in Nat /\ shown.id \in Nat
        BY Counters DEF TypeOK
    <2>3. r.id \in 1..fetches /\ shown.id < r.id /\ (r.id = fetches => ~m_fetch_in_progress)
        BY <1>2, <1>4 DEF OrderInv, WholeInv, ResultsInv, Whole, WholeOf
    <2>4. r.id \in shown.id + 1 .. fetches /\ (Results!Last(r.id) => ~m_fetch_in_progress)
        BY <2>2, <2>3 DEF Results!Last
    <2>5. CASE r.op = "fetched"
        <3>1. r.topics \in Results!Result(r.id)
            BY <1>2, <1>4, <2>5 DEF WholeInv, ResultsInv, Whole, WholeOf, Results!Result, Results!Last
        <3> QED BY <1>1, <2>1, <2>4, <2>5, <3>1 DEF Results!Display
    <2>6. CASE r.op \in {"fetchError", "fetchDiscard"}
        <3>1. r.topics = {}
            BY <1>2, <1>4, <2>6 DEF WholeInv, ResultsInv, Whole, WholeOf
        <3> QED BY <1>1, <2>1, <2>4, <2>6, <3>1 DEF Results!Display
    <2> QED BY <1>4, <2>5, <2>6 DEF IsFetch, FetchOps
<1> QED BY <1>3, <1>4

\* Every step is one of FetchResults, or none.
LEMMA ResultsStep ==
    ASSUME MaxDrops = 0, RepliesFirst, TypeOK, TypeOK', FetchInv, OrderInv, WholeInv, [Next]_vars
    PROVE  Results!Next \/ ResultsStutter
<1> USE DEF ResultsStutter
<1>1. CASE UserFetch
    BY <1>1 DEF UserFetch, Accepts, screenVars, serverVars, Results!Next, Results!Request
<1>2. ASSUME NEW f \in 1..MaxFetches, RouteTopic(f) PROVE Results!Next
    <2>1. f = fetches /\ m_fetch_in_progress
        BY <1>2, ConstantsAssumption DEF RouteTopic, FetchInv
    <2>2. sent' = [sent EXCEPT ![fetches] = @ + 1] /\ UNCHANGED <<fetches, m_fetch_in_progress, shown>>
        BY <1>2, <2>1 DEF RouteTopic, sessionVars, screenVars, countVars
    <2> QED BY <2>1, <2>2 DEF Results!Next, Results!Find
<1>3. CASE OnFetchCompleted \/ OnFetchError
    <2>1. Ending("ws") /\ m_fetch_in_progress' = FALSE /\ UNCHANGED <<fetches, sent, shown>>
        BY <1>3 DEF OnFetchCompleted, OnFetchError, EndFetch, At, Ending, FetchOps, outside,
                    screenVars, serverVars, countVars
    <2> QED BY <2>1 DEF FetchInv, Results!Next, Results!End
<1>4. CASE RunTask
    BY <1>4, ResultIsDisplayed DEF Results!Next
<1>5. CASE UserSubscribe \/ Wait \/ LibraryCall \/ Drain \/ UNCHANGED vars
    BY <1>5 DEF UserSubscribe, Wait, LibraryCall, Drain, vars, sessionVars, outside, screenVars,
                serverVars, countVars, FetchWithoutTransport, AddCommand, AddReply, AddSubscribe,
                AddConversation, SendFetch, SendSubscribe, Send, SendFails
<1>6. CASE Answer \/ RouteUpdate \/ \E f \in 1..MaxFetches : RouteStatus(f)
    BY <1>6 DEF Answer, RouteFetchResponse, RouteFetchError, RouteSubscribed, RouteSubscribeError,
                RouteResponse, RouteUpdate, RouteStatus, sessionVars, screenVars, serverVars, countVars
<1>7. CASE OnFetchTopic \/ OnSubscribeTopic \/ CheckSubscription \/ OnSubscribeCompleted
              \/ OnSubscribeError \/ CallbackStep("ws")
    BY <1>7 DEF OnFetchTopic, OnSubscribeTopic, CheckSubscription, OnSubscribeCompleted,
                OnSubscribeError, CallbackStep, StopAnimator, TakeFetchTopics, TakeSubscribeTopics,
                Post, sessionVars, outside, screenVars, serverVars, countVars
<1> QED BY <1>1, <1>2, <1>3, <1>4, <1>5, <1>6, <1>7, ConnectedSteps
       DEF Next, Incoming, WsStep, SesStep

\* ResultsAreSafe, for all bounds, as long as the connection holds and the server
\* sends the topics of a fetch before the response: the session, the callbacks
\* and the screen's queue implement FetchResults, in which a result is displayed
\* in one step, after the fetch has ended and before that of any later one.
THEOREM ResultsAreImplemented ==
    ASSUME MaxDrops = 0, RepliesFirst
    PROVE  Spec => ResultsAreSafe
<1>1. Init => Results!Init
    BY DEF Init, Results!Init
<1>2. ASSUME TypeOK, TypeOK', FetchInv, OrderInv, WholeInv, [Next]_vars
      PROVE  [Results!Next]_(Results!resultVars)
    BY <1>2, ResultsStep DEF Results!resultVars, ResultsStutter
<1> QED BY <1>1, <1>2, OrderHolds, WholeHolds, FetchInvHolds, TypeCorrect, PTL
        DEF Spec, ResultsAreSafe, Results!SafeSpec

-----------------------------------------------------------------------------
(* A topic is in one place                                                 *)

\* What carries topics: the session, the callbacks of the two threads, the tasks
\* in the screen's queue, by their place, and the screen.
TheScreen == <<"screen", 0>>

Carriers ==
    {TheSession, Thread("ws"), Thread("ses"), TheScreen} \cup {"task"} \X (1..Len(tasks))

AllCarriers == {"session", "ws", "ses", "screen", "task"} \X Nat

TopicsOf(p) ==
    CASE p[1] = "session"       -> m_topics
      [] p[1] \in {"ws", "ses"} -> cb[p[1]].topics
      [] p[1] = "task"          -> tasks[p[2]].topics
      [] p[1] = "screen"        -> shown.topics

\* The server has sent the topic x.
Found(x) == x[1] \in 1..MaxFetches /\ x[2] \in 1..sent[x[1]]

\* No two carry the same topic, and the next topic that the server sends is new.
OnceInv ==
    /\ \A p \in Carriers : \A x \in TopicsOf(p) : Found(x)
    /\ \A p, q \in Carriers : p # q => TopicsOf(p) \cap TopicsOf(q) = {}

LEMMA CarriersType == TypeOK => Carriers \subseteq AllCarriers
BY DEF TypeOK, Carriers, AllCarriers, TheSession, TheScreen, Thread

\* Topics stay found.
LEMMA FoundStays ==
    ASSUME TypeOK, TypeOK', \A f \in 1..MaxFetches : sent[f] <= sent'[f]
    PROVE  \A x : Found(x) => Found(x)'
<1> SUFFICES ASSUME NEW x, Found(x) PROVE x[2] \in 1..sent'[x[1]]
    BY DEF Found
<1>1. x[1] \in 1..MaxFetches /\ x[2] \in 1..sent[x[1]]
    BY DEF Found
<1>2. sent[x[1]] \in 0..TopicsPerFetch /\ sent'[x[1]] \in 0..TopicsPerFetch
    BY <1>1 DEF TypeOK
<1>3. sent[x[1]] \in Nat /\ sent'[x[1]] \in Nat /\ sent[x[1]] <= sent'[x[1]]
    BY <1>1, <1>2, ConstantsAssumption
<1> QED BY <1>1, <1>3

\* Every topic has been carried before, by from[p] if p carries it now, and was
\* not copied.
LEMMA TopicsMove ==
    ASSUME TypeOK, TypeOK', OnceInv, NEW from \in [AllCarriers -> AllCarriers],
           \A p \in Carriers' :
               TopicsOf(p)' = {} \/ (from[p] \in Carriers /\ TopicsOf(p)' \subseteq TopicsOf(from[p])),
           \A p, q \in Carriers' :
               TopicsOf(p)' # {} /\ TopicsOf(q)' # {} /\ from[p] = from[q] => p = q,
           \A f \in 1..MaxFetches : sent[f] <= sent'[f]
    PROVE  OnceInv'
<1>1. ASSUME NEW p \in Carriers', NEW x \in TopicsOf(p)' PROVE Found(x)'
    BY <1>1, FoundStays DEF OnceInv
<1>2. ASSUME NEW p \in Carriers', NEW q \in Carriers', p # q
      PROVE  TopicsOf(p)' \cap TopicsOf(q)' = {}
    <2>1. CASE TopicsOf(p)' # {} /\ TopicsOf(q)' # {}
        <3>1. from[p] # from[q] /\ from[p] \in Carriers /\ from[q] \in Carriers
            BY <1>2, <2>1
        <3>2. TopicsOf(from[p]) \cap TopicsOf(from[q]) = {}
            BY <3>1 DEF OnceInv
        <3> QED BY <2>1, <3>2
    <2> QED BY <2>1
<1> QED BY <1>1, <1>2 DEF OnceInv

\* Nothing is moved; at most topics are dropped, and others found.
LEMMA TopicsKept ==
    ASSUME TypeOK, TypeOK', OnceInv, UNCHANGED <<tasks, shown>>, m_topics' \subseteq m_topics,
           \A t \in {"ws", "ses"} : cb'[t].topics \subseteq cb[t].topics,
           \A f \in 1..MaxFetches : sent[f] <= sent'[f]
    PROVE  OnceInv'
<1>1. PICK from \in [AllCarriers -> AllCarriers] : \A p \in AllCarriers : from[p] = p
    <2> WITNESS [p \in AllCarriers |-> p] \in [AllCarriers -> AllCarriers]
    <2> QED OBVIOUS
<1>2. Carriers' = Carriers /\ Carriers \subseteq AllCarriers
    BY CarriersType DEF Carriers
<1>3. ASSUME NEW p \in Carriers PROVE TopicsOf(p)' \subseteq TopicsOf(p)
    BY <1>3 DEF TopicsOf, Carriers, TheSession, TheScreen, Thread
<1>4. \A p \in Carriers' : from[p] \in Carriers /\ TopicsOf(p)' \subseteq TopicsOf(from[p])
    BY <1>1, <1>2, <1>3
<1>5. \A p, q \in Carriers' : from[p] = from[q] => p = q
    BY <1>1, <1>2
<1> QED BY <1>4, <1>5, TopicsMove

\* How many topics were found does not change.
LEMMA SentStays == TypeOK /\ UNCHANGED sent => \A f \in 1..MaxFetches : sent[f] <= sent'[f]
BY SentIsNat

\* A topic that nothing carries yet enters the callback of the transport thread.
LEMMA TopicIsNew ==
    ASSUME TypeOK, TypeOK', OnceInv, NEW f \in 1..MaxFetches, RouteTopic(f)
    PROVE  OnceInv'
<1>0. PICK n \in Nat : n = sent[f] + 1
    BY SentIsNat
<1> DEFINE new == <<f, n>>
<1>1. /\ UNCHANGED <<m_topics, tasks, shown>> /\ sent' = [sent EXCEPT ![f] = @ + 1]
      /\ cb'["ws"].topics = {new} /\ cb'["ses"] = cb["ses"]
    BY <1>0, EnterIs, EnterPlace DEF RouteTopic, sessionVars, screenVars
<1>2. \A g \in 1..MaxFetches : sent[g] \in Nat /\ sent'[g] = IF g = f THEN sent[g] + 1 ELSE sent[g]
    BY <1>1, SentIsNat DEF TypeOK
<1>3. \A g \in 1..MaxFetches : sent[g] <= sent'[g]
    BY <1>2
<1>4. Carriers' = Carriers /\ Thread("ws") \in Carriers /\ TopicsOf(Thread("ws"))' = {new}
    BY <1>1 DEF Carriers, TopicsOf, Thread
<1>5. ASSUME NEW p \in Carriers, p # Thread("ws") PROVE TopicsOf(p)' = TopicsOf(p)
    BY <1>1, <1>5 DEF TopicsOf, Carriers, TheSession, TheScreen, Thread
<1>6. ~Found(new) /\ Found(new)'
    BY <1>0, <1>2 DEF Found
<1>7. ASSUME NEW p \in Carriers, NEW x \in TopicsOf(p)' PROVE Found(x)'
    <2>1. CASE p = Thread("ws")
        BY <1>4, <1>6, <1>7, <2>1
    <2>2. CASE p # Thread("ws")
        BY <1>3, <1>5, <1>7, <2>2, FoundStays DEF OnceInv
    <2> QED BY <2>1, <2>2
<1>8. ASSUME NEW p \in Carriers, p # Thread("ws") PROVE new \notin TopicsOf(p)'
    BY <1>5, <1>6, <1>8 DEF OnceInv
<1>9. ASSUME NEW p \in Carriers, NEW q \in Carriers, p # q
      PROVE  TopicsOf(p)' \cap TopicsOf(q)' = {}
    <2>1. CASE p # Thread("ws") /\ q # Thread("ws")
        BY <1>5, <1>9, <2>1 DEF OnceInv
    <2>2. CASE p = Thread("ws") \/ q = Thread("ws")
        BY <1>4, <1>8, <1>9, <2>2
    <2> QED BY <2>1, <2>2
<1> QED BY <1>4, <1>7, <1>9 DEF OnceInv

\* onFetchTopic stores it with the others.
LEMMA TopicStored ==
    ASSUME TypeOK, TypeOK', OnceInv, OnFetchTopic
    PROVE  OnceInv'
<1>1. /\ UNCHANGED <<sent, tasks, shown>> /\ m_topics' = m_topics \cup cb["ws"].topics
      /\ cb'["ws"].topics = {} /\ cb'["ses"] = cb["ses"]
    BY DEF OnFetchTopic, Return, NoCallback, TypeOK, outside, screenVars, serverVars
<1>2. Carriers' = Carriers /\ {TheSession, Thread("ws")} \subseteq Carriers
    BY <1>1 DEF Carriers
<1>3. /\ TopicsOf(TheSession)' = TopicsOf(TheSession) \cup TopicsOf(Thread("ws"))
      /\ TopicsOf(Thread("ws"))' = {} /\ TheSession # Thread("ws")
    BY <1>1 DEF TopicsOf, TheSession, Thread
<1>4. ASSUME NEW p \in Carriers, p # Thread("ws"), p # TheSession PROVE TopicsOf(p)' = TopicsOf(p)
    BY <1>1, <1>4 DEF TopicsOf, Carriers, TheSession, TheScreen, Thread
<1>5. \A x : Found(x) => Found(x)'
    BY <1>1, SentStays, FoundStays
<1>6. ASSUME NEW p \in Carriers, NEW x \in TopicsOf(p)' PROVE Found(x)'
    <2>1. \E q \in Carriers : x \in TopicsOf(q)
        BY <1>2, <1>3, <1>4, <1>6
    <2> QED BY <1>5, <2>1 DEF OnceInv
<1>7. ASSUME NEW p \in Carriers, NEW q \in Carriers, p # q
      PROVE  TopicsOf(p)' \cap TopicsOf(q)' = {}
    <2>1. CASE p = Thread("ws") \/ q = Thread("ws")
        BY <1>3, <2>1
    <2>2. CASE p # Thread("ws") /\ q # Thread("ws")
        <3>1. ASSUME NEW r \in Carriers, r # Thread("ws"), r # TheSession
              PROVE  TopicsOf(r)' \cap TopicsOf(TheSession)' = {}
            <4>1. TopicsOf(r) \cap TopicsOf(TheSession) = {} /\ TopicsOf(r) \cap TopicsOf(Thread("ws")) = {}
                BY <1>2, <3>1 DEF OnceInv
            <4> QED BY <1>3, <1>4, <3>1, <4>1
        <3>2. CASE p # TheSession /\ q # TheSession
            BY <1>4, <1>7, <2>2, <3>2 DEF OnceInv
        <3> QED BY <1>7, <2>2, <3>1, <3>2
    <2> QED BY <2>1, <2>2
<1> QED BY <1>2, <1>6, <1>7 DEF OnceInv

\* getFetchTopics moves them on ...
LEMMA TopicsTaken ==
    ASSUME TypeOK, TypeOK', OnceInv, NEW t \in {"ws", "ses"}, TakeFetchTopics(t)
    PROVE  OnceInv'
<1>1. /\ UNCHANGED <<sent, tasks, shown>> /\ m_topics' = {} /\ cb'[t].topics = m_topics
      /\ \A u \in {"ws", "ses"} : u # t => cb'[u] = cb[u]
    BY DEF TakeFetchTopics, TypeOK, Callbacks, outside, screenVars, serverVars
<1>2. PICK from \in [AllCarriers -> AllCarriers] :
          \A p \in AllCarriers : from[p] = IF p = Thread(t) THEN TheSession ELSE p
    <2> DEFINE move == [p \in AllCarriers |-> IF p = Thread(t) THEN TheSession ELSE p]
    <2>1. move \in [AllCarriers -> AllCarriers]
        BY DEF TheSession, AllCarriers
    <2> WITNESS move \in [AllCarriers -> AllCarriers]
    <2> QED OBVIOUS
<1>3. Carriers' = Carriers /\ Carriers \subseteq AllCarriers /\ TheSession \in Carriers
    BY <1>1, CarriersType DEF Carriers
<1>4. TopicsOf(Thread(t))' = TopicsOf(TheSession) /\ TopicsOf(TheSession)' = {}
    BY <1>1 DEF TopicsOf, Thread, TheSession
<1>5. ASSUME NEW p \in Carriers, p # Thread(t), p # TheSession PROVE TopicsOf(p)' = TopicsOf(p)
    BY <1>1, <1>5 DEF TopicsOf, Carriers, TheSession, TheScreen, Thread
<1>6. ASSUME NEW p \in Carriers'
      PROVE  TopicsOf(p)' = {} \/ (from[p] \in Carriers /\ TopicsOf(p)' \subseteq TopicsOf(from[p]))
    BY <1>2, <1>3, <1>4, <1>5, <1>6
<1>7. ASSUME NEW p \in Carriers', NEW q \in Carriers', TopicsOf(p)' # {}, TopicsOf(q)' # {},
             from[p] = from[q]
      PROVE  p = q
    BY <1>2, <1>3, <1>4, <1>7
<1> QED BY <1>1, <1>6, <1>7, SentStays, TopicsMove

\* ... a task takes them to the screen's queue ...
LEMMA TopicsPosted ==
    ASSUME TypeOK, TypeOK', OnceInv, NEW t \in {"ws", "ses"}, Post(t)
    PROVE  OnceInv'
<1>0. PICK n \in Nat : n = Len(tasks)
    BY DEF TypeOK
<1>1. PICK from \in [AllCarriers -> AllCarriers] :
          \A p \in AllCarriers : from[p] = IF p = <<"task", n + 1>> THEN Thread(t) ELSE p
    <2> DEFINE move == [p \in AllCarriers |-> IF p = <<"task", n + 1>> THEN Thread(t) ELSE p]
    <2>1. move \in [AllCarriers -> AllCarriers]
        BY DEF Thread, AllCarriers
    <2> WITNESS move \in [AllCarriers -> AllCarriers]
    <2> QED OBVIOUS
<1>2. /\ Len(tasks') = n + 1 /\ tasks'[n + 1] = cb[t]
      /\ \A i \in 1..n : tasks'[i] = tasks[i]
    BY <1>0, AppendProperties DEF Post, TypeOK
<1>3. /\ cb'[t].topics = {} /\ UNCHANGED <<m_topics, shown, sent>>
      /\ \A u \in {"ws", "ses"} : u # t => cb'[u] = cb[u]
    BY DEF Post, Return, NoCallback, TypeOK, sessionVars, serverVars
<1>4. Carriers' = Carriers \cup {<<"task", n + 1>>} /\ Carriers' \subseteq AllCarriers
      /\ Thread(t) \in Carriers
    <2>1. (Carriers \subseteq AllCarriers)'
        BY CarriersType, PTL
    <2>2. {"task"} \X (1..(n + 1)) = {"task"} \X (1..n) \cup {<<"task", n + 1>>}
        OBVIOUS
    <2> QED BY <1>0, <1>2, <2>1, <2>2 DEF Carriers, AllCarriers, TheSession, TheScreen, Thread
<1>5. TopicsOf(<<"task", n + 1>>)' = TopicsOf(Thread(t)) /\ TopicsOf(Thread(t))' = {}
    BY <1>2, <1>3 DEF TopicsOf, Thread
<1>6. ASSUME NEW p \in Carriers, p # Thread(t) PROVE TopicsOf(p)' = TopicsOf(p)
    BY <1>0, <1>2, <1>3, <1>6 DEF TopicsOf, Carriers, TheSession, TheScreen, Thread
<1>7. ASSUME NEW p \in Carriers'
      PROVE  TopicsOf(p)' = {} \/ (from[p] \in Carriers /\ TopicsOf(p)' \subseteq TopicsOf(from[p]))
    BY <1>1, <1>4, <1>5, <1>6, <1>7
<1>8. ASSUME NEW p \in Carriers', NEW q \in Carriers', TopicsOf(p)' # {}, TopicsOf(q)' # {},
             from[p] = from[q]
      PROVE  p = q
    BY <1>1, <1>4, <1>5, <1>8
<1> QED BY <1>3, <1>7, <1>8, SentStays, TopicsMove

\* ... and to the screen, where they replace others.
LEMMA TopicsShown ==
    ASSUME TypeOK, TypeOK', OnceInv, RunTask
    PROVE  OnceInv' /\ (shown' # shown => shown'.topics \cap shown.topics = {})
<1>0. PICK n \in Nat : n = Len(tasks)
    BY DEF TypeOK
<1>1. /\ n >= 1 /\ Len(tasks') = n - 1 /\ Head(tasks) = tasks[1]
      /\ \A i \in 1..(n - 1) : tasks'[i] = tasks[i + 1]
      /\ UNCHANGED <<m_topics, cb, sent>>
    BY <1>0, HeadTailProperties, EmptySeq DEF RunTask, TypeOK, sessionVars, serverVars
<1>2. /\ Carriers' = {TheSession, Thread("ws"), Thread("ses"), TheScreen} \cup {"task"} \X (1..(n - 1))
      /\ \A i \in 1..n : <<"task", i>> \in Carriers
      /\ {TheSession, Thread("ws"), Thread("ses"), TheScreen} \subseteq Carriers
    BY <1>0, <1>1 DEF Carriers
<1>3. \A i \in 1..(n - 1) : i + 1 \in 1..n /\ TopicsOf(<<"task", i>>)' = TopicsOf(<<"task", i + 1>>)
    BY <1>1 DEF TopicsOf
<1>4. \A p \in {TheSession, Thread("ws"), Thread("ses")} : TopicsOf(p)' = TopicsOf(p)
    BY <1>1 DEF TopicsOf, TheSession, Thread
<1>5. 1 \in 1..n /\ TopicsOf(<<"task", 1>>) = tasks[1].topics
      /\ TopicsOf(TheScreen)' = shown'.topics /\ TopicsOf(TheScreen) = shown.topics
    BY <1>1 DEF TopicsOf, TheScreen
<1>6. shown' = shown \/ shown'.topics = tasks[1].topics
    BY <1>1 DEF RunTask, ShowFetch, ShowUpdates
<1>7. PICK head \in {<<"task", 1>>, TheScreen} : TopicsOf(TheScreen)' = TopicsOf(head)
    BY <1>5, <1>6
<1>8. PICK from \in [AllCarriers -> AllCarriers] :
          \A p \in AllCarriers :
              from[p] = IF p[1] = "task" THEN <<"task", p[2] + 1>> ELSE IF p = TheScreen THEN head ELSE p
    <2> DEFINE move == [p \in AllCarriers |-> IF p[1] = "task" THEN <<"task", p[2] + 1>>
                                              ELSE IF p = TheScreen THEN head ELSE p]
    <2>1. ASSUME NEW p \in AllCarriers PROVE move[p] \in AllCarriers
        <3>1. p[2] + 1 \in Nat /\ head \in AllCarriers
            BY DEF AllCarriers, TheScreen
        <3> QED BY <3>1 DEF AllCarriers
    <2>2. move \in [AllCarriers -> AllCarriers]
        BY <2>1
    <2> WITNESS move \in [AllCarriers -> AllCarriers]
    <2> QED OBVIOUS
<1>9. Carriers' \subseteq AllCarriers
    <2>1. (Carriers \subseteq AllCarriers)'
        BY CarriersType, PTL
    <2> QED BY <2>1 DEF AllCarriers
<1>10. ASSUME NEW p \in Carriers'
       PROVE  from[p] \in Carriers /\ TopicsOf(p)' \subseteq TopicsOf(from[p])
    <2>1. CASE p \in {TheSession, Thread("ws"), Thread("ses")}
        <3>1. from[p] = p
            BY <1>8, <1>9, <1>10, <2>1 DEF TheSession, TheScreen, Thread
        <3> QED BY <1>2, <1>4, <2>1, <3>1
    <2>2. CASE p = TheScreen
        <3>1. from[p] = head
            BY <1>8, <1>9, <1>10, <2>2 DEF TheScreen
        <3> QED BY <1>2, <1>5, <1>7, <2>2, <3>1
    <2>3. CASE p \in {"task"} \X (1..(n - 1))
        <3>1. from[p] = <<"task", p[2] + 1>> /\ p = <<"task", p[2]>> /\ p[2] \in 1..(n - 1)
            BY <1>8, <1>9, <1>10, <2>3
        <3> QED BY <1>2, <1>3, <3>1
    <2> QED BY <1>2, <1>10, <2>1, <2>2, <2>3
<1>11. ASSUME NEW p \in Carriers', NEW q \in Carriers', from[p] = from[q]
       PROVE  p = q
    BY <1>2, <1>8, <1>9, <1>11 DEF TheSession, TheScreen, Thread
<1>12. OnceInv'
    BY <1>1, <1>10, <1>11, SentStays, TopicsMove
<1>13. tasks[1].topics \cap shown.topics = {}
    <2>1. <<"task", 1>> \in Carriers /\ TheScreen \in Carriers /\ <<"task", 1>> # TheScreen
        BY <1>2, <1>5 DEF TheScreen
    <2> QED BY <1>5, <2>1 DEF OnceInv
<1> QED BY <1>6, <1>12, <1>13

\* OnceInv is inductive, with lost connections and fetches that overlap.
LEMMA OnceStep ==
    ASSUME TypeOK, TypeOK', OnceInv, [Next]_vars
    PROVE  OnceInv' /\ (shown' # shown => shown'.topics \cap shown.topics = {})
<1> USE DEF sessionVars, outside, screenVars, serverVars
<1>1. ASSUME UNCHANGED <<tasks, shown, sent>>, m_topics' \subseteq m_topics,
             \A t \in {"ws", "ses"} : cb'[t].topics \subseteq cb[t].topics
      PROVE  OnceInv'
    BY <1>1, SentStays, TopicsKept
<1>2. CASE \/ UserFetch \/ UserSubscribe \/ Wait \/ LibraryCall \/ Drain \/ UNCHANGED vars
           \/ \E f \in 1..MaxFetches : RouteStatus(f)
    <2>1. UNCHANGED <<tasks, shown, sent, cb>> /\ m_topics' \subseteq m_topics
        BY <1>2 DEF UserFetch, UserSubscribe, Wait, LibraryCall, Drain, RouteStatus, vars,
            FetchWithoutTransport, AddCommand, AddReply, AddSubscribe, AddConversation, SendFetch,
            SendSubscribe, Send, SendFails
    <2> QED BY <1>1, <2>1
<1>3. ASSUME NEW op, NEW id, NEW batch, Enter(op, id, {}, batch),
             UNCHANGED <<tasks, shown, sent, m_topics>>
      PROVE  OnceInv'
    BY <1>1, <1>3, EnterIs, EnterPlace
<1>4. CASE Answer \/ RouteUpdate
    <2>1. UNCHANGED <<tasks, shown>>
        BY <1>4 DEF Answer, RouteFetchResponse, RouteFetchError, RouteSubscribed,
                    RouteSubscribeError, RouteResponse, RouteUpdate
    <2> QED BY <1>3, <1>4, <2>1 DEF Answer, RouteFetchResponse, RouteFetchError, RouteSubscribed,
                    RouteSubscribeError, RouteResponse, RouteUpdate
<1>5. ASSUME NEW t \in {"ws", "ses"}, NEW at, NEW sel, Return(t) \/ GoOn(t, at, sel)
      PROVE  \A u \in {"ws", "ses"} : cb'[u].topics \subseteq cb[u].topics
    <2>1. CASE Return(t)
        BY <2>1 DEF Return, NoCallback, TypeOK
    <2>2. CASE GoOn(t, at, sel)
        BY <2>2 DEF GoOn, TypeOK, Callbacks
    <2> QED BY <1>5, <2>1, <2>2
<1>6. CASE OnFetchCompleted \/ OnFetchError \/ OnFetchDiscard \/ OnSubscribeTopic
              \/ CheckSubscription \/ OnSubscribeCompleted \/ OnSubscribeError
              \/ \E t \in {"ws", "ses"} : StopAnimator(t)
    <2>1. UNCHANGED <<tasks, shown, sent, m_topics>>
        BY <1>6 DEF OnFetchCompleted, OnFetchError, OnFetchDiscard, EndFetch, OnSubscribeTopic,
            CheckSubscription, OnSubscribeCompleted, OnSubscribeError, StopAnimator
    <2>2. \A u \in {"ws", "ses"} : cb'[u].topics \subseteq cb[u].topics
        BY <1>5, <1>6 DEF OnFetchCompleted, OnFetchError, OnFetchDiscard, EndFetch,
            OnSubscribeTopic, CheckSubscription, OnSubscribeCompleted, OnSubscribeError, StopAnimator
    <2> QED BY <1>1, <2>1, <2>2
<1>7. ASSUME NEW t \in {"ws", "ses"}, TakeSubscribeTopics(t) PROVE OnceInv' /\ shown' = shown
    BY <1>1, <1>7 DEF TakeSubscribeTopics, TypeOK, Callbacks
<1>8. ASSUME NEW c \in conv, Discard(c) PROVE OnceInv' /\ shown' = shown
    <2>1. \A u \in {"ws", "ses"} : cb'[u].topics \subseteq cb[u].topics
        BY <1>8 DEF Discard, TypeOK, NoCallback
    <2> QED BY <1>1, <1>8, <2>1 DEF Discard
<1>9. CASE LinkDown \/ Reconnect \/ StartDiscarding \/ DiscardingDone
    <2>1. \A at : \A u \in {"ws", "ses"} : [cb EXCEPT !["ses"].at = at][u].topics = cb[u].topics
        BY DEF TypeOK, Callbacks
    <2>2. cb' = cb \/ \E at : cb' = [cb EXCEPT !["ses"].at = at]
        BY <1>9 DEF LinkDown, Reconnect, ReconnectSame, NewSessionOrNone, StartDiscarding,
            DiscardingDone
    <2>3. UNCHANGED <<tasks, shown, sent, m_topics>>
        BY <1>9 DEF LinkDown, Reconnect, ReconnectSame, NewSessionOrNone, StartDiscarding,
            DiscardingDone
    <2> QED BY <1>1, <2>1, <2>2, <2>3
<1>10. ASSUME \/ UserFetch \/ UserSubscribe \/ Wait \/ LibraryCall \/ Drain \/ UNCHANGED vars
              \/ Answer \/ Incoming \/ OnFetchTopic \/ OnFetchCompleted \/ OnFetchError
              \/ OnFetchDiscard \/ OnSubscribeTopic \/ CheckSubscription \/ OnSubscribeCompleted
              \/ OnSubscribeError \/ LinkDown \/ Reconnect \/ StartDiscarding \/ DiscardingDone
              \/ \E t \in {"ws", "ses"} : StopAnimator(t) \/ TakeFetchTopics(t) \/ Post(t)
       PROVE  shown' = shown
    BY <1>10 DEF UserFetch, UserSubscribe, Wait, LibraryCall, Drain, RouteStatus, vars,
        FetchWithoutTransport, AddCommand, AddReply, AddSubscribe, AddConversation, SendFetch,
        SendSubscribe, Send, SendFails, Answer, RouteFetchResponse, RouteFetchError,
        RouteSubscribed, RouteSubscribeError, RouteResponse, Incoming, RouteTopic, RouteUpdate,
        OnFetchTopic, OnFetchCompleted, OnFetchError, OnFetchDiscard, EndFetch, OnSubscribeTopic,
        CheckSubscription, OnSubscribeCompleted, OnSubscribeError, LinkDown, Reconnect,
        ReconnectSame, NewSessionOrNone, StartDiscarding, DiscardingDone, StopAnimator,
        TakeFetchTopics, Post
<1> QED BY <1>2, <1>4, <1>6, <1>7, <1>8, <1>9, <1>10, TopicIsNew, TopicStored, TopicsTaken,
           TopicsPosted, TopicsShown DEF Next, Incoming, WsStep, SesStep, CallbackStep

LEMMA OnceHolds == Spec => []OnceInv
<1>1. Init => OnceInv
    <2> SUFFICES ASSUME Init PROVE OnceInv
        OBVIOUS
    <2>1. Len(tasks) = 0
        BY DEF Init
    <2>2. \A p \in Carriers : TopicsOf(p) = {}
        BY <2>1 DEF Init, Carriers, TopicsOf, TheSession, TheScreen, Thread, NoCallback
    <2> QED BY <2>2 DEF OnceInv
<1>2. TypeOK /\ TypeOK' /\ OnceInv /\ [Next]_vars => OnceInv'
    BY OnceStep
<1> QED BY <1>1, <1>2, TypeCorrect, PTL DEF Spec

\* The carrier that is the owner at the place i of TopicOwners.
CarrierAt(i) ==
    CASE i = 1 -> TheSession
      [] i = 2 -> Thread("ws")
      [] i = 3 -> Thread("ses")
      [] i = 4 -> TheScreen
      [] i > 4 -> <<"task", i - 4>>

LEMMA OwnersAreCarriers ==
    ASSUME TypeOK, NEW i \in 1..Len(TopicOwners)
    PROVE  CarrierAt(i) \in Carriers /\ TopicOwners[i] = TopicsOf(CarrierAt(i))
<1> DEFINE fixed == <<m_topics, cb["ws"].topics, cb["ses"].topics, shown.topics>>
<1> DEFINE posted == [k \in 1..Len(tasks) |-> tasks[k].topics]
<1> DEFINE S == SUBSET (Nat \X Nat)
<1>1. Len(tasks) \in Nat /\ \A k \in 1..Len(tasks) : tasks[k].topics \in S
    <2>1. tasks \in Seq(Callbacks)
        BY DEF TypeOK
    <2>2. \A k \in 1..Len(tasks) : tasks[k] \in Callbacks
        BY <2>1, ElementOfSeq
    <2> QED BY <2>1, <2>2, LenProperties DEF Callbacks
<1>2. fixed \in Seq(S) /\ Len(fixed) = 4
    <2>1. m_topics \in S /\ shown.topics \in S
        BY DEF TypeOK
    <2>2. cb["ws"].topics \in S /\ cb["ses"].topics \in S
        BY DEF TypeOK, Callbacks
    <2> HIDE DEF S
    <2> QED BY <2>1, <2>2
<1>3. posted \in Seq(S) /\ Len(posted) = Len(tasks)
    BY <1>1
<1>4. /\ i \in 1..4 + Len(tasks)
      /\ TopicOwners[i] = IF i <= 4 THEN fixed[i] ELSE posted[i - 4]
    BY <1>2, <1>3, ConcatProperties DEF TopicOwners
<1>5. CASE i > 4
    <2>1. i - 4 \in 1..Len(tasks) /\ CarrierAt(i) = <<"task", i - 4>>
        BY <1>1, <1>4, <1>5 DEF CarrierAt
    <2>2. CarrierAt(i) \in Carriers
        BY <2>1 DEF Carriers
    <2>3. TopicOwners[i] = tasks[i - 4].topics
        BY <2>1, <1>1, <1>4, <1>5
    <2> QED BY <2>1, <2>2, <2>3 DEF TopicsOf
<1>6. CASE i \in 1..4
    BY <1>4, <1>6 DEF CarrierAt, Carriers, TopicsOf, TheSession, TheScreen, Thread
<1> QED BY <1>1, <1>4, <1>5, <1>6

\* TopicsHaveOneOwner, for all bounds, with lost connections and requests that are
\* sent again: whatever callback takes m_topics, a topic moves from the message over
\* the session and a task to the screen and is never in two of these places.
THEOREM TopicsKeepOneOwner == Spec => []TopicsHaveOneOwner
<1>1. ASSUME TypeOK, OnceInv, NEW i \in 1..Len(TopicOwners), NEW j \in 1..Len(TopicOwners),
             i # j
      PROVE  TopicOwners[i] \cap TopicOwners[j] = {}
    <2>1. i \in Nat /\ j \in Nat /\ i >= 1 /\ j >= 1
        OBVIOUS
    <2>2. CarrierAt(i) # CarrierAt(j)
        BY <1>1, <2>1 DEF CarrierAt, TheSession, TheScreen, Thread
    <2> QED BY <1>1, <2>2, OwnersAreCarriers DEF OnceInv
<1>2. TypeOK /\ OnceInv => TopicsHaveOneOwner
    BY <1>1 DEF TopicsHaveOneOwner
<1> QED BY <1>2, OnceHolds, TypeCorrect, PTL

\* The result that replaces the one on the screen has none of its topics.
NotShownTwice == [][shown'.topics \cap shown.topics = {}]_shown

\* NotShownTwice: to the screen, too, topics move from an owner that they had alone.
THEOREM TopicsAreNotShownTwice == Spec => NotShownTwice
<1>1. TypeOK /\ TypeOK' /\ OnceInv /\ [Next]_vars => [shown'.topics \cap shown.topics = {}]_shown
    BY OnceStep
<1> QED BY <1>1, OnceHolds, TypeCorrect, PTL DEF Spec, NotShownTwice
=============================================================================
