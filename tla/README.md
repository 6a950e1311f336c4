# A TLA+ verification of dmon

dmon is a terminal program that fetches and subscribes topics of a Diffusion
server and lists them. This directory holds TLA+ models of it, the
configurations that TLC checks them with, and proofs about them that TLAPS
checks. Paths below are those of the repository (`src/data/session.cpp` and so
on; in `PROJECT.json` they start with `src/`).

## 1. The system

### Threads

| thread | who starts it | what it runs |
|---|---|---|
| UI | `main` | `screen.Loop`: button handlers (`Session::fetch`, `Session::subscribe`), tasks given to `screen.Post`, rendering |
| worker | `Animator` | posts a tick to the screen every 0.2 s for each registered spinner |
| ws | the library | the transport: sends what is queued, calls the callbacks of incoming messages |
| ses | the library | the session: reconnects after a lost connection, discards conversations |

The library is a binary with headers (`diffusion/`). What its threads are, that
callbacks run on them, that `ses` holds the lock on its conversation table
(below: the *handler mutex*) while it calls `on_discard`, that `fetch` returns
silently without a transport, and that a full outbound queue makes the add
block for 5 s and then call the error callback on the caller's stack, is
modelled as the client meets it; such definitions are marked `external` in the
map.

### Components

| component | state | operations | module |
|---|---|---|---|
| Session (`data/session.*`) | flags and topics of the request in progress, one selector, callbacks, `m_operationMutex` | `fetch`, `subscribe` (UI); `onFetch*`, `onSubscribe*` (ws, ses); getters | `Session` |
| callbacks (`main.cpp`) | captured locals | stop the spinner, take topics out of the session, post a task | `Session` |
| Animator (`main_component.hpp`) | `m_signals`, `m_stop`, `m_m`, `m_cv` | worker loop; `start` (UI), `stop` (ws, ses), destructor (UI) | `Animator` |
| MainComponent (`ui/main_component.*`) | lists, messages, checkboxes | `onFetchCompleted`, `onSubscribeCompleted`, handlers, `Render` | `Session` (requests, lists and checkboxes), `Tabs` (both tabs as drawn) |
| LogDisplayer | selection, selected text | `RenderLines`, `OnEvent`, `clearSelected` | `Tabs` |
| start, recovery, exit (`main.cpp`, `Session::connect`, `~Session`) | which objects exist, the state of the library's session | `connect`; construction; destruction in reverse order, `session_close`, `session_free` | `Lifecycle` |
| notifications (`Session::notify`) | a vector of events | `onTopicSubscriptionEvent` (ws) | `Lifecycle` |
| Hexdump (`data/hexdump.h`) | loop counter | print a row | `Hexdump` |
| name tables | none | pure | `state2String` in `Lifecycle` |
| `unsubscribe`, `LineProducer`, `wrap` | — | never called, or no effect | not modelled, see section 8 |

### How they interact

A request: the handler on the UI thread locks `m_operationMutex`, tests
`m_fetch_in_progress`, sets it, clears `m_topics`, stores the selector, starts
the spinner and, still holding the mutex, calls the library, which registers
conversations under its own mutex and queues the request. The server's topics
reach `onFetchTopic` on ws. The response reaches `onFetchCompleted` there: it
clears the flag and moves the selector out under the mutex, then, without it,
calls the lambda of `main.cpp`, which stops the spinner, moves `m_topics` out
in a second critical section and posts a task that replaces the list. Between
any two of these steps the user may start the next request. A subscription
goes the same way, except that updates keep arriving: `onSubscribeTopic`
buffers each, and hands the buffer over unless a request is in progress.
After a lost connection ses may create a new session and then calls the
`on_discard` of every open conversation, while ws already runs again.

### What is hard, and what makes each component correct

* **Session**: two flags, one selector and two topic lists are shared by all
  requests and touched in several critical sections per callback. It is
  correct if fetches do not overlap, a result is that of its fetch and
  complete, newer results are not replaced by older ones, updates are displayed
  once and in order, and a request in progress always ends, since every further
  one is turned away until then.
* **Locks**: the library is called with `m_operationMutex` held and calls back
  into code that takes it.
* **Animator**: notifications are sent after the mutex is released and are lost
  if nobody waits; the vector is iterated and erased by different threads.
* **Tabs**: a task replaces or extends the list between two frames, while the
  selection and the selected text still refer to the old one; a task alone does
  not make the screen draw. It is correct if the screen comes to rest with the
  last result on it, the text shown belongs to a topic that is listed, and the
  user keeps the place in a list that only grows.
* **Hexdump**: an `int` is compared with an `unsigned` and wraps near the limit.
  It is correct if the loop ends, reads the data only, and prints all of it.
* **Start, recovery and exit**: objects that callbacks refer to are destroyed
  before the session whose threads run the callbacks is closed, at any moment of
  a recovery. It is correct if the `Session` and the library's session outlive
  the library's threads, `main` returns, a recovery does not go on for ever, and
  the log names the states.

`PROJECT.json` lists the hazards, each at its line and with the properties
that would notice it.

## 2. The modules

```
TopicFeed    <-- Feed ----- Session   <-- Session_proofs <-- SessionSafety_proofs
FetchResults <-- Results --'
(abstract)                  Animator  <-- Animator_proofs
                            Tabs      <-- Tabs_proofs
                            Lifecycle <-- Lifecycle_proofs
                            Hexdump   <-- Hexdump_proofs
```

`SessionFeed_proofs` and `SessionResults_proofs` both extend
`SessionSafety_proofs`.

### Session

The core: the session, the lambdas, the parts of the UI that start requests
and show results, and the library and the server as far as the client can tell.

*State and code.* `m_*` variables are the members of the same name (topics are
pairs of the fetch they belong to and a number; the selector is the number and
kind of the request that stored it). `ui` is where the UI thread is inside
`fetch` or `subscribe`; `m_operationMutex` is held exactly while it is not
`"idle"`, since every other critical section on it is one step (`OperationFree`).
`cb` holds the callback that each library thread runs: where it is (`entered`
waits for the mutex; `check` is the gap in `onSubscribeTopic`; `stop`, `take`
and `post` are the three statements of the lambdas) and its locals. `tasks` is
the queue of `screen.Post`, `shown`, `m_subscribe_topics` and `labels` what
MainComponent displays. `conv` is the library's table of conversations:
a fetch has two (`command` ends with the response or an error, `reply` carries
topics and the status message), a subscribe request one. `outbound` is its
queue, `serving` what the server has received and how it answers, `sent` and
`updates` what it has sent.

*Actions.* Each is one critical section or one statement outside of them:
`UserFetch` is `fetch` up to the call of the library; `AddCommand`, `AddReply`
and `SendFetch` that call, step by step because other threads run between the
steps; `Route...` deliver a message and enter the callback (`on_fetch` etc.);
`OnFetch...` and `OnSubscribe...` are the locked parts of the methods of that
name; `StopAnimator`, `TakeFetchTopics`, `TakeSubscribeTopics` and `Post` are
the lambdas; `RunTask` is the posted task; `LinkDown`, `Reconnect...`,
`Discard...` the loss of the connection.

### TopicFeed

What the subscription tab promises: every update that arrives is displayed
once, in order, and in the end. `Session` implements the safety part under
`received <- updates, displayed <- m_subscribe_topics`: the buffer, the gap
between its two critical sections, the callbacks and the tasks are invisible in
it. `FeedIsSafe` is that part, `FeedDelivers` all of `TopicFeed`, which a discarded
or a refused request can break (section 3).

### FetchResults

What the search tab promises: one fetch at a time, and at most one result for
each, never after that of a later fetch; a result is an error or all that was
found, and nothing may be left of it only if another fetch was made before it
was displayed. A fetch that has ended, or a later one, is displayed in the end.
`Session` implements it under `requested <- fetches, busy <-
m_fetch_in_progress, found <- sent, displayed <- shown`, with `MaxDrops = 0` and
`RepliesFirst`: `UserFetch` is `Request`, `RouteTopic` is `Find`, the locked part
of a callback that ends the fetch is `End`, `RunTask` is `Display`, and `m_topics`,
the callback and the task in between are invisible. `ResultsAreSafe` is the
safety part, `ResultsArrive` all of it. It says in one specification what
`OneFetch`, `NeverOlder` and `WholeResult` say of single states and steps, and more:
that no result appears while its fetch is in progress, and that no result is cut.

### Animator

`worker` follows the loop of the thread: about to take `m_m` and test the
predicate, blocked in `wait`, inside the `for_each` (the only place where `m_m`
is held over several steps), sleeping, exited. `notify_one` is a separate step
after the critical section, as in the code, and wakes the worker only if it is
blocked at that moment; a wakeup may be spurious.

### Tabs

A tab from its button to the frame. The search tab and the subscription tab
have a list and a `LogDisplayer` each and only the screen and the toggle in
common, so a behaviour observes one of them (`observed`); everything that
concerns the other is an event that makes the loop draw (`OtherEvent`), or
nothing. `m_topics`, `m_error_message` and `m_payload` stand for the members of
MainComponent that belong to the tab (`m_fetch_error_message` or
`m_subscribe_error_message`, and so on), `selected_`, `size` and `m_seltext` for
LogDisplayer's; a topic is named by its fetch and its place, and `m_seltext`,
the dump of a topic, by that topic.

`lambda` is the library's thread after it has cleared the flag of the request
(`EndFetch`, `EndSubscribe`) or has found it cleared (`OnSubscribeTopic`):
`PostTask` and `PostEvent` are the two calls of the lambdas in `main.cpp`, in any
interleaving with the UI thread. Fetches do not overlap here, which is what
`Session` shows (`OneFetch`); subscribe requests do, since `subscribe` does not
turn one away that is made during another. `EndFetch` and `EndSubscribe` also
take the topics, one step early: a request in between would find fewer of them,
which is among the results that they choose from. An update of a subscription
passes the buffer in `Session` (`FeedIsSafe`); here it is what `OnSubscribeTopic`
delivers. One library thread and one end for each request is what a connection
that holds has; a discard would be a second thread that does the same. `Listed` is the difference between the tabs: `onFetchCompleted` moves
the topics into `m_topics`, `onSubscribeCompleted` copies them to the end of
`m_subscribe_topics`.

`queue`, `animating` and `frame_valid` are the screen's loop as dmon uses it
(ftxui 5.0.0): it runs a posted task without drawing, and draws some time after
an event or an animation frame. `Render` may happen at any time while the frame
is out of date: after every event or after several. `drawn` is the last frame of
this tab: the list, the highlighted row, the content window and the status
line. `Key` is `LogDisplayer::OnEvent`, allowed at any time since the focus is
not modelled. `Render` reads `m_seltext` for the content window before
`RenderLines` sets it, as the code does, so the content is one frame behind the
highlight: `ContentFollows` says one frame, and no more. `Status` reads the flag
of the request once, where the code reads it in `Maybe` and again in the
renderer: a frame between whose reads the flag is cleared shows a window without
"In progress" in it, but the loop has then yet to handle the event that the lambda
posts after the flag was cleared, so that frame is never the last. After a completed fetch
only one frame is certain to be drawn, and so the content window may stay empty,
or show the old text, until the next event. This is not a finding: nothing in
the repository says otherwise.

### Lifecycle

`main` is where `main()` is: in `connect`, constructing its locals, in the
screen's loop or in a request that is made there (`fetch` before its first
conversation is opened, `reply` before the second, `subscribe`), and then the
object that it destroys next. `alive` is what exists, `at` what each library
thread is about to use. `state` is the library's `SESSION_STATE_T`, of which
`on_session_state_changed` logs every change; `attempts` counts the attempts to
reconnect against the strategy that `Session::connect` sets. The library closes
the session after the last, or when the server does, and then discards what is
open; `main` may call `session_close` at any point of that. An attempt uses the
session's credentials, a callback `m_operationMutex` or the vector of
notifications and then, unless it only stores or logs something, the animator and
the screen; `Continuations` says where each goes on. The initial connection is
made inside `session_create`, so the states before `CONNECTED_ACTIVE` are not
told apart.

Both mutexes are in the model. `m_operationMutex` is held while `main` is in a
request (`OperationFree`): a callback at one of the places in `Locking` waits for
it. The handler mutex is held while conversations are discarded (`HandlerFree`):
`OpenConversation` waits for it, and so does the thread that receives messages.
So the deadlock that `Session_lock_order` finds is in this module too
(`LockedOut`), and `RecoveryEnds` names it as the one thing that keeps the
conversations of a lost session from being discarded. A new session, or none, and
the lock that its discards hold appear in one step; the moment between them is in
`Session` (`"connected"`). Requests that are turned away, and what a request does
to the flags and the spinner, are in `Session`.

### Hexdump

One action per row of `operator<<`. The counter `i` is an `int`, `mLength` an
`unsigned`; `Unsigned` and `Signed` are the conversions that the comparison and
`i += RowSize` make, modulo `2 * RowSize * HalfRows`, which for rows of
64 bytes, 2^25 of which hold 2^31 (or of 32, and 2^26), is 2^32. A byte is named
by its place, so that `DumpIsData` tells bytes apart, and the digits it is
printed with are left out. Data of more than 2^31 bytes is outside of the module
(`DumpAssumption`): the program has no topic of that size, and the counter would
be negative while there is data left.

## 3. The runs

| run | bounds | what it shows |
|---|---|---|
| `Animator_threads` | 2 signals (the program has two), 2 threads that stop (the library has two) | signals stay unique, no wakeup is lost, the iteration meets no erased entry; the destructor returns, a registered spinner keeps ticking |
| `Session_fetch` | 3 fetches of 2 topics, 1 subscribe request, no drops | fetches do not overlap and have an ending, the spinner is not orphaned, results are whole and never older than what they replace; the safety part of `FetchResults` is implemented |
| `Session_live` | 2 fetches, 2 subscribe requests, 1 update, granted or refused, fair | fetches end, nothing holds the UI thread up in the session, `FetchResults` is implemented with its liveness, an update is displayed unless a refusal strands it in the buffer, and nothing else strands one; no two checkboxes are for the same request |
| `Session_drops` | 2 fetches of 1 topic, 1 subscribe request, 2 updates, 1 lost connection, queue of 1 | types, the spinner and the order of updates survive reconnections, discards, refusals and a full queue; the UI thread locks itself out only after more requests than the queue holds; a topic has one owner, also when a fetch is sent again and overlaps with the next |
| `Tabs_screen` | 2 requests, 3 topics (of one fetch; of all subscriptions) | the screen comes to rest with the last result, the text is of a listed topic, the content follows the highlight by one frame, the list of subscribed topics keeps its place |
| `Hexdump_rows` | rows of 2 bytes, integers of 12 values, data of every length up to half of that, every set of printable bytes | the loop ends, reads only the data, and prints it all, in order |
| `Teardown_exit` | 3 open conversations, 2 lost connections, fair | the session outlives its threads, exit completes, a recovery ends unless the two threads lock each other out, the log names the states |

Three fetches are what an overlap needs (one whose callback is late, one in
progress, one that is started by mistake), two topics what a partial result
needs; lists of up to three topics grow, shrink (to nothing, and to the selected
row exactly) and leave the selection before, at and behind their end; two
library threads are all there are; integers of 12 values reach the limit of
`int` with a full last row and with a part of one; two losses let the count of
attempts start again, three conversations are those of a fetch and of a subscribe
request; two subscribe requests and an update bring the second request into the
gap of `onSubscribeTopic`, and a refusal with the update in the buffer; one loss in `Session` brings every mixture of
old and new session that the flags can tell apart. Requests are numbered, so
their bounds are what makes the state space finite, and nothing resets them.

Violation runs: each checks one property that a document or a comment of the
repository states and the code does not keep (`findings` in `PROJECT.json`
quotes them).

| run | what TLC finds |
|---|---|
| `Session_response_first` | `on_fetch` means that the command was received; taken for the end of the fetch, it shows a result without the topics that follow |
| `Session_discarded_subscribe` | `on_subscribe_discard` leaves `m_subscribe_in_progress` set; updates stay in the buffer |
| `Session_no_connection` | a fetch is accepted while the connection is down |
| `Session_lock_order` | UI thread and session thread take `m_operationMutex` and the handler mutex in opposite orders |
| `Teardown_order` | credentials, animator and screen are used after their end |

### What the runs do not promise

The passing runs state the conditions under which the code keeps its promises.
`Session_fetch` and `Session_live` have `MaxDrops = 0` and, like
`Session_drops`, `RepliesFirst` (the server sends a fetch's topics before the
response). With a lost connection `OneFetch`, `FetchHasEnding`, `WholeResult`,
`NeverOlder` and `FetchResults` do not hold: a request that was queued is sent again on the new
session while its conversations are discarded, and its completion, already on
the way, is taken for that of a newer fetch; a fetch made without transport is
dropped by the library and stays in progress. What does hold then is
`TopicsHaveOneOwner`: the topics of overlapping fetches may be shown under the
wrong one or not at all, but not twice. `UiResponds` needs a queue that
does not fill (`Capacity` in `Session_live` exceeds what is ever queued):
`SendFails`, which `Session_drops` reaches, locks `m_operationMutex` on the
thread that holds it. `UiIsNotBlocked` is the safety half of it, and
`SelfLockNeedsFullQueue` what is left of it with lost connections: no such
second locking before more requests have been made than fit into the queue.
`FeedDelivers`, the liveness of `TopicFeed`, is in no passing run: a refusal
leaves buffered updates until the next update, and for ever if none comes
(`Stranded`). `UpdatesArrive` is `FeedDelivers` with that exception, and
`StrandedOnlyByRefusal` says that a refusal is the only way into it; a request that
is discarded is another matter, and a finding. `RecoveryEnds` makes an exception
for `LockedOut`, the deadlock of `Session_lock_order`. `LabelsAreDistinct` says
that a selector is used once, not that it is the right one: `fetch` and
`subscribe` share `m_selector`, and a fetch started while a subscribe request is
open gives the checkbox of that request its own selector, or none. The
repository does not say what the checkboxes are for (they have no effect yet),
so this is noted here and is not a finding.

`Session_drops` has `CHECK_DEADLOCK FALSE` because the deadlocks of
`Session_lock_order` and of the full queue are reached in it; its properties
are safety properties. `Teardown_exit` has it because of `LockedOut`, in which the
screen's loop is never left: `ExitCompletes` starts when the loop has been left,
and `RecoveryEnds` names the state. The violation runs turn it off for the same
reasons.

## 4. Fairness

`Session!FairSpec` has weak fairness on every thread's own steps: a thread that
can run does run, `screen.Loop` runs its tasks, the transport sends what is
queued while it is connected, an interruption ends (the library gives up after
its retries), and the server answers what it has received. Nothing is assumed
about the user, the connection, topics and updates. Weak fairness is enough
since a lock is waited for only while its owner takes finitely many steps.
`Animator!FairSpec` has strong fairness for the locked part of the destructor:
the worker takes `m_m` again and again, and the mutex is free for the 0.2 s of
its sleep each time. `Lifecycle!FairSpec` has weak fairness on the steps of
`main` other than making a request or leaving the screen's loop, which are the
user's, and fairness on the steps of the library's threads that follow a message:
nothing makes messages arrive,
the connection break or the user act or quit. It is strong for the library's
threads, which wait for `m_operationMutex` in their callbacks while the user may
make one request after another: the mutex is free between two of them, for as
long as a user takes to press a button. `RecoveryEnds` follows because an attempt
to reconnect ends and the attempts are counted. `Hexdump` and `Tabs` have no
liveness property: that the dump's loop ends is the safety property
`NoRowIsBlank`, and that the screen draws is stated of its state at rest.

## 5. Proofs

All theorems hold for every value of the constants that satisfies the named
assumptions (`ConstantsAssumption`: bounds are natural numbers, the queue holds
at least one message).

* `Animator_proofs`: `TypeCorrect`, `SignalsStayUnique`, `WakeupsAreNotLost`,
  `PostsAreRegistered`, for any signals and any set of stopping threads. The
  inductive invariant adds that nothing is left to post outside the locked
  block, and where the destructor is when `m_stop` is set (otherwise a notified
  worker that exited could not be told from one that missed a wakeup).
* `Session_proofs`: `TypeCorrect`. It includes `Len(outbound) <= Capacity`, so
  it is about the guard of the queue and not only about sorts.
* `SessionSafety_proofs`: `SpinnerIsNotOrphaned` holds with lost connections,
  refusals and full queues; the property is inductive given the types, and the
  proof goes through the actions that can disturb it. So does
  `OnlyRefusalsStrand`, of the action property `StrandedOnlyByRefusal`:
  `BufferStep` shows that no step but that of `onSubscribeError` takes a state in
  which the buffer is not stranded to one in which it is, and that step clears
  `m_subscribe_in_progress`, which is what was holding the updates back.
  `FetchIsNotStuck` and `FetchesDoNotOverlap` are proved for `MaxDrops = 0`,
  from one inductive invariant, `FetchInv`: a fetch in progress is in exactly
  one of three stages (about to open its command conversation, conversation
  open, callback about to end it), and outside them there is no command
  conversation. Neither property is inductive alone: that the conversation is
  the last fetch's rests on no other being open when a fetch is accepted.
  `SpinnerIsTakenByEarlier`, with lost connections, rests on `LateInv`: a
  callback that has yet to stop the spinner while a fetch is in progress is of an
  earlier fetch, because it cleared the flag, and only a later fetch can have set
  it again. `SelfLockIsRare`, also with lost connections, counts (`QueueInv`): a
  message in the queue, or about to be put there, is a request that was made.
  `UiIsNeverBlocked` is proved for `MaxDrops = 0` and `MaxSubscribes < Capacity`:
  `RoomInv` says that at most one fetch is in the queue or on its way there,
  since it is in progress, so the subscribe requests and one fetch need to fit. The
  second assumption is about the user, who can make any number of subscribe
  requests while the transport thread waits; the capacity is the library's.

* `SessionFeed_proofs`: `FeedIsImplemented`, that `Session` implements the
  safety part of `TopicFeed`, with lost connections, refusals and full queues.
  The invariant `FeedInv` counts: what is displayed, then the topics of each
  task in the screen's queue, then those that the callback on ws has taken, then
  the buffer and what is in its hands on the way there, are the numbers
  1, 2, ... up to `updates`. A step does one of four things to that line of
  updates (nothing; adds one at its end; runs the first task; moves topics from
  one place to the next), and only running a task is visible in `TopicFeed`. It
  rests on ws being the only thread that handles updates: `take` moves the
  whole buffer, and no second thread can post between it and its `post`.

* `SessionResults_proofs`: `LabelsStayDistinct`, with lost connections, refusals
  and full queues. `LabelsInv` says that a selector has one holder: `m_selector`,
  the callback of one of the two threads, a task in the screen's queue or a
  checkbox; and that it belongs to a request that has been made, so that the
  next one is new. The steps that move selectors are shown to be instances of
  `SelectorsMove`: every holder has its selector from one that had it before,
  and no two have it from the same. `ResultsStayInOrder` and `ResultsAreWhole`
  are proved for `MaxDrops = 0` on top of `FetchInv`, the second for a server
  that sends topics first (`RepliesFirst`). `OrderInv` orders the results on
  their way: the one shown, those in the screen's queue, the one in the
  callback. `WholeInv` says where the topics of the last fetch are: in
  `m_topics`, with the one that is arriving, until its callback takes them; and
  that a fetch made before the callback of the last one has taken its topics
  leaves nothing there for it to take.

  `ResultsAreImplemented`, that `Session` implements the safety part of
  `FetchResults`, needs both in a stronger form than the two properties do: in
  `OrderInv` the results on their way are of ever later fetches and of none that is
  in progress (`Past`), and in `WholeInv` each of them has all topics of its fetch or,
  once another was made, none. Four kinds of steps are visible in `FetchResults`; for
  each of the others, what it leaves alone is what the refinement mapping reads.
  The assumptions are those of `ResultsAreWhole`: `MaxDrops = 0` and
  `RepliesFirst`.

  `TopicsKeepOneOwner` has no such assumption: it holds with lost connections,
  with fetches that overlap, and whatever order the server answers in. The owner
  of a topic is `m_topics`, the callback of one of the two threads, a task in the
  queue or the screen; `OnceInv` adds that every topic that has an owner was sent, so
  that the next one is new. The steps that move topics are shown to be instances
  of `TopicsMove`, as those that move selectors are of `SelectorsMove`; what is
  needed of the code is that `getFetchTopics` moves the vector and does not copy
  it, in one critical section. `TopicsAreNotShownTwice` follows: a result has no
  topic of the one that it replaces on the screen. (With a copy in place of the
  move it takes three fetches and a lost connection to break this, and one step to
  break `TopicsHaveOneOwner`; so the run has the latter.)

* `Tabs_proofs`: `TypeCorrect`, `TextStaysListed`, `PlaceStays`,
  `ResultGetsDrawn` and `ContentAlwaysFollows`, for lists of any length. The
  invariant `SelectionInv` adds `selected_ <= size`: it is why a selection that
  `RenderLines` leaves alone is at most just past the end, the one exception
  that `TextIsListed` makes for the test `selected_ > topics.size()`. For the
  subscription tab `RowInv` says that the drawn list is a prefix of the list,
  `size` its length, and the selection a row of it, so that a highlighted row
  stays inside while the list grows. `ContentInv` ties `m_seltext` to the row
  highlighted in the last frame. `ResultIsDrawn` follows from two invariants:
  `ListInv`, that the tasks in the queue lead from the present list to the one
  that all results add up to, and `EventInv`, that a task is followed by an event,
  and so is a frame that does not show the list and the status as they are.

* `Lifecycle_proofs`: `TypeCorrect` (with `AttemptsInv`: fewer than
  `retry_count` attempts have been made whenever another can be started, and with
  room under the bound for the conversations of a request under way),
  `SessionIsLast` and `LogIsRight`. `SessionOutlivesThreads` is not inductive:
  `ThreadsInv` adds that no thread runs before `connect` has returned a session or after `session_close`
  has, and that in between the `Session` and the library's session exist.

* `Hexdump_proofs`: all four properties, for rows of any size and integers of
  any width that a number of rows fills (`TypeCorrect`, `OnlyDataIsRead`,
  `RowsAreNeeded`, `DumpIsFaithful`). The loop invariant is that the counter is
  `RowSize` times the number of rows while that is below the limit of `int`, and
  its negative image at the limit, which as an `unsigned` is no less than the
  length; this is where the bound on the data is used.

Only model-checked: liveness (`DestructorReturns`, `KeepsTicking`, `FetchEnds`,
`UiResponds`, `UpdatesArrive`, `ResultsArrive`, `ExitCompletes`, `RecoveryEnds`),
which is out of the prover's reach. What is safety in three of them is proved:
`UiIsNotBlocked`, `StrandedOnlyByRefusal` with `FeedIsSafe`, and `ResultsAreSafe`. The properties of the
violation runs are false of the code, so there is nothing to prove of them.

## 6. Abstractions

* A topic is a pair, an update its number, a selector the request it belongs
  to; types, paths, payloads and messages of errors are left out, as is
  `m_fetchStatus`, which is written and never read.
* `fetch` without a session is left out: `main` returns when `connect` fails.
  The callbacks' tests for a null message or error are left out: the model's
  messages are not null.
* A rejected request changes nothing and is a stuttering step.
* The server answers each request once; the outbound queue is sent in order.
* `Lifecycle` has the callbacks of `Session` as the objects and the locks that
  they use, and its requests as the locks that they hold and the conversations
  that they open; flags, topics and selectors are in `Session`.
* `Animator` and `Session` are separate: `Session` keeps the set of registered
  signals, which is what `Animator`'s `start` and `stop` do to it.

## 7. Plan

1. Done: Animator, TopicFeed, FetchResults, Session, Tabs, Lifecycle, Hexdump; the properties
   of each; type correctness of all of them, and the proofs of section 5, which
   cover every property of the passing runs that is not liveness.
2. Left to model: `Session` and `Animator` in one module, if the spinner of a
   running fetch is ever to be promised to turn.

## 8. Not modelled

* `unsubscribe`, `LineProducer`, `Animator::close`, `getLastFetchStatus`:
  nothing calls them.
* Argument parsing, logging other than the names of states, the dump file, the
  clipboard, the indexes of the spinners. The options `-r` and `-d` are parsed
  and not applied: `Session::connect` retries 3 times after 1000 ms, where their
  defaults in `main.cpp` are 5 and 2000. `Lifecycle` has the 3 of the code.
* `error2Str` and `topicType2Str`: look-ups without state. `state2String`, which
  is modelled, returns `????` for `SESSION_STATE_UNKNOWN` although its table has
  an entry for it; a session never gets into that state.
* The contents of the vector of notifications: nothing reads them.
* The spinner of a fetch standing still: the `animator.stop` of a fetch that has
  ended may remove the signal that the next one has just registered. Nothing in the
  repository promises that it turns; `SpinnerTakenByEarlier` shows that this is
  the only way for it to be lost.
* The library's own code, other than the behaviour named in section 1.

Most of the repository's lines are not the program's: `diffusion/include` holds
the headers of the Diffusion client library and of the libraries that it is
built on (apr, libwebsockets, expat and others), 34,459 of some 36,000
lines: declarations, with none of dmon's behaviour in them. Of the program
itself (`src/`, 1691 lines) more than half is mapped; the rest is includes,
declarations, layout, option parsing and what is listed above.
