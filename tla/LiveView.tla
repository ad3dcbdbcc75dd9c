------------------------------ MODULE LiveView ------------------------------
(***************************************************************************)
(* The event stream and the screens that follow it: app/stream.py, the      *)
(* handlers and the release loop that publish to it, and the hook           *)
(* web/shared/useLive.js.  Two threads write: the event-loop thread, which  *)
(* also opens streams, forwards events and answers fetches, and the worker  *)
(* thread of release_due.  The stream is a signal, not the state: an event  *)
(* makes a screen fetch its whole view again, so a view is abstracted to    *)
(* the number of committed events it was read after, and an event to        *)
(* whether the hook listens to its type.                                    *)
(***************************************************************************)
EXTENDS Integers, Sequences, FiniteSets

CONSTANTS
  Screens,      \* open pages of the barista and display views
  QueueLimit,   \* QUEUE_LIMIT
  ReplayLimit,  \* the limit of events_since
  InFlight,     \* bound on one page's unanswered fetches
  MaxEvents,    \* bound on order_events
  MaxFailures   \* bound on the fetches that fail

VARIABLES
  log,      \* the committed order_events, seq = index; "signal" or "silent"
  web,      \* seqs the event-loop thread has committed and not yet announced
  loop,     \* the pass of release_due: resting, writing, or announcing
  subs,     \* _subscribers
  queue,    \* queue[c]: the asyncio.Queue of c's stream
  wire,     \* wire[c]: events sent to c that have not arrived
  stage,    \* stage[c]: "down", "opening" (subscribed, onopen still to fire), "live"
  lastId,   \* lastId[c]: Last-Event-ID, 0 before the first event
  asked,    \* asked[c]: fetches on their way to the server
  answers,  \* answers[c]: the views on their way back
  served,   \* served[c]: the newest view ever read for c (history)
  screen,   \* screen[c]: the view on display, 0 for the empty one
  failures

vars == <<log, web, loop, subs, queue, wire, stage, lastId, asked, answers,
          served, screen, failures>>
page   == <<asked, answers, served, screen, failures>>
socket == <<subs, queue, wire, stage, lastId>>

ASSUME LiveAssumption ==
  /\ QueueLimit \in Nat \ {0} /\ ReplayLimit \in Nat \ {0} /\ InFlight \in Nat \ {0}
  /\ MaxEvents \in Nat /\ MaxFailures \in Nat

Kind == {"signal", "silent"}
Resting == [at |-> "resting"]

LiveTypeOK ==
  /\ log \in Seq(Kind)
  /\ web \in Seq(Nat)
  /\ loop \in {Resting} \cup [at : {"writing"}, kinds : Seq(Kind), todo : Seq(Nat)]
                        \cup [at : {"committed"}, todo : Seq(Nat)]
  /\ subs \subseteq Screens
  /\ queue \in [Screens -> Seq(Nat)]
  /\ \A c \in Screens : Len(queue[c]) <= QueueLimit
  /\ wire \in [Screens -> Seq(Nat)]
  /\ stage \in [Screens -> {"down", "opening", "live"}]
  /\ lastId \in [Screens -> Nat]
  /\ asked \in [Screens -> Nat]
  /\ answers \in [Screens -> SUBSET Nat]
  /\ served \in [Screens -> Nat]
  /\ screen \in [Screens -> Nat]
  /\ failures \in Nat
-----------------------------------------------------------------------------
(* Committing and announcing *)

\* What one request or one release logs: an order placed or moved, placed with
\* a promise, or a basket amended.  The hook listens to moves only.
Writes == { <<"signal">>, <<"signal", "silent">>, <<"silent">> }
Release == <<"signal", "silent">>

Seqs(kinds) == [ i \in 1..Len(kinds) |-> Len(log) + i ]

\* Slip: one more than the queue holds.
HasRoomForOneMore(c) == Len(queue[c]) <= QueueLimit

HasRoom(c) == Len(queue[c]) < QueueLimit

\* publish: put_nowait on every queue; a full one is thrown out.
Announce(s) ==
  /\ queue' = [ c \in Screens |-> IF c \in subs /\ HasRoom(c) THEN Append(queue[c], s)
                                                              ELSE queue[c] ]
  /\ subs' = { c \in subs : HasRoom(c) }

\* A handler that logs something, up to its commit.  The write lock is free.
WebCommit(kinds) ==
  /\ web = <<>> /\ loop.at # "writing"
  /\ Len(log) + Len(kinds) <= MaxEvents
  /\ log' = log \o kinds
  /\ web' = Seqs(kinds)
  /\ UNCHANGED <<loop, socket, page>>

WebPublish ==
  /\ web # <<>>
  /\ Announce(Head(web))
  /\ web' = Tail(web)
  /\ UNCHANGED <<log, loop, wire, stage, lastId, page>>

\* release_due flushes events under the write lock, then commits or fails.
LoopWrite ==
  /\ loop = Resting
  /\ Len(log) + Len(Release) <= MaxEvents
  /\ loop' = [at |-> "writing", kinds |-> Release, todo |-> Seqs(Release)]
  /\ UNCHANGED <<log, web, socket, page>>

LoopCommit ==
  /\ loop.at = "writing"
  /\ log' = log \o loop.kinds
  /\ loop' = [at |-> "committed", todo |-> loop.todo]
  /\ UNCHANGED <<web, socket, page>>

LoopRollback ==
  /\ loop.at = "writing"
  /\ loop' = Resting
  /\ UNCHANGED <<log, web, socket, page>>

\* Slip: announcing what was flushed and not yet committed.
MayAnnounceFlushed == loop.at \in {"writing", "committed"}

MayAnnounce == loop.at = "committed"

LoopPublish ==
  /\ MayAnnounce
  /\ loop.todo # <<>>
  /\ Announce(Head(loop.todo))
  /\ loop' = [loop EXCEPT !.todo = Tail(@)]
  /\ UNCHANGED <<log, web, wire, stage, lastId, page>>

LoopDone ==
  /\ loop.at = "committed" /\ loop.todo = <<>>
  /\ loop' = Resting
  /\ UNCHANGED <<log, web, socket, page>>
-----------------------------------------------------------------------------
(* A stream *)

\* What the page asks for again when its stream opens.  Slip: nothing, the
\* stream will say if anything changes.
NoRefreshOnOpen(c) == 0

RefreshOnOpen(c) == 1

\* events_since: what a reconnecting page missed, from Last-Event-ID on.
Missed(c) ==
  LET n == Len(log) - lastId[c]
  IN  IF lastId[c] = 0 \/ n <= 0 THEN <<>>
      ELSE [ i \in 1..(IF n < ReplayLimit THEN n ELSE ReplayLimit) |-> lastId[c] + i ]

\* GET /stream, by the browser's own reconnecting: subscribe, then replay.
OpenStream(c) ==
  /\ web = <<>>
  /\ stage[c] = "down"
  /\ stage' = [stage EXCEPT ![c] = "opening"]
  /\ subs' = subs \cup {c}
  /\ wire' = [wire EXCEPT ![c] = Missed(c)]
  /\ UNCHANGED <<log, web, loop, queue, lastId, page>>

\* source.onopen
OnOpen(c) ==
  /\ stage[c] = "opening"
  /\ asked[c] + Cardinality(answers[c]) < InFlight
  /\ stage' = [stage EXCEPT ![c] = "live"]
  /\ asked' = [asked EXCEPT ![c] = @ + RefreshOnOpen(c)]
  /\ UNCHANGED <<log, web, loop, subs, queue, wire, lastId, answers, served, screen, failures>>

\* The publisher coroutine sends what its queue holds, thrown out or not.
Forward(c) ==
  /\ web = <<>>
  /\ stage[c] # "down" /\ queue[c] # <<>>
  /\ wire' = [wire EXCEPT ![c] = Append(@, Head(queue[c]))]
  /\ queue' = [queue EXCEPT ![c] = Tail(@)]
  /\ UNCHANGED <<log, web, loop, subs, stage, lastId, page>>

\* An event arrives; one the hook listens to makes it fetch.
Receive(c) ==
  LET s == Head(wire[c]) IN
  /\ stage[c] = "live" /\ wire[c] # <<>>
  /\ asked[c] + Cardinality(answers[c]) < InFlight
  /\ lastId' = [lastId EXCEPT ![c] = s]
  /\ wire' = [wire EXCEPT ![c] = Tail(@)]
  /\ asked' = [asked EXCEPT ![c] = IF log[s] = "signal" THEN @ + 1 ELSE @]
  /\ UNCHANGED <<log, web, loop, subs, queue, stage, answers, served, screen, failures>>

\* Cafe wifi.  The server finds out later; the queue it drops then is nobody's.
Disconnect(c) ==
  /\ stage[c] # "down"
  /\ stage' = [stage EXCEPT ![c] = "down"]
  /\ subs' = subs \ {c}
  /\ queue' = [queue EXCEPT ![c] = <<>>]
  /\ wire' = [wire EXCEPT ![c] = <<>>]
  /\ UNCHANGED <<log, web, loop, lastId, page>>
-----------------------------------------------------------------------------
(* A page *)

\* Slip: trusting the stream for as long as it is connected.
RefreshesWhenDown(c) == stage[c] = "down"

RefreshesAlways(c) == TRUE

\* setInterval(refresh, SAFETY_REFRESH_MS)
SafetyRefresh(c) ==
  /\ RefreshesAlways(c)
  /\ asked[c] + Cardinality(answers[c]) < InFlight
  /\ asked' = [asked EXCEPT ![c] = @ + 1]
  /\ UNCHANGED <<log, web, loop, socket, answers, served, screen, failures>>

\* GET /queue or /display: the tables as committed.
ServeFetch(c) ==
  /\ web = <<>>
  /\ asked[c] > 0
  /\ asked' = [asked EXCEPT ![c] = @ - 1]
  /\ answers' = [answers EXCEPT ![c] = @ \cup {Len(log)}]
  /\ served' = [served EXCEPT ![c] = Len(log)]
  /\ UNCHANGED <<log, web, loop, socket, screen, failures>>

\* Answers may overtake each other; the last to arrive is displayed.
Arrive(c, v) ==
  /\ v \in answers[c]
  /\ answers' = [answers EXCEPT ![c] = @ \ {v}]
  /\ screen' = [screen EXCEPT ![c] = v]
  /\ UNCHANGED <<log, web, loop, socket, asked, served, failures>>

FetchFails(c, v) ==
  /\ v \in answers[c]
  /\ failures < MaxFailures
  /\ failures' = failures + 1
  /\ answers' = [answers EXCEPT ![c] = @ \ {v}]
  /\ UNCHANGED <<log, web, loop, socket, asked, served, screen>>

\* Every page has mounted: its first fetch is out, its stream not yet open.
Init ==
  /\ log = <<>> /\ web = <<>> /\ loop = Resting
  /\ subs = {}
  /\ queue = [c \in Screens |-> <<>>]
  /\ wire = [c \in Screens |-> <<>>]
  /\ stage = [c \in Screens |-> "down"]
  /\ lastId = [c \in Screens |-> 0]
  /\ asked = [c \in Screens |-> 1]
  /\ answers = [c \in Screens |-> {}]
  /\ served = [c \in Screens |-> 0]
  /\ screen = [c \in Screens |-> 0]
  /\ failures = 0

LoopEnds == LoopCommit \/ LoopRollback \/ LoopPublish \/ LoopDone

ScreenStep(c) ==
  \/ OpenStream(c) \/ OnOpen(c) \/ Forward(c) \/ Receive(c) \/ Disconnect(c)
  \/ SafetyRefresh(c) \/ ServeFetch(c)
  \/ \E v \in 0..Len(log) : Arrive(c, v) \/ FetchFails(c, v)

Next ==
  \/ \E kinds \in Writes : WebCommit(kinds)
  \/ WebPublish \/ LoopWrite \/ LoopEnds
  \/ \E c \in Screens : ScreenStep(c)

Spec == Init /\ [][Next]_vars

\* Threads finish what they are doing, the interval fires, the server answers
\* and answers arrive.  Nothing is assumed of the stream.
FairSpec ==
  /\ Spec
  /\ WF_vars(WebPublish) /\ WF_vars(LoopEnds)
  /\ \A c \in Screens :
       /\ WF_vars(SafetyRefresh(c)) /\ WF_vars(ServeFetch(c))
       /\ \A v \in 0..MaxEvents : WF_vars(Arrive(c, v))
-----------------------------------------------------------------------------
(* Properties *)

\* Nothing is broadcast until it is committed: no event in any queue or on any
\* wire that a rollback could still take back (app/stream.py, DbEventLog).
BroadcastIsCommitted ==
  \A c \in Screens :
    /\ \A i \in 1..Len(queue[c]) : queue[c][i] <= Len(log)
    /\ \A i \in 1..Len(wire[c]) : wire[c][i] <= Len(log)

Coming(s, c) ==
  \/ \E i \in 1..Len(queue[c]) : queue[c][i] = s
  \/ \E i \in 1..Len(wire[c]) : wire[c][i] = s
  \/ \E i \in 1..Len(web) : web[i] = s
  \/ loop.at = "committed" /\ \E i \in 1..Len(loop.todo) : loop.todo[i] = s

\* A page whose stream is up and was not thrown out for being slow never misses
\* a change for good: whatever moved since the server last read the view for it
\* is announced to it, on its way to it, or already being asked about.  This is
\* what subscribing before the first fetch, fetching on every open and
\* publishing after the commit are for.
NothingSlipsBy ==
  \A c \in subs : stage[c] = "live" =>
    \A s \in (served[c] + 1)..Len(log) :
      log[s] = "signal" => asked[c] > 0 \/ Coming(s, c)

\* Once the cafe goes quiet every screen shows it as it is and stays so: after
\* lost streams and failed fetches, answers that overtook each other, a queue
\* that overflowed and events the hook does not listen to.
ScreensSettle == \A c \in Screens : <>[](screen[c] = Len(log))
=============================================================================
