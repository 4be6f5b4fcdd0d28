---- MODULE SnapshotStream ----
(***************************************************************************)
(* How a page follows the tester: SnapshotHub (control/snapshot_hub.py)    *)
(* whose task takes a snapshot and wakes the stream handlers               *)
(* (overview_api.py), their sockets, and the page's TrasvaseStreamClient   *)
(* and useTrasvaseData, which show what the stream brings and what a GET   *)
(* after an operation brings, in the order in which they arrive.           *)
(*                                                                         *)
(* A snapshot is the moment at which it was taken: how many times the      *)
(* state had changed.  Revisions are never compared but with the one a     *)
(* handler saw last: `behind` says that _revision exceeds it.  One page;   *)
(* the others have handlers and sockets of their own, and nobody waits for *)
(* them.  What the page does with the level history is in HistoryChart.    *)
(*                                                                         *)
(* A definition marked "Fault" is not the code: it is the definition after *)
(* it with a mistake in it, and the runs are known to tell the two apart.  *)
(***************************************************************************)
EXTENDS Integers, Sequences

CONSTANTS
  LastMoment,   \* bound: changes of the tester's state
  Mishaps,      \* bound: failures, restarts and departures of the page
  Buffered,     \* payloads that a socket holds on their way
  NoSnapshot    \* None

ASSUME BoundAssumption == LastMoment \in Nat /\ Mishaps \in Nat /\ Buffered \in Nat \ {0}
ASSUME NoSnapshotAssumption == NoSnapshot \notin Nat

VARIABLES
  moment,     \* changes of the state so far
  mishaps,    \* mishaps so far
  hub,        \* the task of SnapshotHub, the snapshot it is taking and the one it shares
  handler,    \* the coroutine that serves each socket
  link,       \* the sockets of the page
  wire,       \* payloads on their way on each socket
  page,       \* where useTrasvaseData and its stream client are
  get,        \* the GET under way
  shown,      \* the snapshot on the page
  streamed    \* history: the last one the stream brought it

vars == <<moment, mishaps, hub, handler, link, wire, page, get, shown, streamed>>
server == <<hub, handler>>

Moment == 0..LastMoment
\* Every socket but the first follows a mishap.
Socket == 1..(Mishaps + 1)
Hub == [task : {"asking", "publishing", "dead"}, taken : Moment,
        snapshot : Moment \union {NoSnapshot}]
Handler == [at : {"none", "waiting", "sending"}, behind : BOOLEAN, holds : Moment]
\* "failing": lost, and the page has yet to hear of it; "closing": closed by the page.
Link == {"unmade", "connecting", "open", "failing", "closing", "closed"}
Page == [at : {"away", "loading", "failed", "running"}, socket : Socket \union {0}, timer : BOOLEAN]
Get == [at : {"none", "asked", "answered"}, moment : Moment]

NoHandler == [at |-> "none", behind |-> FALSE, holds |-> 0]
NoGet == [at |-> "none", moment |-> 0]
Asked == [at |-> "asked", moment |-> 0]
BootHub == [task |-> "asking", taken |-> 0, snapshot |-> NoSnapshot]
Away == [at |-> "away", socket |-> 0, timer |-> FALSE]

Mishap == mishaps < Mishaps /\ mishaps' = mishaps + 1
IsOfUse(s) == link[s] \in {"connecting", "open", "failing"}

Init ==
  /\ moment = 0 /\ mishaps = 0
  /\ hub = BootHub
  /\ handler = [s \in Socket |-> NoHandler]
  /\ link = [s \in Socket |-> "unmade"]
  /\ wire = [s \in Socket |-> <<>>]
  /\ page = Away /\ get = NoGet /\ shown = NoSnapshot /\ streamed = 0

----
\* The tester.

StateChanges ==
  /\ moment < LastMoment /\ moment' = moment + 1
  /\ UNCHANGED <<mishaps, server, link, wire, page, get, shown, streamed>>

\* The sleep and the wait for the emulator's state are over.
Produce ==
  /\ hub.task = "asking"
  /\ hub' = [hub EXCEPT !.task = "publishing", !.taken = moment]
  /\ UNCHANGED <<moment, mishaps, handler, link, wire, page, get, shown, streamed>>

\* An exception of the producer: nothing restarts the task.
ProducerRaises ==
  /\ hub.task = "asking" /\ Mishap
  /\ hub' = [hub EXCEPT !.task = "dead"]
  /\ UNCHANGED <<moment, handler, link, wire, page, get, shown, streamed>>

\* Fault: a snapshot that repeats the last one is not announced.
PublishIfNew ==
  /\ hub.task = "publishing"
  /\ hub' = [hub EXCEPT !.task = "asking", !.snapshot = hub.taken]
  /\ handler' = IF hub.taken = hub.snapshot THEN handler
                ELSE [s \in Socket |-> [handler[s] EXCEPT !.behind = handler[s].at # "none"]]
  /\ UNCHANGED <<moment, mishaps, link, wire, page, get, shown, streamed>>

Publish ==
  /\ hub.task = "publishing"
  /\ hub' = [hub EXCEPT !.task = "asking", !.snapshot = hub.taken]
  /\ handler' = [s \in Socket |-> [handler[s] EXCEPT !.behind = handler[s].at # "none"]]
  /\ UNCHANGED <<moment, mishaps, link, wire, page, get, shown, streamed>>

\* Fault: a revision is waited for, but no snapshot.
WaitNextUnset(s) ==
  /\ handler[s].at = "waiting" /\ handler[s].behind
  /\ handler' = [handler EXCEPT ![s] = [at |-> "sending", behind |-> FALSE,
                                        holds |-> hub.snapshot]]
  /\ UNCHANGED <<moment, mishaps, hub, link, wire, page, get, shown, streamed>>

WaitNext(s) ==
  /\ handler[s].at = "waiting" /\ handler[s].behind /\ hub.snapshot # NoSnapshot
  /\ handler' = [handler EXCEPT ![s] = [at |-> "sending", behind |-> FALSE,
                                        holds |-> hub.snapshot]]
  /\ UNCHANGED <<moment, mishaps, hub, link, wire, page, get, shown, streamed>>

Send(s) ==
  /\ handler[s].at = "sending" /\ link[s] = "open" /\ Len(wire[s]) < Buffered
  /\ wire' = [wire EXCEPT ![s] = Append(@, handler[s].holds)]
  /\ handler' = [handler EXCEPT ![s].at = "waiting", ![s].holds = 0]
  /\ UNCHANGED <<moment, mishaps, hub, link, page, get, shown, streamed>>

\* Fault: the loop goes on after a disconnection.
SendRaisesIgnored(s) ==
  /\ handler[s].at = "sending" /\ link[s] \in {"failing", "closing", "closed"}
  /\ handler' = [handler EXCEPT ![s].at = "waiting", ![s].holds = 0]
  /\ UNCHANGED <<moment, mishaps, hub, link, wire, page, get, shown, streamed>>

\* The handler learns only here that nobody listens.
SendRaises(s) ==
  /\ handler[s].at = "sending" /\ link[s] \in {"failing", "closing", "closed"}
  /\ handler' = [handler EXCEPT ![s] = NoHandler]
  /\ UNCHANGED <<moment, mishaps, hub, link, wire, page, get, shown, streamed>>

Restart ==
  /\ Mishap
  /\ hub' = BootHub
  /\ handler' = [s \in Socket |-> NoHandler]
  /\ link' = [s \in Socket |-> IF link[s] \in {"connecting", "open"} THEN "failing" ELSE link[s]]
  /\ UNCHANGED <<moment, wire, page, get, shown, streamed>>

----
\* The network.

\* The server accepts, and its handler asks for a revision after -1.
Accept(s) ==
  /\ link[s] = "connecting"
  /\ link' = [link EXCEPT ![s] = "open"]
  /\ handler' = [handler EXCEPT ![s] = [at |-> "waiting", behind |-> TRUE, holds |-> 0]]
  /\ UNCHANGED <<moment, mishaps, hub, wire, page, get, shown, streamed>>

LinkFails(s) ==
  /\ link[s] \in {"connecting", "open"} /\ Mishap
  /\ link' = [link EXCEPT ![s] = "failing"]
  /\ UNCHANGED <<moment, server, wire, page, get, shown, streamed>>

GetAnswered ==
  /\ get.at = "asked"
  /\ get' = [at |-> "answered", moment |-> moment]
  /\ UNCHANGED <<moment, mishaps, server, link, wire, page, shown, streamed>>

----
\* The page.

NextSocket == CHOOSE s \in Socket : link[s] = "unmade"

Connect ==
  /\ \E s \in Socket : link[s] = "unmade"
  /\ link' = [link EXCEPT ![NextSocket] = "connecting"]
  /\ page' = [at |-> "running", socket |-> NextSocket, timer |-> FALSE]

\* The effect asks for the four documents, the snapshot among them.
Mount ==
  /\ page.at = "away"
  /\ page' = [Away EXCEPT !.at = "loading"]
  /\ get' = Asked
  /\ UNCHANGED <<moment, mishaps, server, link, wire, shown, streamed>>

Loaded ==
  /\ page.at = "loading" /\ get.at = "answered"
  /\ shown' = get.moment /\ get' = NoGet
  /\ Connect
  /\ UNCHANGED <<moment, mishaps, server, wire, streamed>>

\* An operator's request changes the state; then the page asks for the snapshot.
Execute ==
  /\ page.at = "running" /\ get = NoGet
  /\ moment < LastMoment /\ moment' = moment + 1
  /\ get' = Asked
  /\ UNCHANGED <<mishaps, server, link, wire, page, shown, streamed>>

Refreshed ==
  /\ page.at = "running" /\ get.at = "answered"
  /\ shown' = get.moment /\ get' = NoGet
  /\ UNCHANGED <<moment, mishaps, server, link, wire, page, streamed>>

GetFails ==
  /\ get.at # "none" /\ Mishap
  /\ get' = NoGet
  /\ page' = [page EXCEPT !.at = IF @ = "loading" THEN "failed" ELSE @]
  /\ UNCHANGED <<moment, server, link, wire, shown, streamed>>

\* What reached the browser before a failure is delivered until the page hears of it.
Message(s) ==
  /\ link[s] \in {"open", "failing"} /\ wire[s] # <<>>
  /\ wire' = [wire EXCEPT ![s] = Tail(@)]
  /\ shown' = Head(wire[s]) /\ streamed' = Head(wire[s])
  /\ UNCHANGED <<moment, mishaps, server, link, page, get>>

\* Browsers refuse close(1003): the error is shown and the socket stays open.
MessageRejected(s) ==
  /\ link[s] \in {"open", "failing"} /\ wire[s] # <<>> /\ Mishap
  /\ wire' = [wire EXCEPT ![s] = Tail(@)]
  /\ UNCHANGED <<moment, server, link, page, get, shown, streamed>>

\* Fault: any socket that closes sets the timer.
CloseEventOfAny(s) ==
  /\ link[s] \in {"failing", "closing"}
  /\ link' = [link EXCEPT ![s] = "closed"]
  /\ wire' = [wire EXCEPT ![s] = <<>>]
  /\ page' = [page EXCEPT !.timer = @ \/ page.at = "running"]
  /\ UNCHANGED <<moment, mishaps, server, get, shown, streamed>>

\* Fault: only the first loss is followed by another connection.
CloseEventOnce(s) ==
  /\ link[s] \in {"failing", "closing"}
  /\ link' = [link EXCEPT ![s] = "closed"]
  /\ wire' = [wire EXCEPT ![s] = <<>>]
  /\ page' = [page EXCEPT !.timer = @ \/ (page.at = "running" /\ page.socket = s /\ s = 1)]
  /\ UNCHANGED <<moment, mishaps, server, get, shown, streamed>>

CloseEvent(s) ==
  /\ link[s] \in {"failing", "closing"}
  /\ link' = [link EXCEPT ![s] = "closed"]
  /\ wire' = [wire EXCEPT ![s] = <<>>]
  /\ page' = [page EXCEPT !.timer = @ \/ (page.at = "running" /\ page.socket = s)]
  /\ UNCHANGED <<moment, mishaps, server, get, shown, streamed>>

TimerFires ==
  /\ page.timer
  /\ Connect
  /\ UNCHANGED <<moment, mishaps, server, wire, get, shown, streamed>>

\* Fault: stop forgets the socket and leaves it open.
UnmountUnclosed ==
  /\ page.at # "away" /\ Mishap
  /\ page' = Away /\ get' = NoGet
  /\ UNCHANGED <<moment, server, link, wire, shown, streamed>>

\* The effect is cleaned up: its GET is void and the stream stops.
Unmount ==
  /\ page.at # "away" /\ Mishap
  /\ page' = Away /\ get' = NoGet
  /\ link' = [s \in Socket |-> IF s = page.socket /\ IsOfUse(s) THEN "closing" ELSE link[s]]
  /\ UNCHANGED <<moment, server, wire, shown, streamed>>

----
HubRuns == Produce \/ Publish
HandlerRuns(s) == WaitNext(s) \/ Send(s) \/ SendRaises(s)
ConnectionsMove == TimerFires \/ \E s \in Socket : Accept(s) \/ CloseEvent(s)
MessagesArrive == \E s \in Socket : Message(s)
AnswersArrive == GetAnswered \/ Loaded \/ Refreshed

Next ==
  \/ HubRuns \/ \E s \in Socket : HandlerRuns(s)
  \/ ConnectionsMove \/ MessagesArrive \/ AnswersArrive
  \/ StateChanges \/ Mount \/ Execute
  \/ ProducerRaises \/ Restart \/ GetFails \/ Unmount
  \/ \E s \in Socket : LinkFails(s) \/ MessageRejected(s)

Spec == Init /\ [][Next]_vars

\* The event loops of both sides run what is ready, a network that does not fail delivers,
\* and answers come.  Nothing obliges an operator, a mishap or a page to be opened.
FairSpec ==
  /\ Spec
  /\ WF_vars(HubRuns) /\ \A s \in Socket : WF_vars(HandlerRuns(s))
  /\ WF_vars(ConnectionsMove) /\ WF_vars(MessagesArrive) /\ WF_vars(AnswersArrive)

----
StreamTypeOK ==
  /\ moment \in Moment /\ mishaps \in 0..Mishaps
  /\ hub \in Hub
  /\ handler \in [Socket -> Handler]
  /\ link \in [Socket -> Link]
  /\ wire \in [Socket -> Seq(Moment)]
  /\ page \in Page
  /\ get \in Get
  /\ shown \in Moment \union {NoSnapshot} /\ streamed \in Moment

\* However often the page comes and goes and its sockets fail, at most one of them can
\* still deliver, it is the one the client holds, and no timer is about to make another
\* (connect, stop and the close handler).
OneLiveSocket ==
  \A s \in Socket : IsOfUse(s) => page.at = "running" /\ page.socket = s /\ ~page.timer

\* A client that runs always has a socket to hear from, or the timer that makes one: no
\* failure leaves it without both (connect and the close handler).
NeverStranded ==
  page.at = "running" => page.timer \/ (page.socket # 0 /\ IsOfUse(page.socket))

\* The stream never takes back what it brought, across lost sockets, restarts of the
\* tester and departures of the page (wait_next, stream, connect).
StreamKeepsOrder == [][streamed' >= streamed]_vars

\* Once the state rests, a page whose client runs comes to show it and stays there, also
\* if a GET answered long before arrived last, as long as the hub lives (_run, execute).
CatchesUp ==
  <>[](page.at = "running" /\ hub.task # "dead") => <>[](shown = moment)

\* The handlers of sockets that are gone come to an end, again and again, as long as the
\* hub publishes (stream).
HandlersEnd ==
  []<>(hub.task = "publishing") =>
    []<>(\A s \in Socket : link[s] = "closed" => handler[s] = NoHandler)

====
