---- MODULE SnapshotStream_proofs ----
(***************************************************************************)
(* Proofs about SnapshotStream, for every bound of its constants: the page *)
(* has one way to the hub and what comes along it keeps its order.         *)
(***************************************************************************)
EXTENDS SnapshotStream, TLAPS

(***************************************************************************)
(* The inductive invariant.  OneLiveSocket and NeverStranded need to know  *)
(* when the timer runs and that a client that runs has a socket of its     *)
(* own.  The order needs every moment on its way to lie between what was   *)
(* streamed and what the hub will share next, so that neither a payload    *)
(* nor a handler that starts from the beginning brings an older one.       *)
(***************************************************************************)
ConnectionInv ==
  /\ OneLiveSocket
  /\ NeverStranded
  /\ page.timer => page.at = "running"
  /\ \A s \in Socket : link[s] = "unmade" => wire[s] = <<>>

Past(m) ==
  /\ m <= moment
  /\ hub.task = "publishing" => m <= hub.taken
  /\ hub.snapshot # NoSnapshot => m <= hub.snapshot

HubInv ==
  /\ hub.snapshot # NoSnapshot => hub.snapshot <= moment
  /\ hub.task = "publishing" =>
       hub.taken <= moment /\ (hub.snapshot # NoSnapshot => hub.snapshot <= hub.taken)

WireInv(s) ==
  \A i \in 1..Len(wire[s]) :
    /\ streamed <= wire[s][i] /\ Past(wire[s][i])
    /\ \A j \in i..Len(wire[s]) : wire[s][i] <= wire[s][j]

SendingInv(s) ==
  handler[s].at = "sending" =>
    /\ streamed <= handler[s].holds /\ Past(handler[s].holds)
    /\ \A i \in 1..Len(wire[s]) : wire[s][i] <= handler[s].holds

OrderInv ==
  /\ Past(streamed) /\ HubInv
  /\ \A s \in Socket : IsOfUse(s) => WireInv(s)
  /\ \A s \in Socket : link[s] = "open" => SendingInv(s)

StreamInv == StreamTypeOK /\ ConnectionInv /\ OrderInv

----
(***************************************************************************)
(* Types.                                                                  *)
(***************************************************************************)


\* The socket that connect makes is one that did not exist.
LEMMA NextSocketIsUnmade ==
  ASSUME \E s \in Socket : link[s] = "unmade"
  PROVE  NextSocket \in Socket /\ link[NextSocket] = "unmade"
  BY DEF NextSocket

LEMMA NoRecords ==
  /\ NoHandler \in Handler /\ NoGet \in Get /\ Asked \in Get
  /\ BootHub \in Hub /\ Away \in Page
  BY BoundAssumption
     DEF NoHandler, Handler, NoGet, Get, Asked, BootHub, Hub, Away, Page, Moment, Socket

LEMMA InitTypeOK == Init => StreamTypeOK
  BY NoRecords, BoundAssumption DEF Init, StreamTypeOK, Moment, Link

\* The steps of the tester.
LEMMA ServerTypeOK ==
  ASSUME StreamTypeOK,
         StateChanges \/ HubRuns \/ ProducerRaises \/ Restart
           \/ \E s \in Socket : HandlerRuns(s)
  PROVE  StreamTypeOK'
<1>0. /\ hub \in Hub /\ handler \in [Socket -> Handler] /\ link \in [Socket -> Link]
      /\ wire \in [Socket -> Seq(Moment)] /\ moment \in Moment /\ mishaps \in 0..Mishaps
  BY DEF StreamTypeOK
<1>1. CASE StateChanges
  <2>1. moment' \in Moment
    BY <1>0, <1>1, BoundAssumption DEF StateChanges, Moment
  <2> QED  BY <1>1, <2>1 DEF StateChanges, server, StreamTypeOK
<1>2. CASE Produce
  <2>1. hub' \in Hub
    BY <1>0, <1>2 DEF Produce, Hub
  <2> QED  BY <1>2, <2>1 DEF Produce, StreamTypeOK
<1>3. CASE Publish
  <2>1. hub' \in Hub
    BY <1>0, <1>3 DEF Publish, Hub
  <2>2. handler' \in [Socket -> Handler]
    BY <1>0, <1>3 DEF Publish, Handler
  <2> QED  BY <1>3, <2>1, <2>2 DEF Publish, StreamTypeOK
<1>4. CASE ProducerRaises
  <2>1. hub' \in Hub /\ mishaps' \in 0..Mishaps
    BY <1>0, <1>4, BoundAssumption DEF ProducerRaises, Hub, Mishap
  <2> QED  BY <1>4, <2>1 DEF ProducerRaises, StreamTypeOK
<1>5. CASE Restart
  <2>1. mishaps' \in 0..Mishaps /\ hub' \in Hub
    BY <1>0, <1>5, NoRecords, BoundAssumption DEF Restart, Mishap
  <2>2. handler' \in [Socket -> Handler]
    BY <1>5, NoRecords DEF Restart
  <2>3. link' \in [Socket -> Link]
    BY <1>0, <1>5 DEF Restart, Link
  <2> QED  BY <1>5, <2>1, <2>2, <2>3 DEF Restart, StreamTypeOK
<1>6. ASSUME NEW s \in Socket, HandlerRuns(s) PROVE StreamTypeOK'
  <2>1. CASE WaitNext(s)
    <3>1. [at |-> "sending", behind |-> FALSE, holds |-> hub.snapshot] \in Handler
      BY <1>0, <2>1 DEF WaitNext, Hub, Handler
    <3>2. handler' \in [Socket -> Handler]
      BY <1>0, <2>1, <3>1 DEF WaitNext
    <3> QED  BY <2>1, <3>2 DEF WaitNext, StreamTypeOK
  <2>2. CASE Send(s)
    <3>1. handler[s].holds \in Moment /\ 0 \in Moment
      BY <1>0, BoundAssumption DEF Handler, Moment
    <3>. [handler[s] EXCEPT !.at = "waiting", !.holds = 0] \in Handler
      BY <1>0, <3>1 DEF Handler
    <3>4. handler' \in [Socket -> Handler]
      BY <1>0, <2>2 DEF Send
    <3>2. Append(wire[s], handler[s].holds) \in Seq(Moment)
      BY <1>0, <3>1
    <3>3. wire' \in [Socket -> Seq(Moment)]
      BY <1>0, <2>2, <3>2 DEF Send
    <3> QED  BY <2>2, <3>3, <3>4 DEF Send, StreamTypeOK
  <2>3. CASE SendRaises(s)
    <3>1. handler' \in [Socket -> Handler]
      BY <1>0, <2>3, NoRecords DEF SendRaises
    <3> QED  BY <2>3, <3>1 DEF SendRaises, StreamTypeOK
  <2> QED  BY <1>6, <2>1, <2>2, <2>3 DEF HandlerRuns
<1> QED
  BY <1>1, <1>2, <1>3, <1>4, <1>5, <1>6 DEF HubRuns

\* The steps of a socket.
LEMMA SocketTypeOK ==
  ASSUME StreamTypeOK, NEW s \in Socket,
         Accept(s) \/ LinkFails(s) \/ Message(s) \/ MessageRejected(s) \/ CloseEvent(s)
  PROVE  StreamTypeOK'
<1>0. /\ handler \in [Socket -> Handler] /\ link \in [Socket -> Link]
      /\ wire \in [Socket -> Seq(Moment)] /\ mishaps \in 0..Mishaps /\ page \in Page
  BY DEF StreamTypeOK
<1>1. CASE Accept(s)
  <2>1. [at |-> "waiting", behind |-> TRUE, holds |-> 0] \in Handler
    BY BoundAssumption DEF Handler, Moment
  <2>2. handler' \in [Socket -> Handler]
    BY <1>0, <1>1, <2>1 DEF Accept
  <2>3. link' \in [Socket -> Link]
    BY <1>0, <1>1 DEF Accept, Link
  <2> QED  BY <1>1, <2>2, <2>3 DEF Accept, StreamTypeOK
<1>2. CASE LinkFails(s)
  <2>1. link' \in [Socket -> Link] /\ mishaps' \in 0..Mishaps
    BY <1>0, <1>2, BoundAssumption DEF LinkFails, Link, Mishap
  <2> QED  BY <1>2, <2>1 DEF LinkFails, server, StreamTypeOK
<1>3. CASE Message(s)
  <2>1. Head(wire[s]) \in Moment /\ Tail(wire[s]) \in Seq(Moment)
    BY <1>0, <1>3 DEF Message
  <2>2. wire' \in [Socket -> Seq(Moment)] /\ shown' \in Moment /\ streamed' \in Moment
    BY <1>0, <1>3, <2>1 DEF Message
  <2> QED  BY <1>3, <2>2 DEF Message, server, StreamTypeOK
<1>4. CASE MessageRejected(s)
  <2>1. Tail(wire[s]) \in Seq(Moment)
    BY <1>0, <1>4 DEF MessageRejected
  <2>2. wire' \in [Socket -> Seq(Moment)] /\ mishaps' \in 0..Mishaps
    BY <1>0, <1>4, <2>1, BoundAssumption DEF MessageRejected, Mishap
  <2> QED  BY <1>4, <2>2 DEF MessageRejected, server, StreamTypeOK
<1>5. CASE CloseEvent(s)
  <2>1. link' \in [Socket -> Link] /\ wire' \in [Socket -> Seq(Moment)]
    BY <1>0, <1>5 DEF CloseEvent, Link
  <2>2. page' \in Page
    BY <1>0, <1>5 DEF CloseEvent, Page
  <2> QED  BY <1>5, <2>1, <2>2 DEF CloseEvent, server, StreamTypeOK
<1> QED
  BY <1>1, <1>2, <1>3, <1>4, <1>5

\* The steps of the page, and the answers to its requests.
LEMMA PageTypeOK ==
  ASSUME StreamTypeOK,
         AnswersArrive \/ TimerFires \/ Mount \/ Execute \/ GetFails \/ Unmount
  PROVE  StreamTypeOK'
<1>0. /\ link \in [Socket -> Link] /\ mishaps \in 0..Mishaps /\ page \in Page /\ get \in Get
      /\ moment \in Moment
  BY DEF StreamTypeOK
<1>1. CASE GetAnswered
  <2>1. get' \in Get
    BY <1>0, <1>1 DEF GetAnswered, Get
  <2> QED  BY <1>1, <2>1 DEF GetAnswered, server, StreamTypeOK
<1>2. ASSUME Connect PROVE link' \in [Socket -> Link] /\ page' \in Page
  BY <1>0, <1>2, NextSocketIsUnmade DEF Connect, Link, Page
<1>3. CASE Loaded
  <2>1. get' \in Get /\ shown' \in Moment
    BY <1>0, <1>3, NoRecords DEF Loaded, Get
  <2> QED  BY <1>2, <1>3, <2>1 DEF Loaded, server, StreamTypeOK
<1>4. CASE Refreshed
  <2>1. get' \in Get /\ shown' \in Moment
    BY <1>0, <1>4, NoRecords DEF Refreshed, Get
  <2> QED  BY <1>4, <2>1 DEF Refreshed, server, StreamTypeOK
<1>5. CASE TimerFires
  BY <1>2, <1>5 DEF TimerFires, server, StreamTypeOK
<1>6. CASE Mount
  <2>1. page' \in Page /\ get' \in Get
    BY <1>6, NoRecords DEF Mount, Page
  <2> QED  BY <1>6, <2>1 DEF Mount, server, StreamTypeOK
<1>7. CASE Execute
  <2>1. moment' \in Moment /\ get' \in Get
    BY <1>0, <1>7, NoRecords, BoundAssumption DEF Execute, Moment
  <2> QED  BY <1>7, <2>1 DEF Execute, server, StreamTypeOK
<1>8. CASE GetFails
  <2>1. page' \in Page /\ get' \in Get /\ mishaps' \in 0..Mishaps
    BY <1>0, <1>8, NoRecords, BoundAssumption DEF GetFails, Page, Mishap
  <2> QED  BY <1>8, <2>1 DEF GetFails, server, StreamTypeOK
<1>9. CASE Unmount
  <2>1. page' \in Page /\ get' \in Get /\ mishaps' \in 0..Mishaps
    BY <1>0, <1>9, NoRecords, BoundAssumption DEF Unmount, Mishap
  <2>2. link' \in [Socket -> Link]
    BY <1>0, <1>9 DEF Unmount, Link
  <2> QED  BY <1>9, <2>1, <2>2 DEF Unmount, server, StreamTypeOK
<1> QED
  BY <1>1, <1>3, <1>4, <1>5, <1>6, <1>7, <1>8, <1>9 DEF AnswersArrive

LEMMA NextTypeOK == StreamTypeOK /\ [Next]_vars => StreamTypeOK'
<1>1. ASSUME StreamTypeOK, UNCHANGED vars PROVE StreamTypeOK'
  BY <1>1 DEF vars, StreamTypeOK
<1> QED
  BY <1>1, ServerTypeOK, SocketTypeOK, PageTypeOK
     DEF Next, ConnectionsMove, MessagesArrive

----
(***************************************************************************)
(* One way to the hub.                                                     *)
(***************************************************************************)

LEMMA InitConnection == Init => ConnectionInv
  BY DEF Init, ConnectionInv, OneLiveSocket, NeverStranded, IsOfUse, Away

\* A step that leaves the page alone and neither makes nor ends a socket.
LEMMA SameConnection ==
  ASSUME ConnectionInv, page' = page,
         \A s \in Socket : /\ IsOfUse(s)' <=> IsOfUse(s)
                           /\ link'[s] = "unmade" => link[s] = "unmade" /\ wire'[s] = wire[s]
         , page.socket \in Socket \union {0}
  PROVE  ConnectionInv'
  BY DEF ConnectionInv, OneLiveSocket, NeverStranded

LEMMA ServerConnection ==
  ASSUME StreamTypeOK, ConnectionInv,
         StateChanges \/ HubRuns \/ ProducerRaises \/ Restart
           \/ \E s \in Socket : HandlerRuns(s)
  PROVE  ConnectionInv'
<1>0. /\ link \in [Socket -> Link] /\ wire \in [Socket -> Seq(Moment)]
      /\ page.socket \in Socket \union {0}
  BY DEF StreamTypeOK, Page
<1>1. CASE StateChanges \/ HubRuns \/ ProducerRaises
           \/ \E s \in Socket : WaitNext(s) \/ SendRaises(s)
  <2>1. UNCHANGED <<link, wire, page>>
    BY <1>1 DEF StateChanges, HubRuns, Produce, Publish, ProducerRaises, WaitNext, SendRaises
  <2> QED  BY <1>0, <2>1, SameConnection DEF IsOfUse
<1>2. CASE Restart
  <2>1. /\ page' = page /\ wire' = wire
        /\ \A s \in Socket : link'[s] = IF link[s] \in {"connecting", "open"} THEN "failing"
                                        ELSE link[s]
    BY <1>2 DEF Restart
  <2> QED  BY <1>0, <2>1, SameConnection DEF IsOfUse
<1>3. ASSUME NEW s \in Socket, Send(s) PROVE ConnectionInv'
  <2>1. /\ UNCHANGED <<link, page>> /\ link[s] = "open"
        /\ \A other \in Socket \ {s} : wire'[other] = wire[other]
    BY <1>0, <1>3 DEF Send
  <2> QED  BY <1>0, <2>1, SameConnection DEF IsOfUse
<1> QED
  BY <1>1, <1>2, <1>3 DEF HandlerRuns

LEMMA SocketConnection ==
  ASSUME StreamTypeOK, ConnectionInv, NEW s \in Socket,
         Accept(s) \/ LinkFails(s) \/ Message(s) \/ MessageRejected(s) \/ CloseEvent(s)
  PROVE  ConnectionInv'
<1>0. /\ link \in [Socket -> Link] /\ wire \in [Socket -> Seq(Moment)] /\ page \in Page
      /\ page.socket \in Socket \union {0}
  BY DEF StreamTypeOK, Page
<1>1. CASE Accept(s) \/ LinkFails(s)
  <2>1. /\ UNCHANGED <<page, wire>> /\ link[s] \in {"connecting", "open"}
        /\ link'[s] \in {"open", "failing"}
        /\ \A other \in Socket \ {s} : link'[other] = link[other]
    BY <1>0, <1>1 DEF Accept, LinkFails
  <2> QED  BY <1>0, <2>1, SameConnection DEF IsOfUse
<1>2. CASE Message(s) \/ MessageRejected(s)
  <2>1. /\ UNCHANGED <<page, link>> /\ link[s] \in {"open", "failing"}
        /\ \A other \in Socket \ {s} : wire'[other] = wire[other]
    BY <1>0, <1>2 DEF Message, MessageRejected
  <2> QED  BY <1>0, <2>1, SameConnection DEF IsOfUse
<1>3. CASE CloseEvent(s)
  <2>1. /\ link[s] \in {"failing", "closing"} /\ link'[s] = "closed" /\ wire'[s] = <<>>
        /\ \A other \in Socket \ {s} : link'[other] = link[other] /\ wire'[other] = wire[other]
    BY <1>0, <1>3 DEF CloseEvent
  <2>2. /\ page'.at = page.at /\ page'.socket = page.socket
        /\ page'.timer = (page.timer \/ (page.at = "running" /\ page.socket = s))
    BY <1>0, <1>3 DEF CloseEvent, Page
  <2>3. OneLiveSocket'
    <3> SUFFICES ASSUME NEW other \in Socket, IsOfUse(other)'
                 PROVE  page'.at = "running" /\ page'.socket = other /\ ~page'.timer
      BY DEF OneLiveSocket
    <3>1. other # s /\ IsOfUse(other)
      BY <2>1 DEF IsOfUse
    <3> QED  BY <2>2, <3>1 DEF ConnectionInv, OneLiveSocket
  <2>4. NeverStranded'
    BY <1>0, <2>1, <2>2 DEF ConnectionInv, NeverStranded, IsOfUse
  <2> QED  BY <2>1, <2>2, <2>3, <2>4 DEF ConnectionInv
<1> QED
  BY <1>1, <1>2, <1>3

\* connect is called when nothing is of use, and makes the one thing that is.
LEMMA ConnectConnection ==
  ASSUME StreamTypeOK, ConnectionInv, Connect, wire' = wire,
         page.at = "loading" \/ page.timer
  PROVE  ConnectionInv'
<1>1. /\ NextSocket \in Socket /\ link[NextSocket] = "unmade" /\ 0 \notin Socket
  BY NextSocketIsUnmade, BoundAssumption DEF Connect, Socket
<1>2. /\ link'[NextSocket] = "connecting"
      /\ \A other \in Socket \ {NextSocket} : link'[other] = link[other]
      /\ page' = [at |-> "running", socket |-> NextSocket, timer |-> FALSE]
  BY <1>1 DEF Connect, StreamTypeOK
<1>3. \A s \in Socket : ~IsOfUse(s)
  BY DEF ConnectionInv, OneLiveSocket
<1>4. \A s \in Socket : IsOfUse(s)' <=> s = NextSocket
  BY <1>1, <1>2, <1>3 DEF IsOfUse
<1> QED
  BY <1>1, <1>2, <1>4 DEF ConnectionInv, OneLiveSocket, NeverStranded

LEMMA PageConnection ==
  ASSUME StreamTypeOK, ConnectionInv,
         AnswersArrive \/ TimerFires \/ Mount \/ Execute \/ GetFails \/ Unmount
  PROVE  ConnectionInv'
<1>0. page \in Page /\ page.socket \in Socket \union {0} /\ link \in [Socket -> Link]
  BY DEF StreamTypeOK, Page
<1>1. CASE GetAnswered \/ Refreshed \/ Execute
  <2>1. UNCHANGED <<link, wire, page>>
    BY <1>1 DEF GetAnswered, Refreshed, Execute
  <2> QED  BY <1>0, <2>1, SameConnection DEF IsOfUse
<1>2. CASE Loaded \/ TimerFires
  BY <1>2, ConnectConnection DEF Loaded, TimerFires
<1>3. CASE Mount
  <2>1. UNCHANGED <<link, wire>> /\ page.at = "away" /\ page'.at = "loading" /\ ~page'.timer
    BY <1>3 DEF Mount, Away
  <2> QED  BY <2>1 DEF ConnectionInv, OneLiveSocket, NeverStranded, IsOfUse
<1>4. CASE GetFails
  <2>1. /\ UNCHANGED <<link, wire>> /\ page'.socket = page.socket /\ page'.timer = page.timer
        /\ page'.at = IF page.at = "loading" THEN "failed" ELSE page.at
    BY <1>0, <1>4 DEF GetFails, Page
  <2> QED  BY <2>1 DEF ConnectionInv, OneLiveSocket, NeverStranded, IsOfUse
<1>5. CASE Unmount
  <2>1. /\ wire' = wire /\ page' = Away
        /\ \A s \in Socket :
             link'[s] = IF s = page.socket /\ IsOfUse(s) THEN "closing" ELSE link[s]
    BY <1>5 DEF Unmount
  <2>2. \A s \in Socket : ~IsOfUse(s)'
    BY <2>1 DEF ConnectionInv, OneLiveSocket, IsOfUse
  <2> QED  BY <2>1, <2>2 DEF ConnectionInv, OneLiveSocket, NeverStranded, Away
<1> QED
  BY <1>1, <1>2, <1>3, <1>4, <1>5 DEF AnswersArrive

LEMMA NextConnection == StreamTypeOK /\ ConnectionInv /\ [Next]_vars => ConnectionInv'
<1>1. ASSUME ConnectionInv, UNCHANGED vars PROVE ConnectionInv'
  BY <1>1 DEF vars, ConnectionInv, OneLiveSocket, NeverStranded, IsOfUse
<1> QED
  BY <1>1, ServerConnection, SocketConnection, PageConnection
     DEF Next, ConnectionsMove, MessagesArrive

----
(***************************************************************************)
(* The order.                                                              *)
(***************************************************************************)

LEMMA InitOrder == Init => OrderInv
  BY DEF Init, OrderInv, Past, HubInv, IsOfUse, BootHub

\* A step that brings nothing to the page, puts nothing on a wire and lets no handler send.
LEMMA SameOrder ==
  ASSUME StreamTypeOK, OrderInv, streamed' = streamed, HubInv',
         \A m \in Moment : Past(m) => Past(m)',
         \A s \in Socket : IsOfUse(s)' => wire'[s] = wire[s] /\ (IsOfUse(s) \/ wire'[s] = <<>>),
         \A s \in Socket : link'[s] = "open" /\ handler'[s].at = "sending" =>
                             /\ link[s] = "open" /\ handler[s].at = "sending"
                             /\ handler'[s].holds = handler[s].holds
  PROVE  OrderInv'
<1>0. /\ streamed \in Moment /\ wire \in [Socket -> Seq(Moment)]
      /\ handler \in [Socket -> Handler]
  BY DEF StreamTypeOK
<1>1. Past(streamed)'
  BY <1>0 DEF OrderInv
<1>2. ASSUME NEW s \in Socket, IsOfUse(s)' PROVE WireInv(s)'
  <2>1. CASE wire'[s] = <<>>
    BY <2>1 DEF WireInv
  <2>2. CASE IsOfUse(s)
    <3>1. WireInv(s) /\ wire'[s] = wire[s]
      BY <1>2, <2>2 DEF OrderInv
    <3>2. \A i \in 1..Len(wire[s]) : wire[s][i] \in Moment
      BY <1>0
    <3> QED  BY <3>1, <3>2 DEF WireInv
  <2> QED  BY <1>2, <2>1, <2>2
<1>3. ASSUME NEW s \in Socket, link'[s] = "open" PROVE SendingInv(s)'
  <2>1. CASE handler'[s].at # "sending"
    BY <2>1 DEF SendingInv
  <2>2. CASE handler'[s].at = "sending"
    <3>1. link[s] = "open" /\ handler[s].at = "sending" /\ handler'[s].holds = handler[s].holds
      BY <1>3, <2>2
    <3>2. wire'[s] = wire[s]
      BY <1>3 DEF IsOfUse
    <3>3. handler[s].holds \in Moment
      BY <1>0 DEF Handler
    <3>4. SendingInv(s)
      BY <3>1 DEF OrderInv
    <3>5. Past(handler[s].holds)'
      <4>1. \A m \in Moment : Past(m) => Past(m)'
        OBVIOUS
      <4>2. Past(handler[s].holds)
        BY <3>1, <3>4 DEF SendingInv
      <4> QED  BY <3>1, <3>3, <4>1, <4>2 DEF Past
    <3> QED  BY <3>1, <3>2, <3>4, <3>5 DEF SendingInv
  <2> QED  BY <2>1, <2>2
<1> QED
  BY <1>1, <1>2, <1>3 DEF OrderInv

LEMMA MomentsAreNumbers ==
  ASSUME StreamTypeOK
  PROVE  /\ moment \in Int /\ hub.taken \in Int /\ streamed \in Int
         /\ hub.snapshot # NoSnapshot => hub.snapshot \in Int
         /\ Moment \subseteq Int
  BY BoundAssumption DEF StreamTypeOK, Hub, Moment

LEMMA ServerOrder ==
  ASSUME StreamTypeOK, OrderInv, StateChanges \/ HubRuns \/ ProducerRaises \/ Restart
  PROVE  OrderInv'
<1>0. /\ hub \in Hub /\ moment \in Moment /\ handler \in [Socket -> Handler]
      /\ Moment \subseteq Int /\ NoSnapshot \notin Moment
  BY NoSnapshotAssumption, BoundAssumption DEF StreamTypeOK, Moment
<1>1. CASE StateChanges
  <2>1. UNCHANGED <<hub, handler, link, wire, streamed>> /\ moment' = moment + 1
    BY <1>1 DEF StateChanges, server
  <2>2. HubInv' /\ \A m \in Moment : Past(m) => Past(m)'
    BY <2>1, MomentsAreNumbers DEF OrderInv, HubInv, Past
  <2> QED  BY <2>1, <2>2, SameOrder DEF IsOfUse
<1>2. CASE Produce
  <2>1. UNCHANGED <<moment, handler, link, wire, streamed>>
    BY <1>2 DEF Produce
  <2>2. hub'.task = "publishing" /\ hub'.taken = moment /\ hub'.snapshot = hub.snapshot
    BY <1>0, <1>2 DEF Produce, Hub
  <2>3. HubInv' /\ \A m \in Moment : Past(m) => Past(m)'
    BY <1>0, <2>1, <2>2 DEF OrderInv, HubInv, Past
  <2> QED  BY <2>1, <2>3, SameOrder DEF IsOfUse
<1>3. CASE Publish
  <2>1. UNCHANGED <<moment, link, wire, streamed>>
    BY <1>3 DEF Publish
  <2>2. hub'.task = "asking" /\ hub'.snapshot = hub.taken /\ hub.task = "publishing"
    BY <1>0, <1>3 DEF Publish, Hub
  <2>3. HubInv' /\ \A m \in Moment : Past(m) => Past(m)'
    BY <1>0, <2>1, <2>2 DEF OrderInv, HubInv, Past
  <2>4. \A s \in Socket : handler'[s].at = handler[s].at /\ handler'[s].holds = handler[s].holds
    BY <1>0, <1>3 DEF Publish, Handler
  <2> QED  BY <2>1, <2>3, <2>4, SameOrder DEF IsOfUse
<1>4. CASE ProducerRaises
  <2>1. UNCHANGED <<moment, handler, link, wire, streamed>>
    BY <1>4 DEF ProducerRaises
  <2>2. hub'.task = "dead" /\ hub'.snapshot = hub.snapshot
    BY <1>0, <1>4 DEF ProducerRaises, Hub
  <2>3. HubInv' /\ \A m \in Moment : Past(m) => Past(m)'
    BY <1>0, <2>1, <2>2 DEF OrderInv, HubInv, Past
  <2> QED  BY <2>1, <2>3, SameOrder DEF IsOfUse
<1>5. CASE Restart
  <2>1. UNCHANGED <<moment, wire, streamed>> /\ hub' = BootHub
    BY <1>5 DEF Restart
  <2>2. HubInv' /\ \A m \in Moment : Past(m) => Past(m)'
    BY <1>0, <2>1 DEF OrderInv, HubInv, Past, BootHub
  <2>3. \A s \in Socket : handler'[s].at = "none"
    BY <1>5 DEF Restart, NoHandler
  <2>4. \A s \in Socket : IsOfUse(s)' => IsOfUse(s)
    BY <1>5 DEF Restart, IsOfUse
  <2> QED  BY <2>1, <2>2, <2>3, <2>4, SameOrder
<1> QED
  BY <1>1, <1>2, <1>3, <1>4, <1>5 DEF HubRuns

LEMMA HandlerOrder ==
  ASSUME StreamTypeOK, OrderInv, NEW s \in Socket, HandlerRuns(s)
  PROVE  OrderInv'
<1>0. /\ handler \in [Socket -> Handler] /\ wire \in [Socket -> Seq(Moment)] /\ hub \in Hub
      /\ Moment \subseteq Int /\ NoSnapshot \notin Moment /\ streamed \in Moment
  BY NoSnapshotAssumption, BoundAssumption DEF StreamTypeOK, Moment
<1>1. CASE WaitNext(s)
  <2>1. UNCHANGED <<moment, hub, link, wire, streamed>> /\ hub.snapshot # NoSnapshot
    BY <1>1 DEF WaitNext
  <2>2. /\ handler'[s].holds = hub.snapshot
        /\ \A other \in Socket \ {s} : handler'[other] = handler[other]
    BY <1>0, <1>1 DEF WaitNext
  <2>3. hub.snapshot \in Moment
    BY <1>0, <2>1 DEF Hub
  <2>4. Past(hub.snapshot) /\ \A m : Past(m) => m <= hub.snapshot
    BY <2>1, MomentsAreNumbers DEF OrderInv, HubInv, Past
  <2>5. \A m : Past(m)' <=> Past(m)
    BY <2>1 DEF Past
  <2>6. Past(streamed)' /\ HubInv'
    BY <2>1, <2>5 DEF OrderInv, HubInv
  <2>7. ASSUME NEW other \in Socket, IsOfUse(other)' PROVE WireInv(other)'
    BY <2>1, <2>5, <2>7 DEF OrderInv, WireInv, IsOfUse
  <2>8. ASSUME NEW other \in Socket, link'[other] = "open" PROVE SendingInv(other)'
    <3>1. SendingInv(other) /\ WireInv(other)
      BY <2>1, <2>8 DEF OrderInv, IsOfUse
    <3>2. CASE other # s
      BY <2>1, <2>2, <2>5, <3>1, <3>2 DEF SendingInv
    <3>3. CASE other = s
      <4>1. streamed <= hub.snapshot
        BY <2>4 DEF OrderInv
      <4>2. \A i \in 1..Len(wire[s]) : wire[s][i] <= hub.snapshot
        BY <2>4, <3>1, <3>3 DEF WireInv
      <4> QED  BY <2>1, <2>2, <2>4, <2>5, <3>3, <4>1, <4>2 DEF SendingInv
    <3> QED  BY <3>2, <3>3
  <2> QED  BY <2>6, <2>7, <2>8 DEF OrderInv
<1>2. CASE Send(s)
  <2> DEFINE m == handler[s].holds
             w == wire[s]
  <2>1. /\ UNCHANGED <<moment, hub, link, streamed>>
        /\ link[s] = "open" /\ handler[s].at = "sending"
    BY <1>2 DEF Send
  <2>2. /\ wire'[s] = Append(w, m)
        /\ \A other \in Socket \ {s} : wire'[other] = wire[other]
    BY <1>0, <1>2 DEF Send
  <2>3. /\ handler'[s].at = "waiting"
        /\ \A other \in Socket \ {s} : handler'[other] = handler[other]
    BY <1>0, <1>2 DEF Send, Handler
  <2>4. m \in Moment /\ w \in Seq(Moment)
    BY <1>0 DEF Handler
  <2>5. \A x : Past(x)' <=> Past(x)
    BY <2>1 DEF Past
  <2>6. Past(streamed)' /\ HubInv'
    BY <2>1, <2>5 DEF OrderInv, HubInv
  <2>7. /\ streamed <= m /\ Past(m) /\ \A i \in 1..Len(w) : w[i] <= m
        /\ WireInv(s)
    BY <2>1 DEF OrderInv, SendingInv, IsOfUse
  <2>8. WireInv(s)'
    <3> HIDE DEF m, w
    <3>1. /\ Len(Append(w, m)) = Len(w) + 1 /\ Len(w) \in Nat
          /\ \A i \in 1..Len(w) : Append(w, m)[i] = w[i]
          /\ Append(w, m)[Len(w) + 1] = m
      BY <2>4
    <3>2. \A i \in 1..Len(w) : /\ streamed <= w[i] /\ Past(w[i])
                               /\ \A j \in i..Len(w) : w[i] <= w[j]
      BY <2>7 DEF WireInv, w
    <3>3. m <= m
      BY <1>0, <2>4
    <3> SUFFICES ASSUME NEW i \in 1..(Len(w) + 1)
                 PROVE  /\ streamed <= Append(w, m)[i] /\ Past(Append(w, m)[i])
                        /\ \A j \in i..(Len(w) + 1) : Append(w, m)[i] <= Append(w, m)[j]
      BY <2>1, <2>2, <2>5, <3>1 DEF WireInv
    <3>4. CASE i = Len(w) + 1
      BY <2>7, <3>1, <3>3, <3>4
    <3>5. CASE i \in 1..Len(w)
      <4>1. \A j \in i..(Len(w) + 1) : j \in i..Len(w) \/ j = Len(w) + 1
        BY <3>1
      <4>2. \A j \in i..(Len(w) + 1) : Append(w, m)[i] <= Append(w, m)[j]
        BY <2>7, <3>1, <3>2, <3>5, <4>1
      <4> QED  BY <3>1, <3>2, <3>5, <4>2
    <3> QED  BY <3>1, <3>4, <3>5
  <2>9. ASSUME NEW other \in Socket, IsOfUse(other)' PROVE WireInv(other)'
    BY <2>1, <2>2, <2>5, <2>8, <2>9 DEF OrderInv, WireInv, IsOfUse
  <2>10. ASSUME NEW other \in Socket, link'[other] = "open" PROVE SendingInv(other)'
    <3>1. CASE other = s
      BY <2>3, <3>1 DEF SendingInv
    <3>2. CASE other # s
      BY <2>1, <2>2, <2>3, <2>5, <2>10, <3>2 DEF OrderInv, SendingInv
    <3> QED  BY <3>1, <3>2
  <2> QED  BY <2>6, <2>9, <2>10 DEF OrderInv
<1>3. CASE SendRaises(s)
  <2>1. /\ UNCHANGED <<moment, hub, link, wire, streamed>>
        /\ link[s] # "open"
        /\ \A other \in Socket \ {s} : handler'[other] = handler[other]
    BY <1>0, <1>3 DEF SendRaises
  <2>2. HubInv' /\ \A m \in Moment : Past(m) => Past(m)'
    BY <2>1 DEF OrderInv, HubInv, Past
  <2> QED  BY <2>1, <2>2, SameOrder DEF IsOfUse
<1> QED
  BY <1>1, <1>2, <1>3 DEF HandlerRuns

LEMMA SocketOrder ==
  ASSUME StreamTypeOK, ConnectionInv, OrderInv, NEW s \in Socket,
         Accept(s) \/ LinkFails(s) \/ Message(s) \/ MessageRejected(s) \/ CloseEvent(s)
  PROVE  OrderInv' /\ streamed' >= streamed
<1>0. /\ handler \in [Socket -> Handler] /\ wire \in [Socket -> Seq(Moment)]
      /\ link \in [Socket -> Link] /\ Moment \subseteq Int /\ streamed \in Moment
  BY BoundAssumption DEF StreamTypeOK, Moment
<1>1. CASE Accept(s) \/ LinkFails(s) \/ CloseEvent(s)
  <2>1. UNCHANGED <<moment, hub, streamed>>
    BY <1>1 DEF Accept, LinkFails, CloseEvent, server
  <2>2. HubInv' /\ \A m \in Moment : Past(m) => Past(m)'
    BY <2>1 DEF OrderInv, HubInv, Past
  <2>3. \A o \in Socket : IsOfUse(o)' => wire'[o] = wire[o] /\ IsOfUse(o)
    BY <1>0, <1>1 DEF Accept, LinkFails, CloseEvent, IsOfUse
  <2>4. \A o \in Socket : link'[o] = "open" /\ handler'[o].at = "sending" =>
          link[o] = "open" /\ handler'[o] = handler[o]
    BY <1>0, <1>1 DEF Accept, LinkFails, CloseEvent, server
  <2> QED  BY <1>0, <2>1, <2>2, <2>3, <2>4, SameOrder
<1>2. CASE Message(s) \/ MessageRejected(s)
  <2> DEFINE w == wire[s]
  <2>1. /\ UNCHANGED <<moment, hub, handler, link>> /\ IsOfUse(s) /\ w # <<>>
        /\ streamed' = Head(w) \/ streamed' = streamed
    BY <1>2 DEF Message, MessageRejected, server, IsOfUse
  <2>2. wire'[s] = Tail(w)
    BY <1>0, <1>2 DEF Message, MessageRejected
  <2>3. w \in Seq(Moment)
    BY <1>0
  <2>4. /\ Len(w) \in Nat \ {0} /\ Head(w) = w[1] /\ 1 \in 1..Len(w)
        /\ Len(Tail(w)) = Len(w) - 1
        /\ \A i \in 1..(Len(w) - 1) : Tail(w)[i] = w[i + 1]
    BY <2>1, <2>3
  <2>5. WireInv(s)
    BY <2>1 DEF OrderInv
  <2> HIDE DEF w
  <2>6. \A x : Past(x)' <=> Past(x)
    BY <2>1 DEF Past
  <2>7. /\ \A i \in 1..Len(w) : /\ streamed <= w[i] /\ w[1] <= w[i] /\ Past(w[i])
                               /\ \A j \in i..Len(w) : w[i] <= w[j]
    BY <2>4, <2>5 DEF WireInv, w
  <2>8. /\ streamed' >= streamed /\ Past(streamed)'
        /\ \A i \in 1..Len(w) : streamed' <= w[i]
    <3>1. streamed <= w[1] /\ Past(w[1]) /\ w[1] \in Moment
      BY <2>3, <2>4, <2>7
    <3> QED  BY <1>0, <2>1, <2>4, <2>6, <2>7, <3>1 DEF OrderInv
  <2>9. WireInv(s)'
    <3> SUFFICES ASSUME NEW i \in 1..(Len(w) - 1)
                 PROVE  /\ streamed' <= Tail(w)[i] /\ Past(Tail(w)[i])
                        /\ \A j \in i..(Len(w) - 1) : Tail(w)[i] <= Tail(w)[j]
      BY <2>2, <2>4, <2>6 DEF WireInv
    <3>1. /\ i + 1 \in 1..Len(w) /\ Tail(w)[i] = w[i + 1]
          /\ \A j \in i..(Len(w) - 1) : j + 1 \in (i + 1)..Len(w) /\ Tail(w)[j] = w[j + 1]
      BY <2>4
    <3> QED  BY <2>7, <2>8, <3>1
  <2>10. \A o \in Socket : IsOfUse(o)' => o = s
    BY <2>1 DEF ConnectionInv, OneLiveSocket, IsOfUse
  <2>11. ASSUME link'[s] = "open" PROVE SendingInv(s)'
    <3> SUFFICES ASSUME handler[s].at = "sending"
                 PROVE  /\ streamed' <= handler[s].holds /\ Past(handler[s].holds)
                        /\ \A i \in 1..(Len(w) - 1) : Tail(w)[i] <= handler[s].holds
      BY <2>1, <2>2, <2>4, <2>6 DEF SendingInv
    <3>1. /\ streamed <= handler[s].holds /\ Past(handler[s].holds)
          /\ \A i \in 1..Len(w) : w[i] <= handler[s].holds
      BY <2>1, <2>11 DEF OrderInv, SendingInv, w
    <3>2. \A i \in 1..(Len(w) - 1) : i + 1 \in 1..Len(w) /\ Tail(w)[i] = w[i + 1]
      BY <2>4
    <3> QED  BY <2>1, <2>4, <3>1, <3>2
  <2>12. HubInv'
    BY <2>1 DEF OrderInv, HubInv
  <2>13. \A o \in Socket : link'[o] = "open" => o = s
    BY <2>10 DEF IsOfUse
  <2> QED  BY <2>8, <2>9, <2>10, <2>11, <2>12, <2>13 DEF OrderInv
<1> QED
  BY <1>1, <1>2

LEMMA PageOrder ==
  ASSUME StreamTypeOK, ConnectionInv, OrderInv,
         AnswersArrive \/ TimerFires \/ Mount \/ Execute \/ GetFails \/ Unmount
  PROVE  OrderInv' /\ streamed' = streamed
<1>0. hub \in Hub /\ moment \in Moment /\ Moment \subseteq Int /\ NoSnapshot \notin Moment
  BY NoSnapshotAssumption, BoundAssumption DEF StreamTypeOK, Moment
<1>1. /\ UNCHANGED <<hub, handler, wire, streamed>>
      /\ moment' = moment \/ moment' = moment + 1
  BY DEF AnswersArrive, GetAnswered, Loaded, Refreshed, TimerFires, Mount, Execute, GetFails,
         Unmount, server
<1>2. HubInv' /\ \A m \in Moment : Past(m) => Past(m)'
  BY <1>1, MomentsAreNumbers DEF OrderInv, HubInv, Past
<1>3. \A s \in Socket : /\ IsOfUse(s)' => IsOfUse(s) \/ wire[s] = <<>>
                        /\ link'[s] = "open" => link[s] = "open"
  <2>1. CASE UNCHANGED link
    BY <2>1 DEF IsOfUse
  <2>2. CASE Connect
    <3>1. /\ link[NextSocket] = "unmade" /\ NextSocket \in Socket
          /\ link' = [link EXCEPT ![NextSocket] = "connecting"]
          /\ link \in [Socket -> Link]
      BY <2>2, NextSocketIsUnmade DEF Connect, StreamTypeOK
    <3>2. wire[NextSocket] = <<>>
      BY <3>1 DEF ConnectionInv
    <3> QED  BY <3>1, <3>2 DEF IsOfUse
  <2>3. CASE Unmount
    BY <2>3 DEF Unmount, IsOfUse
  <2> QED
    BY <2>1, <2>2, <2>3 DEF AnswersArrive, GetAnswered, Loaded, Refreshed, TimerFires, Mount,
       Execute, GetFails
<1> QED
  BY <1>1, <1>2, <1>3, SameOrder

LEMMA StepOrder ==
  StreamTypeOK /\ ConnectionInv /\ OrderInv /\ [Next]_vars => OrderInv' /\ streamed' >= streamed
<1> SUFFICES ASSUME StreamTypeOK, ConnectionInv, OrderInv, [Next]_vars
             PROVE  OrderInv' /\ streamed' >= streamed
  OBVIOUS
<1>1. streamed \in Int
  BY BoundAssumption DEF StreamTypeOK, Moment
<1>2. ASSUME UNCHANGED vars PROVE OrderInv' /\ streamed' >= streamed
  BY <1>1, <1>2 DEF vars, OrderInv, Past, HubInv, WireInv, SendingInv, IsOfUse
<1>3. ASSUME StateChanges \/ HubRuns \/ ProducerRaises \/ Restart
                \/ \E s \in Socket : HandlerRuns(s)
      PROVE  OrderInv' /\ streamed' >= streamed
  <2>1. OrderInv'
    BY <1>3, ServerOrder, HandlerOrder
  <2>2. streamed' = streamed
    BY <1>3 DEF StateChanges, HubRuns, Produce, Publish, ProducerRaises, Restart, HandlerRuns,
       WaitNext, Send, SendRaises
  <2> QED  BY <1>1, <2>1, <2>2
<1>4. ASSUME AnswersArrive \/ TimerFires \/ Mount \/ Execute \/ GetFails \/ Unmount
      PROVE  OrderInv' /\ streamed' >= streamed
  BY <1>1, <1>4, PageOrder
<1> QED
  BY <1>2, <1>3, <1>4, SocketOrder DEF Next, ConnectionsMove, MessagesArrive

LEMMA StreamInvariant == Spec => []StreamInv
<1>1. Init => StreamInv
  BY InitTypeOK, InitConnection, InitOrder DEF StreamInv
<1>2. StreamInv /\ [Next]_vars => StreamInv'
  BY NextTypeOK, NextConnection, StepOrder DEF StreamInv
<1> QED
  BY <1>1, <1>2, PTL DEF Spec

----
(***************************************************************************)
(* The theorems.                                                           *)
(***************************************************************************)

\* Hub, handlers, sockets and page are always well formed: among others, no handler sends
\* before there is a snapshot.
THEOREM StreamTypes == Spec => []StreamTypeOK
<1>1. StreamInv => StreamTypeOK
  BY DEF StreamInv
<1> QED
  BY <1>1, StreamInvariant, PTL

\* Whatever fails, restarts, leaves and comes back, at most one socket can deliver.
THEOREM OneSocket == Spec => []OneLiveSocket
<1>1. StreamInv => OneLiveSocket
  BY DEF StreamInv, ConnectionInv
<1> QED
  BY <1>1, StreamInvariant, PTL

\* A client that runs is never left without a socket and without the timer.
THEOREM AlwaysAWay == Spec => []NeverStranded
<1>1. StreamInv => NeverStranded
  BY DEF StreamInv, ConnectionInv
<1> QED
  BY <1>1, StreamInvariant, PTL

\* However long the queues of the sockets, the stream never takes back what it brought.
THEOREM StreamInOrder == Spec => StreamKeepsOrder
<1>1. StreamInv /\ [Next]_vars => [streamed' >= streamed]_vars
  BY StepOrder DEF StreamInv
<1> QED
  BY <1>1, StreamInvariant, PTL DEF Spec, StreamKeepsOrder
====
