---------------------------- MODULE SocketServer ----------------------------
(***************************************************************************)
(* The TCP side of the program and its shutdown: the accept loop and the   *)
(* three goroutines of a connection (servers/socket_server.go), the        *)
(* connection event handler (event_handlers/connection.event_handlers.go), *)
(* the notification service's map (internal/services), and how main.go and *)
(* the REST server end the process.                                        *)
(*                                                                         *)
(* The event channel and every stopChan are unbuffered, so a send and the  *)
(* receive that takes it are one step.  quit holds one signal.  A          *)
(* goroutine's place in its code is its entry in reader, writer, handler.  *)
(***************************************************************************)
EXTENDS Integers, FiniteSets

CONSTANTS
    Conns,      \* connections clients may open, each once
    Keys,       \* phone numbers as read into the eight-byte buffer
    KeyOf,      \* the number a connection's client sends first
    None,       \* no connection
    MaxSignals  \* bound: SIGINT or SIGTERM delivered to the process

ASSUME SocketServerAssumption ==
    /\ KeyOf \in [Conns -> Keys]
    /\ None \notin Conns
    /\ MaxSignals \in Nat

VARIABLES
    proc,       \* the process: "running", "exited" by return of main, "crashed"
    net,        \* TCP connection: "unused", "open", "gone" (peer left), "closed" by the server
    acceptor,   \* accept loop: "accept", "greet", "emit", "done"
    accConn,    \* connection in its hands
    handler,    \* handleTLSConnections: "none", "start", "wait" on stopChan, "done"
    reader,     \* readFromConnection: "none", "loop", "read", "emit", "send" on stopChan, "done"
    writer,     \* writeToConnection: "none", "select", "emit", "send" on stopChan, "done"
    events,     \* connection event handler: "idle", "remove", "done"
    evConn,     \* connection whose DISCONNECTED it is serving
    channel,    \* connection event channel: "open", "closed"
    adding,     \* connections whose go AddUserConnection has not run
    reg,        \* Notification.connections
    quit,       \* quit channel: "empty", "signal", "closed"
    signals,    \* signals delivered
    closer,     \* goroutine that closes the listener: "wait", "done"
    rest,       \* REST server: "serving", "stopping", "done"
    main,       \* main: "wait", "closeEvents", "closeQuit", "join"
    dropped,    \* history: DISCONNECTED events accepted, per connection
    overtaken   \* history: connections whose key was removed while they were in adding

connVars  == <<net, handler, reader, writer>>
acceptVars == <<acceptor, accConn, closer>>
eventVars == <<events, evConn, adding, reg, dropped, overtaken>>
mainVars  == <<channel, signals, rest, main>>
vars == <<proc, connVars, acceptVars, eventVars, mainVars, quit>>

(* Types; a goroutine emits one DISCONNECTED at most.                      *)
TypeOK ==
    /\ proc \in {"running", "exited", "crashed"}
    /\ net \in [Conns -> {"unused", "open", "gone", "closed"}]
    /\ acceptor \in {"accept", "greet", "emit", "done"}
    /\ accConn \in Conns \cup {None}
    /\ handler \in [Conns -> {"none", "start", "wait", "done"}]
    /\ reader \in [Conns -> {"none", "loop", "read", "emit", "send", "done"}]
    /\ writer \in [Conns -> {"none", "select", "emit", "send", "done"}]
    /\ events \in {"idle", "remove", "done"}
    /\ evConn \in Conns \cup {None}
    /\ channel \in {"open", "closed"}
    /\ adding \subseteq Conns
    /\ reg \in [Keys -> Conns \cup {None}]
    /\ quit \in {"empty", "signal", "closed"}
    /\ signals \in 0..MaxSignals
    /\ closer \in {"wait", "done"}
    /\ rest \in {"serving", "stopping", "done"}
    /\ main \in {"wait", "closeEvents", "closeQuit", "join"}
    /\ dropped \in [Conns -> 0..2]
    /\ overtaken \subseteq Conns

Init ==
    /\ proc = "running"
    /\ net = [c \in Conns |-> "unused"]
    /\ acceptor = "accept" /\ accConn = None
    /\ handler = [c \in Conns |-> "none"]
    /\ reader = [c \in Conns |-> "none"]
    /\ writer = [c \in Conns |-> "none"]
    /\ events = "idle" /\ evConn = None
    /\ channel = "open"
    /\ adding = {}
    /\ reg = [k \in Keys |-> None]
    /\ quit = "empty" /\ signals = 0
    /\ closer = "wait" /\ rest = "serving" /\ main = "wait"
    /\ dropped = [c \in Conns |-> 0]
    /\ overtaken = {}
-----------------------------------------------------------------------------
(* Channels                                                                *)

(* <-quit: one receiver takes a signal; after close(quit) all receive.     *)
TakeQuit ==
    \/ quit = "signal" /\ quit' = "empty"
    \/ quit = "closed" /\ UNCHANGED quit

(* A send on the closed event channel panics, waiting or new; no recover.  *)
Panic ==
    /\ proc = "running"
    /\ channel = "closed"
    /\ proc' = "crashed"

(* Mutant of SendDisconnected: the switch falls through to CONNECTED.      *)
SendDisconnectedFallsThrough(c) ==
    /\ channel = "open" /\ events = "idle"
    /\ events' = "remove" /\ evConn' = c
    /\ dropped' = [dropped EXCEPT ![c] = @ + 1]
    /\ adding' = adding \cup {c}
    /\ UNCHANGED <<reg, overtaken>>

(* c's DISCONNECTED is taken by the connection event handler.              *)
SendDisconnected(c) ==
    /\ channel = "open"
    /\ events = "idle"
    /\ events' = "remove"
    /\ evConn' = c
    /\ dropped' = [dropped EXCEPT ![c] = @ + 1]
    /\ UNCHANGED <<adding, reg, overtaken>>
-----------------------------------------------------------------------------
(* StartTCPServer                                                          *)

Accept(c) ==
    /\ proc = "running" /\ acceptor = "accept" /\ closer = "wait"
    /\ net[c] = "unused"
    /\ net' = [net EXCEPT ![c] = "open"]
    /\ acceptor' = "greet" /\ accConn' = c
    /\ UNCHANGED <<proc, closer, handler, reader, writer, eventVars, mainVars, quit>>

(* conn.Read within its five-second deadline.  On error the loop goes on   *)
(* and nobody closes the connection.                                       *)
GreetingRead ==
    /\ proc = "running" /\ acceptor = "greet"
    /\ acceptor' = "emit"
    /\ UNCHANGED <<proc, accConn, closer, connVars, eventVars, mainVars, quit>>

GreetingFails ==
    /\ proc = "running" /\ acceptor = "greet"
    /\ acceptor' = "accept" /\ accConn' = None
    /\ UNCHANGED <<proc, closer, connVars, eventVars, mainVars, quit>>

(* CONNECTED is taken by the event handler, which starts the goroutine     *)
(* that enters the connection; the accept loop starts handleTLSConnections.*)
Connected(c) ==
    /\ proc = "running" /\ acceptor = "emit" /\ accConn = c
    /\ channel = "open" /\ events = "idle"
    /\ adding' = adding \cup {c}
    /\ handler' = [handler EXCEPT ![c] = "start"]
    /\ acceptor' = "accept" /\ accConn' = None
    /\ UNCHANGED <<proc, closer, net, reader, writer, events, evConn, reg,
                   dropped, overtaken, mainVars, quit>>

AcceptorPanics ==
    /\ acceptor = "emit" /\ Panic
    /\ UNCHANGED <<acceptVars, connVars, eventVars, mainVars, quit>>

(* Mutant of CloseListener: the listener is left open.                     *)
CloseListenerForgotten ==
    /\ proc = "running" /\ closer = "wait" /\ TakeQuit
    /\ UNCHANGED <<proc, acceptVars, connVars, eventVars, mainVars>>

CloseListener ==
    /\ proc = "running" /\ closer = "wait" /\ TakeQuit
    /\ closer' = "done"
    /\ UNCHANGED <<proc, acceptor, accConn, connVars, eventVars, mainVars>>

(* Accept of a closed listener fails.                                      *)
AcceptorStops ==
    /\ proc = "running" /\ acceptor = "accept" /\ closer = "done"
    /\ acceptor' = "done"
    /\ UNCHANGED <<proc, accConn, closer, connVars, eventVars, mainVars, quit>>
(* Accept may fail for other reasons, as when no file descriptor is left:  *)
(* the loop takes every *net.OpError for a closed listener and ends.       *)
AcceptFails ==
    /\ proc = "running" /\ acceptor = "accept" /\ closer = "wait"
    /\ acceptor' = "done"
    /\ UNCHANGED <<proc, accConn, closer, connVars, eventVars, mainVars, quit>>
-----------------------------------------------------------------------------
(* handleTLSConnections                                                    *)

StartHeartbeat(c) ==
    /\ proc = "running" /\ handler[c] = "start"
    /\ handler' = [handler EXCEPT ![c] = "wait"]
    /\ reader' = [reader EXCEPT ![c] = "loop"]
    /\ writer' = [writer EXCEPT ![c] = "select"]
    /\ UNCHANGED <<proc, net, acceptVars, eventVars, mainVars, quit>>

(* log.Fatalf ends the process when the socket of a peer that has left     *)
(* refuses the keepalive options.                                          *)
SetupFatal(c) ==
    /\ proc = "running" /\ handler[c] = "start" /\ net[c] = "gone"
    /\ proc' = "crashed"
    /\ UNCHANGED <<acceptVars, connVars, eventVars, mainVars, quit>>

(* The handler takes the stop of the reader or of the writer, whichever is *)
(* sending, and closes the connection.                                     *)
HandlerStops(c) ==
    /\ proc = "running" /\ handler[c] = "wait"
    /\ \/ reader[c] = "send" /\ reader' = [reader EXCEPT ![c] = "done"] /\ UNCHANGED writer
       \/ writer[c] = "send" /\ writer' = [writer EXCEPT ![c] = "done"] /\ UNCHANGED reader
    /\ handler' = [handler EXCEPT ![c] = "done"]
    /\ net' = [net EXCEPT ![c] = "closed"]
    /\ UNCHANGED <<proc, acceptVars, eventVars, mainVars, quit>>

(* The client ends the connection.                                         *)
PeerLeaves(c) ==
    /\ proc = "running" /\ net[c] = "open"
    /\ net' = [net EXCEPT ![c] = "gone"]
    /\ UNCHANGED <<proc, handler, reader, writer, acceptVars, eventVars, mainVars, quit>>
-----------------------------------------------------------------------------
(* readFromConnection: select with a default, then a read of at most five  *)
(* seconds.                                                                *)

ReaderMoves(c, from, to) ==
    /\ proc = "running" /\ reader[c] = from
    /\ reader' = [reader EXCEPT ![c] = to]
    /\ UNCHANGED <<proc, net, handler, acceptVars, mainVars>>

(* default: neither case of the select is ready.                           *)
ReaderPolls(c) ==
    /\ ReaderMoves(c, "loop", "read")
    /\ writer[c] # "send" /\ quit = "empty"
    /\ UNCHANGED <<writer, eventVars, quit>>

ReaderTakesStop(c) ==
    /\ ReaderMoves(c, "loop", "send")
    /\ writer[c] = "send" /\ writer' = [writer EXCEPT ![c] = "done"]
    /\ UNCHANGED <<eventVars, quit>>

ReaderTakesQuit(c) ==
    /\ ReaderMoves(c, "loop", "send")
    /\ TakeQuit
    /\ UNCHANGED <<writer, eventVars>>

(* A line arrived, or the deadline passed.                                 *)
ReaderReads(c) ==
    /\ ReaderMoves(c, "read", "loop")
    /\ net[c] \in {"open", "gone"}
    /\ UNCHANGED <<writer, eventVars, quit>>

(* Mutant of ReaderFails: the event is not emitted.                        *)
ReaderFailsSilently(c) ==
    /\ ReaderMoves(c, "read", "send")
    /\ net[c] \in {"gone", "closed"}
    /\ UNCHANGED <<writer, eventVars, quit>>

(* Mutant of ReaderFails: every error is taken for a timeout.              *)
ReaderContinues(c) ==
    /\ ReaderMoves(c, "read", "loop")
    /\ net[c] \in {"gone", "closed"}
    /\ UNCHANGED <<writer, eventVars, quit>>

(* Any other error: end of file, reset, use of a closed connection.        *)
ReaderFails(c) ==
    /\ ReaderMoves(c, "read", "emit")
    /\ net[c] \in {"gone", "closed"}
    /\ UNCHANGED <<writer, eventVars, quit>>

ReaderEmits(c) ==
    /\ ReaderMoves(c, "emit", "send")
    /\ SendDisconnected(c)
    /\ UNCHANGED <<writer, quit>>

ReaderPanics(c) ==
    /\ reader[c] = "emit" /\ Panic
    /\ UNCHANGED <<acceptVars, connVars, eventVars, mainVars, quit>>
-----------------------------------------------------------------------------
(* writeToConnection: a ping every five seconds.  A write that succeeds    *)
(* changes nothing here.                                                   *)

WriterMoves(c, from, to) ==
    /\ proc = "running" /\ writer[c] = from
    /\ writer' = [writer EXCEPT ![c] = to]
    /\ UNCHANGED <<proc, net, handler, acceptVars, mainVars>>

(* A write fails on a lost or closed connection, and on an open one whose  *)
(* client does not read for five seconds.                                  *)
WriterFails(c) ==
    /\ WriterMoves(c, "select", "emit")
    /\ UNCHANGED <<reader, eventVars, quit>>

(* Mutant of WriterTakesStop: no deferred send on stopChan.                *)
WriterKeepsStop(c) ==
    /\ WriterMoves(c, "select", "done")
    /\ reader[c] = "send" /\ reader' = [reader EXCEPT ![c] = "done"]
    /\ UNCHANGED <<eventVars, quit>>

WriterTakesStop(c) ==
    /\ WriterMoves(c, "select", "send")
    /\ reader[c] = "send" /\ reader' = [reader EXCEPT ![c] = "done"]
    /\ UNCHANGED <<eventVars, quit>>

WriterTakesQuit(c) ==
    /\ WriterMoves(c, "select", "send")
    /\ TakeQuit
    /\ UNCHANGED <<reader, eventVars>>

(* Mutant of WriterEmits: the writer goes on pinging after a failed write. *)
WriterEmitsAndStays(c) ==
    /\ WriterMoves(c, "emit", "select")
    /\ SendDisconnected(c)
    /\ UNCHANGED <<reader, quit>>

WriterEmits(c) ==
    /\ WriterMoves(c, "emit", "send")
    /\ SendDisconnected(c)
    /\ UNCHANGED <<reader, quit>>

WriterPanics(c) ==
    /\ writer[c] = "emit" /\ Panic
    /\ UNCHANGED <<acceptVars, connVars, eventVars, mainVars, quit>>
-----------------------------------------------------------------------------
(* ConnectionEventHandler and the notification service                     *)

AddUserConnection(c) ==
    /\ proc = "running" /\ c \in adding
    /\ adding' = adding \ {c}
    /\ reg' = [reg EXCEPT ![KeyOf[c]] = c]
    /\ UNCHANGED <<proc, acceptVars, connVars, events, evConn, dropped, overtaken,
                   mainVars, quit>>

(* Mutant of RemoveUserConnection: it returns when SetLastAvailable fails. *)
RemoveUserConnectionOrFails ==
    /\ proc = "running" /\ events = "remove"
    /\ reg' \in {reg, [reg EXCEPT ![KeyOf[evConn]] = None]}
    /\ overtaken' = overtaken \cup {c \in adding : KeyOf[c] = KeyOf[evConn]}
    /\ events' = "idle" /\ evConn' = None
    /\ UNCHANGED <<proc, acceptVars, connVars, adding, dropped, mainVars, quit>>

(* RemoveUserConnection runs in the event handler's own goroutine: the     *)
(* next event waits for its database call.  The key alone decides.         *)
RemoveUserConnection ==
    /\ proc = "running" /\ events = "remove"
    /\ reg' = [reg EXCEPT ![KeyOf[evConn]] = None]
    /\ overtaken' = overtaken \cup {c \in adding : KeyOf[c] = KeyOf[evConn]}
    /\ events' = "idle" /\ evConn' = None
    /\ UNCHANGED <<proc, acceptVars, connVars, adding, dropped, mainVars, quit>>

EventHandlerStops ==
    /\ proc = "running" /\ events = "idle" /\ channel = "closed"
    /\ events' = "done"
    /\ UNCHANGED <<proc, acceptVars, connVars, evConn, adding, reg, dropped,
                   overtaken, mainVars, quit>>
-----------------------------------------------------------------------------
(* Signals, REST server, main                                              *)

(* The runtime's send does not block: a second signal finds the buffer     *)
(* full and is dropped; a signal after close(quit) panics.                 *)
Signal ==
    /\ proc = "running" /\ signals < MaxSignals
    /\ signals' = signals + 1
    /\ \/ quit \in {"empty", "signal"} /\ quit' = "signal" /\ UNCHANGED proc
       \/ quit = "closed" /\ proc' = "crashed" /\ UNCHANGED quit
    /\ UNCHANGED <<acceptVars, connVars, eventVars, channel, rest, main>>

RestTakesQuit ==
    /\ proc = "running" /\ rest = "serving" /\ TakeQuit
    /\ rest' = "stopping"
    /\ UNCHANGED <<proc, acceptVars, connVars, eventVars, channel, signals, main>>

RestStops ==
    /\ proc = "running" /\ rest = "stopping"
    /\ rest' = "done"
    /\ UNCHANGED <<proc, acceptVars, connVars, eventVars, channel, signals, main, quit>>

(* log.Fatalf when requests are still open after thirty seconds.           *)
RestFatal ==
    /\ proc = "running" /\ rest = "stopping"
    /\ proc' = "crashed"
    /\ UNCHANGED <<acceptVars, connVars, eventVars, mainVars, quit>>

MainTakesQuit ==
    /\ proc = "running" /\ main = "wait" /\ TakeQuit
    /\ main' = "closeEvents"
    /\ UNCHANGED <<proc, acceptVars, connVars, eventVars, channel, signals, rest>>

(* Mutant of MainClosesEvents: the event channel is left open.             *)
MainForgetsEvents ==
    /\ proc = "running" /\ main = "closeEvents"
    /\ main' = "closeQuit"
    /\ UNCHANGED <<proc, acceptVars, connVars, eventVars, channel, signals, rest, quit>>

MainClosesEvents ==
    /\ proc = "running" /\ main = "closeEvents"
    /\ channel' = "closed" /\ main' = "closeQuit"
    /\ UNCHANGED <<proc, acceptVars, connVars, eventVars, signals, rest, quit>>

MainClosesQuit ==
    /\ proc = "running" /\ main = "closeQuit"
    /\ quit' = "closed" /\ main' = "join"
    /\ UNCHANGED <<proc, acceptVars, connVars, eventVars, channel, signals, rest>>

(* Mutant of WaitGroupDone: wg.Add(1) is missing in the accept loop.       *)
WaitGroupWithoutHandlers ==
    acceptor = "done" /\ rest = "done" /\ events = "done"

(* wg.Wait: the accept loop, the REST server, the event handler and every  *)
(* handleTLSConnections have called Done.  Readers and writers have not    *)
(* joined the group.                                                       *)
WaitGroupDone ==
    /\ acceptor = "done" /\ rest = "done" /\ events = "done"
    /\ \A c \in Conns : handler[c] \in {"none", "done"}

MainExits ==
    /\ proc = "running" /\ main = "join" /\ WaitGroupDone
    /\ proc' = "exited"
    /\ UNCHANGED <<acceptVars, connVars, eventVars, mainVars, quit>>
-----------------------------------------------------------------------------
AcceptLoop ==
    \/ \E c \in Conns : Accept(c) \/ Connected(c)
    \/ GreetingRead \/ GreetingFails \/ AcceptorPanics
    \/ CloseListener \/ AcceptorStops \/ AcceptFails

Heartbeat(c) ==
    \/ StartHeartbeat(c) \/ SetupFatal(c) \/ HandlerStops(c) \/ PeerLeaves(c)
    \/ ReaderPolls(c) \/ ReaderTakesStop(c) \/ ReaderTakesQuit(c) \/ ReaderReads(c)
    \/ ReaderFails(c) \/ ReaderEmits(c) \/ ReaderPanics(c)
    \/ WriterFails(c) \/ WriterTakesStop(c) \/ WriterTakesQuit(c)
    \/ WriterEmits(c) \/ WriterPanics(c)

EventHandling ==
    \/ \E c \in Conns : AddUserConnection(c)
    \/ RemoveUserConnection \/ EventHandlerStops

Shutdown ==
    \/ Signal \/ RestTakesQuit \/ RestStops \/ RestFatal
    \/ MainTakesQuit \/ MainClosesEvents \/ MainClosesQuit \/ MainExits

Next == AcceptLoop \/ (\E c \in Conns : Heartbeat(c)) \/ EventHandling \/ Shutdown

Spec == Init /\ [][Next]_vars

(* The Go scheduler runs every runnable goroutine, senders on a channel    *)
(* are served in order, reads, writes and database calls have deadlines.   *)
(* A read from a peer that left fails in the end, and so does a write to a *)
(* connection the server closed; nobody is obliged to connect, to leave or *)
(* to signal.  A select with several ready cases picks at random.          *)
ConnFairness(c) ==
    /\ WF_vars(Connected(c)) /\ WF_vars(StartHeartbeat(c)) /\ WF_vars(HandlerStops(c))
    /\ WF_vars(ReaderPolls(c) \/ ReaderTakesStop(c) \/ ReaderTakesQuit(c))
    /\ SF_vars(ReaderFails(c)) /\ WF_vars(ReaderReads(c) \/ ReaderFails(c))
    /\ WF_vars(net[c] = "closed" /\ WriterFails(c))
    /\ WF_vars(WriterTakesStop(c) \/ WriterTakesQuit(c))
    /\ WF_vars(ReaderEmits(c)) /\ WF_vars(WriterEmits(c))
    /\ WF_vars(ReaderPanics(c)) /\ WF_vars(WriterPanics(c))
    /\ WF_vars(AddUserConnection(c))

Fairness ==
    /\ \A c \in Conns : ConnFairness(c)
    /\ WF_vars(GreetingRead \/ GreetingFails) /\ WF_vars(AcceptorPanics)
    /\ WF_vars(CloseListener) /\ WF_vars(AcceptorStops)
    /\ WF_vars(RemoveUserConnection) /\ WF_vars(EventHandlerStops)
    /\ WF_vars(RestTakesQuit) /\ WF_vars(RestStops)
    /\ WF_vars(MainTakesQuit) /\ WF_vars(MainClosesEvents)
    /\ WF_vars(MainClosesQuit) /\ WF_vars(MainExits)

FairSpec == Spec /\ Fairness
-----------------------------------------------------------------------------
(* Properties                                                              *)

Seen == {c \in Conns : handler[c] # "none"}

(* The map of the notification service as promised in Registry: DISCONNECTED *)
(* of one connection and the goroutines that enter others interleave, yet   *)
(* each connection is entered once, after CONNECTED, under its own number.  *)
R == INSTANCE Registry WITH pending <- adding, seen <- Seen
ImplementsRegistry == R!RegistrySpec

(* An entered connection that has left the map stays out of it, so that a   *)
(* client that came back is not displaced by its older connection           *)
(* (AddUserConnection against RemoveUserConnection).                        *)
NeverReturns == R!NeverReturns

(* A stop that the reader passes to the writer, or the writer to the reader, *)
(* instead of to handleTLSConnections is passed on: the handler never waits  *)
(* on stopChan with nobody left to wake it.                                  *)
StopIsPassedOn ==
    \A c \in Conns : handler[c] = "wait" /\ "done" \in {reader[c], writer[c]} =>
        "send" \in {reader[c], writer[c]}

(* While no signal came, the server closes a connection only after the event *)
(* handler has taken a DISCONNECTED for it, whoever of reader, writer and    *)
(* handler took whose stop.                                                  *)
ClosedWasReported ==
    \A c \in Conns : signals = 0 /\ net[c] = "closed" => dropped[c] >= 1

(* Once a DISCONNECTED of a connection has been served, the connection is in *)
(* the map only if that removal, or another of the same number, overtook the *)
(* goroutine that was to enter it: the one way to a registered dead          *)
(* connection.                                                               *)
RegisteredOnlyIfOvertaken ==
    \A c \in Conns : dropped[c] >= 1 /\ evConn # c /\ reg[KeyOf[c]] = c => c \in overtaken

(* wg.Wait: main returns only when every connection that was announced has   *)
(* been closed by its handler, those accepted during the shutdown included.  *)
ExitClosesConnections ==
    \A c \in Conns : proc = "exited" /\ handler[c] # "none" => net[c] = "closed"

(* What can take a step: a connection's handler, its reader, the event       *)
(* handler, the accept loop with the goroutine that closes its listener.     *)
HandlerRuns(c) ==
    \/ handler[c] = "start"
    \/ handler[c] = "wait" /\ "send" \in {reader[c], writer[c]}

Emits == channel = "closed" \/ events = "idle"

ReaderRuns(c) == reader[c] \in {"loop", "read"} \/ (reader[c] = "emit" /\ Emits)

EventsRun == events = "remove" \/ (events = "idle" /\ channel = "closed")

AcceptorRuns ==
    \/ acceptor = "greet"
    \/ acceptor = "emit" /\ Emits
    \/ acceptor = "accept" /\ closer = "done"
    \/ closer = "wait" /\ quit # "empty"

(* Nobody waits for good on the unbuffered channels: a handler that is not   *)
(* done, or the reader or event handler it depends on, can take a step, and  *)
(* so can an accept loop about to send; once main closed quit, everything    *)
(* main still waits for can (main.go:153), and main is there to wait.        *)
NobodyStuck ==
    proc = "running" =>
        /\ \A c \in Conns :
              handler[c] \in {"start", "wait"} => HandlerRuns(c) \/ ReaderRuns(c) \/ EventsRun
        /\ acceptor = "emit" => AcceptorRuns \/ EventsRun
        /\ quit = "closed" =>
              /\ acceptor # "done" => AcceptorRuns
              /\ events # "done" => EventsRun
              /\ \A c \in Conns : handler[c] \in {"start", "wait"} => HandlerRuns(c) \/ ReaderRuns(c)
              /\ main = "join"

(* A connection whose peer left is closed by its handler in the end, however *)
(* reader, writer and handler share stopChan, unless the process ends.       *)
LostPeerIsClosed ==
    \A c \in Conns :
        net[c] = "gone" /\ handler[c] # "none" ~> handler[c] = "done" \/ proc # "running"

(* Once main closed quit the process ends: every member of the wait group is *)
(* reached by quit, also one that another connection's stop kept busy.       *)
ShutdownEnds == quit = "closed" ~> proc # "running"

(* No step removes another connection than the one whose heartbeat failed    *)
(* ("this only effects the connection", socket_server.go:99 and 174).        *)
RemovesOwnConnection ==
    [][\A k \in Keys : reg[k] # None /\ reg'[k] = None => reg[k] = evConn]_vars

(* A failed writer stops its reader (socket_server.go:97) and a failed       *)
(* reader its writer (socket_server.go:172).                                 *)
StopReachesPartner ==
    \A c \in Conns :
        /\ reader[c] = "send" ~> writer[c] = "done" \/ proc # "running"
        /\ writer[c] = "send" ~> reader[c] = "done" \/ proc # "running"

(* A signal received by a goroutine of the server means that the server      *)
(* stops (socket_server.go:102).                                             *)
SignalStopsServer == signals > 0 ~> proc # "running"

(* Nobody is about to send on the event channel once main has closed it      *)
(* ("waiting for servers to shutdown", main.go:146, comes first).            *)
NoSendAfterClose ==
    channel = "closed" =>
        /\ acceptor # "emit"
        /\ \A c \in Conns : reader[c] # "emit" /\ writer[c] # "emit"
=============================================================================
