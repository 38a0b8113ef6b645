------------------------- MODULE SocketServerProofs -------------------------
(* Theorems about SocketServer, for every set of connections and numbers   *)
(* and every number of signals.                                            *)
EXTENDS SocketServer, TLAPS

(* Goroutines of a connection and its socket keep step.                    *)
HandlerInv ==
    \A c \in Conns :
        /\ handler[c] \in {"none", "start"} <=> reader[c] = "none"
        /\ reader[c] = "none" <=> writer[c] = "none"
        /\ handler[c] = "done" <=> net[c] = "closed"
        /\ net[c] = "unused" => handler[c] = "none"

(* The accept loop holds a connection that has no handler yet.             *)
AcceptInv ==
    /\ acceptor \in {"greet", "emit"} => accConn \in Conns
    /\ \A c \in Conns : accConn = c => handler[c] = "none" /\ net[c] # "unused"

EventInv == events = "remove" <=> evConn \in Conns

Past(pc) == pc \in {"send", "done"}

(* Who may still emit has not; without a signal, who is past has, or took  *)
(* the stop of one who has.                                                *)
ReportInv ==
    \A c \in Conns :
        /\ dropped[c] <= (IF Past(reader[c]) THEN 1 ELSE 0) + (IF Past(writer[c]) THEN 1 ELSE 0)
        /\ signals = 0 /\ (Past(reader[c]) \/ Past(writer[c])) => dropped[c] >= 1
        /\ handler[c] = "done" => Past(reader[c]) \/ Past(writer[c])
        /\ evConn = c => dropped[c] >= 1

SignalInv == signals = 0 => quit = "empty" /\ main = "wait"

(* RegisteredOnlyIfOvertaken, made to cover the goroutines still to run.   *)
EntryInv ==
    \A c \in Conns :
        dropped[c] >= 1 /\ evConn # c /\ (c \in adding \/ reg[KeyOf[c]] = c) => c \in overtaken

ExitInv == proc = "exited" => WaitGroupDone

IInv ==
    /\ TypeOK /\ HandlerInv /\ AcceptInv /\ EventInv /\ ReportInv /\ SignalInv
    /\ StopIsPassedOn /\ EntryInv /\ ExitInv
-----------------------------------------------------------------------------
(* The invariant holds of the first state.                                 *)
LEMMA InitInv == Init => IInv
  BY SocketServerAssumption
  DEF Init, IInv, TypeOK, HandlerInv, AcceptInv, EventInv, ReportInv, Past, SignalInv,
      StopIsPassedOn, EntryInv, ExitInv

(* The accept loop. *)
LEMMA AcceptStep ==
  ASSUME IInv, AcceptLoop
  PROVE  IInv'
  <1> USE SocketServerAssumption
      DEF connVars, acceptVars, eventVars, mainVars, IInv, TypeOK, HandlerInv, AcceptInv,
          EventInv, ReportInv, Past, SignalInv, StopIsPassedOn, EntryInv, ExitInv
  <1>1. ASSUME NEW c \in Conns, Accept(c) PROVE IInv'
    BY <1>1 DEF Accept
  <1>2. ASSUME NEW c \in Conns, Connected(c) PROVE IInv'
    BY <1>2 DEF Connected
  <1>3. CASE GreetingRead
    BY <1>3 DEF GreetingRead
  <1>4. CASE GreetingFails
    BY <1>4 DEF GreetingFails
  <1>5. CASE AcceptorPanics
    BY <1>5 DEF AcceptorPanics, Panic
  <1>6. CASE CloseListener
    BY <1>6 DEF CloseListener, TakeQuit
  <1>7. CASE AcceptorStops \/ AcceptFails
    BY <1>7 DEF AcceptorStops, AcceptFails
  <1> QED
    BY <1>1, <1>2, <1>3, <1>4, <1>5, <1>6, <1>7
    DEF AcceptLoop

(* Handler, reader and writer of one connection, and its client. *)
LEMMA HeartbeatStep ==
  ASSUME IInv, NEW d \in Conns, Heartbeat(d)
  PROVE  IInv'
  <1> USE SocketServerAssumption
      DEF connVars, acceptVars, eventVars, mainVars, IInv, TypeOK, HandlerInv, AcceptInv,
          EventInv, ReportInv, Past, SignalInv, StopIsPassedOn, EntryInv, ExitInv
  <1>1. CASE StartHeartbeat(d)
    BY <1>1 DEF StartHeartbeat
  <1>2. CASE SetupFatal(d)
    BY <1>2 DEF SetupFatal
  <1>3. CASE HandlerStops(d)
    BY <1>3 DEF HandlerStops
  <1>4. CASE PeerLeaves(d)
    BY <1>4 DEF PeerLeaves
  <1>5. CASE ReaderPolls(d)
    BY <1>5 DEF ReaderPolls, ReaderMoves
  <1>6. CASE ReaderTakesStop(d)
    BY <1>6 DEF ReaderTakesStop, ReaderMoves
  <1>7. CASE ReaderTakesQuit(d)
    BY <1>7 DEF ReaderTakesQuit, ReaderMoves, TakeQuit
  <1>8. CASE ReaderReads(d)
    BY <1>8 DEF ReaderReads, ReaderMoves
  <1>9. CASE ReaderFails(d)
    BY <1>9 DEF ReaderFails, ReaderMoves
  <1>10. CASE ReaderEmits(d)
    BY <1>10 DEF ReaderEmits, ReaderMoves, SendDisconnected
  <1>11. CASE ReaderPanics(d)
    BY <1>11 DEF ReaderPanics, Panic
  <1>12. CASE WriterFails(d)
    BY <1>12 DEF WriterFails, WriterMoves
  <1>13. CASE WriterTakesStop(d)
    BY <1>13 DEF WriterTakesStop, WriterMoves
  <1>14. CASE WriterTakesQuit(d)
    BY <1>14 DEF WriterTakesQuit, WriterMoves, TakeQuit
  <1>15. CASE WriterEmits(d)
    BY <1>15 DEF WriterEmits, WriterMoves, SendDisconnected
  <1>16. CASE WriterPanics(d)
    BY <1>16 DEF WriterPanics, Panic
  <1> QED
    BY <1>1, <1>2, <1>3, <1>4, <1>5, <1>6, <1>7, <1>8, <1>9, <1>10, <1>11,
       <1>12, <1>13, <1>14, <1>15, <1>16
    DEF Heartbeat

(* The event handler and the goroutines it starts. *)
LEMMA EventStep ==
  ASSUME IInv, EventHandling
  PROVE  IInv'
  <1> USE SocketServerAssumption
      DEF connVars, acceptVars, eventVars, mainVars, IInv, TypeOK, HandlerInv, AcceptInv,
          EventInv, ReportInv, Past, SignalInv, StopIsPassedOn, EntryInv, ExitInv
  <1>1. ASSUME NEW c \in Conns, AddUserConnection(c) PROVE IInv'
    BY <1>1 DEF AddUserConnection
  <1>2. CASE RemoveUserConnection
    BY <1>2 DEF RemoveUserConnection
  <1>3. CASE EventHandlerStops
    BY <1>3 DEF EventHandlerStops
  <1> QED
    BY <1>1, <1>2, <1>3
    DEF EventHandling

(* Signals, REST server and main. *)
LEMMA ShutdownStep ==
  ASSUME IInv, Shutdown
  PROVE  IInv'
  <1> USE SocketServerAssumption
      DEF connVars, acceptVars, eventVars, mainVars, IInv, TypeOK, HandlerInv, AcceptInv,
          EventInv, ReportInv, Past, SignalInv, StopIsPassedOn, EntryInv, ExitInv
  <1>1. CASE Signal
    BY <1>1 DEF Signal
  <1>2. CASE RestTakesQuit
    BY <1>2 DEF RestTakesQuit, TakeQuit
  <1>3. CASE RestStops
    BY <1>3 DEF RestStops
  <1>4. CASE RestFatal
    BY <1>4 DEF RestFatal
  <1>5. CASE MainTakesQuit
    BY <1>5 DEF MainTakesQuit, TakeQuit
  <1>6. CASE MainClosesEvents
    BY <1>6 DEF MainClosesEvents
  <1>7. CASE MainClosesQuit
    BY <1>7 DEF MainClosesQuit
  <1>8. CASE MainExits
    BY <1>8 DEF MainExits, WaitGroupDone
  <1> QED
    BY <1>1, <1>2, <1>3, <1>4, <1>5, <1>6, <1>7, <1>8
    DEF Shutdown

(* IInv is inductive.                                                      *)
LEMMA NextInv == IInv /\ [Next]_vars => IInv'
  <1> SUFFICES ASSUME IInv, [Next]_vars PROVE IInv'
    OBVIOUS
  <1>1. CASE UNCHANGED vars
    BY <1>1 DEF vars, connVars, acceptVars, eventVars, mainVars, IInv, TypeOK, HandlerInv,
       AcceptInv, EventInv, ReportInv, Past, SignalInv, StopIsPassedOn, EntryInv, ExitInv,
       WaitGroupDone
  <1> QED
    BY <1>1, AcceptStep, HeartbeatStep, EventStep, ShutdownStep DEF Next

(* The inductive invariant behind the theorems below.                      *)
THEOREM Invariance == Spec => []IInv
  BY InitInv, NextInv, PTL DEF Spec

(* Every variable stays in its set; in particular no connection has more   *)
(* than two DISCONNECTED events accepted.                                  *)
THEOREM TypeCorrect == Spec => []TypeOK
  BY Invariance, PTL DEF IInv

(* The handler is never left waiting on stopChan with nobody to wake it.   *)
THEOREM StopPassedOn == Spec => []StopIsPassedOn
  BY Invariance, PTL DEF IInv

(* Without a signal, the server closes only connections it has reported.   *)
THEOREM ClosedReported == Spec => []ClosedWasReported
  <1>1. IInv => ClosedWasReported
    BY DEF IInv, ClosedWasReported, HandlerInv, ReportInv
  <1> QED
    BY <1>1, Invariance, PTL

(* A reported connection is still registered only if its removal overtook  *)
(* its entry.                                                              *)
THEOREM OvertakenOnly == Spec => []RegisteredOnlyIfOvertaken
  <1>1. IInv => RegisteredOnlyIfOvertaken
    BY DEF IInv, RegisteredOnlyIfOvertaken, EntryInv
  <1> QED
    BY <1>1, Invariance, PTL

(* main returns only when the announced connections are closed.            *)
THEOREM ExitCloses == Spec => []ExitClosesConnections
  <1>1. IInv => ExitClosesConnections
    BY DEF IInv, ExitClosesConnections, ExitInv, WaitGroupDone, HandlerInv, TypeOK
  <1> QED
    BY <1>1, Invariance, PTL
-----------------------------------------------------------------------------
(* Nobody waits for good.                                                  *)

(* How far main has come, and what is closed by then.                      *)
ShutdownInv ==
    /\ quit = "closed" <=> main = "join"
    /\ channel = "closed" <=> main \in {"closeQuit", "join"}
    /\ events = "done" => channel = "closed"

(* Only main closes channels, and it closes the events before quit.        *)
LEMMA ShutdownStays == IInv /\ ShutdownInv /\ [Next]_vars => ShutdownInv'
  <1> SUFFICES ASSUME IInv, ShutdownInv, [Next]_vars PROVE ShutdownInv'
    OBVIOUS
  <1> USE DEF ShutdownInv, acceptVars, connVars, eventVars, mainVars
  <1>1. CASE AcceptLoop
    BY <1>1 DEF AcceptLoop, Accept, Connected, GreetingRead, GreetingFails, AcceptorPanics,
       CloseListener, AcceptorStops, AcceptFails, TakeQuit
  <1>2. ASSUME NEW c \in Conns, Heartbeat(c) PROVE ShutdownInv'
    <2>1. /\ UNCHANGED <<main, channel>>
          /\ UNCHANGED quit \/ TakeQuit
          /\ UNCHANGED events \/ events' = "remove"
      BY <1>2 DEF Heartbeat, StartHeartbeat, SetupFatal, HandlerStops, PeerLeaves,
         ReaderMoves, ReaderPolls, ReaderTakesStop, ReaderTakesQuit, ReaderReads, ReaderFails,
         ReaderEmits, ReaderPanics, WriterMoves, WriterFails, WriterTakesStop, WriterTakesQuit,
         WriterEmits, WriterPanics, SendDisconnected
    <2> QED
      BY <2>1 DEF TakeQuit
  <1>3. CASE EventHandling
    BY <1>3 DEF EventHandling, AddUserConnection, RemoveUserConnection, EventHandlerStops
  <1>4. CASE Shutdown
    BY <1>4 DEF Shutdown, Signal, RestTakesQuit, RestStops, RestFatal, MainTakesQuit,
       MainClosesEvents, MainClosesQuit, MainExits, TakeQuit
  <1>5. CASE UNCHANGED vars
    BY <1>5 DEF vars
  <1> QED
    BY <1>1, <1>2, <1>3, <1>4, <1>5 DEF Next

(* A handler always has somebody to wake it: a reader that polls or reads  *)
(* goes on, one about to send finds the event handler or a closed channel, *)
(* and when reader and writer have both sent, one of them sent to it.      *)
LEMMA HandlerNotStuck ==
  ASSUME IInv, ShutdownInv, NEW c \in Conns, handler[c] \in {"start", "wait"}
  PROVE  /\ HandlerRuns(c) \/ ReaderRuns(c) \/ EventsRun
         /\ channel = "closed" => HandlerRuns(c) \/ ReaderRuns(c)
  <1>1. reader[c] \in {"none", "loop", "read", "emit", "send", "done"}
    BY DEF IInv, TypeOK
  <1>2. CASE handler[c] = "start"
    BY <1>2 DEF HandlerRuns
  <1>3. CASE handler[c] = "wait" /\ reader[c] \in {"loop", "read"}
    BY <1>3 DEF ReaderRuns
  <1>4. CASE handler[c] = "wait" /\ reader[c] = "emit"
    BY <1>4 DEF ReaderRuns, Emits, EventsRun, ShutdownInv, IInv, TypeOK
  <1>5. CASE handler[c] = "wait" /\ reader[c] \in {"send", "done"}
    BY <1>5 DEF HandlerRuns, IInv, StopIsPassedOn
  <1>6. reader[c] # "none" \/ handler[c] = "start"
    BY DEF IInv, HandlerInv
  <1> QED
    BY <1>1, <1>2, <1>3, <1>4, <1>5, <1>6

(* For any number of connections: nobody waits for good, and during the    *)
(* shutdown nobody main waits for does.                                    *)
THEOREM NeverStuck == Spec => []NobodyStuck
  <1>1. Init => ShutdownInv
    BY DEF Init, ShutdownInv
  <1>2. IInv /\ ShutdownInv => NobodyStuck
    <2> SUFFICES ASSUME IInv, ShutdownInv PROVE NobodyStuck
      OBVIOUS
    <2>1. acceptor = "emit" => AcceptorRuns \/ EventsRun
      BY DEF IInv, TypeOK, ShutdownInv, AcceptorRuns, EventsRun, Emits
    <2>2. quit = "closed" =>
            /\ acceptor # "done" => AcceptorRuns
            /\ events # "done" => EventsRun
            /\ main = "join" /\ channel = "closed"
      BY DEF IInv, TypeOK, ShutdownInv, AcceptorRuns, EventsRun, Emits
    <2> QED
      BY <2>1, <2>2, HandlerNotStuck DEF NobodyStuck
  <1> QED
    BY Invariance, ShutdownStays, <1>1, <1>2, PTL DEF Spec
-----------------------------------------------------------------------------
(* The map of the notification service, seen through Registry.             *)

(* No connection is announced or entered in the first state.               *)
LEMMA InitMaps == Init => R!RegistryInit
  BY DEF Init, R!RegistryInit, Seen

(* Connected announces, AddUserConnection enters, RemoveUserConnection     *)
(* removes; every other step leaves the map, adding and Seen alone.        *)
LEMMA StepMaps == IInv /\ [Next]_vars => [R!RegistryNext]_R!registryVars
  <1> SUFFICES ASSUME IInv, [Next]_vars
               PROVE  R!RegistryNext \/ UNCHANGED R!registryVars
    OBVIOUS
  <1> USE DEF R!registryVars, Seen, acceptVars, connVars, eventVars, mainVars
  <1>1. ASSUME NEW c \in Conns, Connected(c) PROVE R!Announce(c)
    <2>1. handler[c] = "none"
      BY <1>1 DEF Connected, IInv, AcceptInv
    <2> QED
      BY <1>1, <2>1 DEF Connected, R!Announce, IInv, TypeOK
  <1>2. ASSUME NEW c \in Conns, AddUserConnection(c) PROVE R!Enter(c)
    BY <1>2 DEF AddUserConnection, R!Enter
  <1>3. CASE RemoveUserConnection
    <2>1. evConn \in Conns /\ KeyOf[evConn] \in Keys
      BY <1>3, SocketServerAssumption DEF RemoveUserConnection, IInv, EventInv
    <2>2. R!Leave(KeyOf[evConn])
      BY <1>3 DEF RemoveUserConnection, R!Leave
    <2> QED
      BY <2>1, <2>2 DEF R!RegistryNext
  <1>4. CASE AcceptLoop
    <2>1. ASSUME NEW c \in Conns, Accept(c) PROVE UNCHANGED R!registryVars
      BY <2>1 DEF Accept
    <2>2. CASE GreetingRead \/ GreetingFails \/ AcceptorPanics \/ CloseListener \/ AcceptorStops \/ AcceptFails
      BY <2>2 DEF GreetingRead, GreetingFails, AcceptorPanics, CloseListener, AcceptorStops, AcceptFails
    <2> QED
      BY <1>1, <1>4, <2>1, <2>2 DEF AcceptLoop, R!RegistryNext
  <1>5. ASSUME NEW d \in Conns, Heartbeat(d) PROVE UNCHANGED R!registryVars
    <2>1. Seen' = Seen
      BY <1>5 DEF Heartbeat, StartHeartbeat, SetupFatal, HandlerStops, PeerLeaves,
         ReaderMoves, ReaderPolls, ReaderTakesStop, ReaderTakesQuit, ReaderReads, ReaderFails,
         ReaderEmits, ReaderPanics, WriterMoves, WriterFails, WriterTakesStop, WriterTakesQuit,
         WriterEmits, WriterPanics, IInv, TypeOK
    <2>2. UNCHANGED <<reg, adding>>
      BY <1>5 DEF Heartbeat, StartHeartbeat, SetupFatal, HandlerStops, PeerLeaves,
         ReaderMoves, ReaderPolls, ReaderTakesStop, ReaderTakesQuit, ReaderReads, ReaderFails,
         ReaderEmits, ReaderPanics, WriterMoves, WriterFails, WriterTakesStop, WriterTakesQuit,
         WriterEmits, WriterPanics, SendDisconnected
    <2> QED
      BY <2>1, <2>2
  <1>6. CASE EventHandlerStops
    BY <1>6 DEF EventHandlerStops
  <1>7. CASE Shutdown
    BY <1>7 DEF Shutdown, Signal, RestTakesQuit, RestStops, RestFatal, MainTakesQuit,
       MainClosesEvents, MainClosesQuit, MainExits
  <1>8. CASE UNCHANGED vars
    BY <1>8 DEF vars
  <1> QED
    BY <1>2, <1>3, <1>4, <1>5, <1>6, <1>7, <1>8 DEF Next, EventHandling, R!RegistryNext

(* The TCP server implements Registry.                                     *)
THEOREM Refinement == Spec => ImplementsRegistry
  BY InitMaps, StepMaps, Invariance, PTL DEF Spec, ImplementsRegistry, R!RegistrySpec

(* A step of Registry brings no connection back: the only one it enters is *)
(* pending.                                                                *)
LEMMA NoReturnStep ==
  ASSUME IInv, [R!RegistryNext]_R!registryVars
  PROVE  \A c \in Conns : R!Gone(c) => R!Gone(c)'
  BY SocketServerAssumption
  DEF IInv, TypeOK, R!RegistryNext, R!Announce, R!Enter, R!Leave, R!registryVars, R!Registered, R!Gone

(* An entered connection that left the map of the notification service     *)
(* never comes back.                                                       *)
THEOREM NoReturn == Spec => NeverReturns
  <1>1. IInv /\ [Next]_vars => [\A c \in Conns : R!Gone(c) => R!Gone(c)']_R!registryVars
    BY StepMaps, NoReturnStep
  <1> QED
    BY <1>1, Invariance, PTL DEF Spec, NeverReturns, R!NeverReturns

(* Only RemoveUserConnection takes an entry away and puts none in its      *)
(* place.                                                                  *)
LEMMA OnlyRemovalRemoves ==
  ASSUME IInv, [Next]_vars, ~RemoveUserConnection
  PROVE  \A k \in Keys : reg[k] # None => reg'[k] # None
  <1> USE DEF acceptVars, connVars, eventVars, mainVars
  <1>1. ASSUME NEW c \in Conns, AddUserConnection(c)
        PROVE  \A k \in Keys : reg[k] # None => reg'[k] # None
    BY <1>1, SocketServerAssumption DEF AddUserConnection, IInv, TypeOK
  <1>2. CASE AcceptLoop
    BY <1>2 DEF AcceptLoop, Accept, Connected, GreetingRead, GreetingFails, AcceptorPanics,
       CloseListener, AcceptorStops, AcceptFails
  <1>3. ASSUME NEW c \in Conns, Heartbeat(c) PROVE UNCHANGED reg
    BY <1>3 DEF Heartbeat, StartHeartbeat, SetupFatal, HandlerStops, PeerLeaves,
       ReaderMoves, ReaderPolls, ReaderTakesStop, ReaderTakesQuit, ReaderReads, ReaderFails,
       ReaderEmits, ReaderPanics, WriterMoves, WriterFails, WriterTakesStop, WriterTakesQuit,
       WriterEmits, WriterPanics, SendDisconnected
  <1>4. CASE EventHandlerStops
    BY <1>4 DEF EventHandlerStops
  <1>5. CASE Shutdown
    BY <1>5 DEF Shutdown, Signal, RestTakesQuit, RestStops, RestFatal, MainTakesQuit,
       MainClosesEvents, MainClosesQuit, MainExits
  <1>6. CASE UNCHANGED vars
    BY <1>6 DEF vars
  <1> QED
    BY <1>1, <1>2, <1>3, <1>4, <1>5, <1>6 DEF Next, EventHandling

(* Where every client has one connection, no step removes another than the *)
(* one whose heartbeat failed: a second connection of the same number is   *)
(* what RemovesOwnConnection fails by.                                     *)
THEOREM OwnConnectionRemoved ==
  ASSUME \A c, d \in Conns : KeyOf[c] = KeyOf[d] => c = d
  PROVE  Spec => RemovesOwnConnection
  <1> DEFINE Own == \A k \in Keys : reg[k] # None => KeyOf[reg[k]] = k
             Mine == \A k \in Keys : reg[k] # None /\ reg'[k] = None => reg[k] = evConn
  <1>1. Init => Own
    BY DEF Init
  <1>2. ASSUME IInv, [Next]_vars PROVE [R!RegistryNext]_R!registryVars
    BY <1>2, StepMaps
  <1>3. ASSUME IInv, Own, [Next]_vars PROVE Own'
    BY <1>2, <1>3, SocketServerAssumption
    DEF IInv, TypeOK, R!RegistryNext, R!Announce, R!Enter, R!Leave, R!registryVars
  <1>4. ASSUME IInv, Own, [Next]_vars PROVE [Mine]_vars
    <2>1. CASE RemoveUserConnection
      <3>1. evConn \in Conns /\ reg' = [reg EXCEPT ![KeyOf[evConn]] = None]
        BY <1>4, <2>1 DEF RemoveUserConnection, IInv, EventInv
      <3>2. ASSUME NEW k \in Keys, reg[k] # None, reg'[k] = None PROVE reg[k] = evConn
        <4>1. k = KeyOf[evConn] /\ reg[k] \in Conns
          BY <1>4, <3>1, <3>2 DEF IInv, TypeOK
        <4> QED
          BY <1>4, <3>1, <3>2, <4>1
      <3> QED
        BY <3>2
    <2>2. CASE ~RemoveUserConnection
      <3>1. \A k \in Keys : reg[k] # None => reg'[k] # None
        BY <1>2, <1>4, <2>2, SocketServerAssumption, OnlyRemovalRemoves
      <3> QED
        BY <3>1
    <2> QED
      BY <2>1, <2>2
  <1> QED
    BY Invariance, <1>1, <1>3, <1>4, PTL DEF Spec, RemovesOwnConnection
=============================================================================
