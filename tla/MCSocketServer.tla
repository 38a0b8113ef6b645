--------------------------- MODULE MCSocketServer ---------------------------
(* Instances of SocketServer for TLC.                                      *)
EXTENDS SocketServer, TLC

CONSTANTS c1, c2, k1

TwoConns == {c1, c2}
OneKey == {k1}

(* Two connections of one client: it lost the first and came back.         *)
SameClient == [c \in TwoConns |-> k1]

(* One connection, for liveness across the shutdown.                       *)
OneConn == {c1}
OneClient == [c \in OneConn |-> k1]

(* c1 and c2 send the same number.                                         *)
Swap == Permutations({c1, c2})

(* The conditions of NobodyStuck are those of the actions.                 *)
RunsMeansEnabled ==
    proc = "running" =>
        /\ \A c \in Conns :
              /\ HandlerRuns(c) <=> ENABLED (StartHeartbeat(c) \/ HandlerStops(c))
              /\ ReaderRuns(c) <=>
                    ENABLED (ReaderPolls(c) \/ ReaderTakesStop(c) \/ ReaderTakesQuit(c)
                             \/ ReaderReads(c) \/ ReaderFails(c) \/ ReaderEmits(c) \/ ReaderPanics(c))
        /\ EventsRun <=> ENABLED (RemoveUserConnection \/ EventHandlerStops)
        /\ AcceptorRuns <=>
              ENABLED (GreetingRead \/ GreetingFails \/ AcceptorPanics \/ AcceptorStops \/ CloseListener
                       \/ \E c \in Conns : Connected(c))
=============================================================================
