----------------------------- MODULE Collector -----------------------------
(***************************************************************************)
(* The ways into the writer and the shutdown around it: the Ship handlers  *)
(* of internal/server/server.go, the loop of internal/syslog/receiver.go   *)
(* and main.go, which closes its own log shipping, stops the gRPC server,  *)
(* waits for the syslog receiver, stops the writer, then the forwarder,    *)
(* and ends the process. The calls of Add and Sync are actions of Writer;  *)
(* the forwarder is what its tap was called with (tapped).                 *)
(***************************************************************************)
EXTENDS Writer

CONSTANTS
    Receivers,        \* the goroutine of the syslog receiver, if configured
    MaxGaps,          \* bound: gaps one stream sends
    HandlersOutlive   \* does srv.Stop return before the handlers have?

Streams == Callers \ Receivers   \* Ship calls

ASSUME CollectorAssumption ==
    /\ Receivers \subseteq Callers
    /\ MaxGaps \in Nat
    /\ HandlersOutlive \in BOOLEAN

VARIABLES
    hpc,          \* where each handler is; for the receiver, where its loop is
    registered,   \* callers whose source UpsertSource has registered
    gaps,         \* rows of the gaps table by stream
    socketOpen,   \* the receiver's UDP socket
    acked,        \* what the stream's ShipAck says, or -1
    mpc,          \* where main is
    outlived      \* history: srv.Stop returned while a handler still ran

ownVars == <<hpc, registered, gaps, socketOpen, acked, mpc, outlived>>
allVars == <<vars, ownVars>>

CollectorInit ==
    /\ Init
    /\ hpc = [c \in Callers |-> IF c \in Receivers THEN "recv" ELSE "none"]
    /\ registered = {} /\ gaps = [c \in Callers |-> 0]
    /\ acked = [c \in Callers |-> 0 - 1]
    /\ socketOpen = TRUE /\ mpc = "serve" /\ outlived = FALSE

Step(c, label) == hpc' = [hpc EXCEPT ![c] = label]
Returned(c) == hpc[c] \in {"none", "returned"}

\* Goroutines end with the process.
At(c, label) == mpc # "exit" /\ hpc[c] = label
-----------------------------------------------------------------------------
(* A Ship handler.                                                         *)

Serving == mpc \in {"serve", "closing"}

\* A component opens a stream while the server takes new ones.
Open(c) ==
    /\ c \in Streams /\ hpc[c] = "none" /\ Serving
    /\ Step(c, "hello")
    /\ UNCHANGED <<vars, registered, gaps, socketOpen, acked, mpc, outlived>>

\* A valid ShipHello: the source is registered ...
Hello(c) ==
    /\ At(c, "hello") /\ ~cancelled[c]
    /\ registered' = registered \cup {c}
    /\ Step(c, "recv")
    /\ UNCHANGED <<vars, gaps, socketOpen, acked, mpc, outlived>>

\* ... or the first message is invalid, UpsertSource fails, or the stream is
\* empty and gets an empty ack.
NoHello(c) ==
    /\ At(c, "hello")
    /\ Step(c, "returned")
    /\ \/ UNCHANGED acked
       \/ acked' = [acked EXCEPT ![c] = 0]
    /\ UNCHANGED <<vars, registered, gaps, socketOpen, mpc, outlived>>

\* Recv returns an entry. The receiver registers its source at the first one,
\* and drops the entry if that fails, as it does on a cancelled context.
RecvEntry(c) ==
    /\ At(c, "recv") /\ adds[c] < MaxAdds
    /\ c \in Receivers => socketOpen /\ (c \in registered \/ ~cancelled[c])
    /\ registered' = registered \cup {c}
    /\ Step(c, "add")
    /\ UNCHANGED <<vars, gaps, socketOpen, acked, mpc, outlived>>

\* A gap goes past the writer, straight to the store; a failing insert is only
\* logged. An unknown message or a second hello changes nothing.
RecvGap(c) ==
    /\ c \in Streams /\ At(c, "recv") /\ gaps[c] < MaxGaps /\ ~cancelled[c]
    /\ gaps' = [gaps EXCEPT ![c] = @ + 1]
    /\ UNCHANGED <<vars, hpc, registered, socketOpen, acked, mpc, outlived>>

AckUnsynced == "ack"                                               \* mutant
AtEOF == "sync"

RecvEOF(c) ==
    /\ c \in Streams /\ At(c, "recv")
    /\ Step(c, AtEOF)
    /\ UNCHANGED <<vars, registered, gaps, socketOpen, acked, mpc, outlived>>

\* Recv fails: the component went away, or the server closed its connection.
\* The receiver's read fails once its socket is closed.
RecvError(c) ==
    /\ At(c, "hello") \/ At(c, "recv")
    /\ cancelled[c] /\ (c \in Receivers => ~socketOpen)
    /\ Step(c, "returned")
    /\ UNCHANGED <<vars, registered, gaps, socketOpen, acked, mpc, outlived>>

\* The receiver's second goroutine closes the socket when the context ends.
CloseSocket ==
    /\ socketOpen /\ mpc # "serve"
    /\ socketOpen' = FALSE
    /\ UNCHANGED <<vars, hpc, registered, gaps, acked, mpc, outlived>>

AddSend(c) == At(c, "add") /\ Add(c) /\ UNCHANGED ownVars

AddReturn(c) ==
    /\ At(c, "add") /\ Tap(c)
    /\ Step(c, "recv")
    /\ UNCHANGED <<registered, gaps, socketOpen, acked, mpc, outlived>>

\* Add fails: a handler returns, the receiver drops the datagram and reads on.
AddFails(c) ==
    /\ At(c, "add") /\ pc[c] = "idle" /\ cancelled[c]
    /\ Step(c, IF c \in Receivers THEN "recv" ELSE "returned")
    /\ UNCHANGED <<vars, registered, gaps, socketOpen, acked, mpc, outlived>>

SyncCall(c) == At(c, "sync") /\ SyncSend(c) /\ UNCHANGED ownVars

SyncOk(c) ==
    /\ At(c, "sync") /\ SyncReturn(c)
    /\ Step(c, IF done[c] = "nil" THEN "ack" ELSE "returned")
    /\ UNCHANGED <<registered, gaps, socketOpen, acked, mpc, outlived>>

SyncGivesUp(c) ==
    /\ At(c, "sync") /\ GiveUp(c)
    /\ Step(c, "returned")
    /\ UNCHANGED <<registered, gaps, socketOpen, acked, mpc, outlived>>

SendAck(c) ==
    /\ At(c, "ack")
    /\ acked' = [acked EXCEPT ![c] = adds[c]]
    /\ Step(c, "returned")
    /\ UNCHANGED <<vars, registered, gaps, socketOpen, mpc, outlived>>

\* The component goes away in the middle of a call.
Disconnect(c) ==
    /\ c \in Streams /\ ~Returned(c) /\ mpc # "exit"
    /\ Cancel(c) /\ UNCHANGED ownVars

\* What a handler does by itself, and what it waits for its component to do.
Handler(c) == \/ RecvError(c) \/ AddSend(c) \/ AddReturn(c) \/ AddFails(c)
              \/ SyncCall(c) \/ SyncOk(c) \/ SyncGivesUp(c) \/ SendAck(c)

Client(c) == \/ Open(c) \/ Hello(c) \/ NoHello(c) \/ RecvEntry(c) \/ RecvGap(c)
             \/ RecvEOF(c) \/ Disconnect(c)
-----------------------------------------------------------------------------
(* main.                                                                   *)

Goes(from, to) == mpc = from /\ mpc' = to

CancelAll(S) == cancelled' = [c \in Callers |-> cancelled[c] \/ c \in S]

mainVars == <<hpc, registered, gaps, socketOpen, acked>>
callVars == <<requests, done, runVars, pc, adds, tapped, due>>

\* SIGTERM ends the context the syslog receiver runs on.
Signal ==
    /\ Goes("serve", "closing")
    /\ CancelAll(Receivers)
    /\ UNCHANGED <<callVars, mainVars, outlived>>

\* shipping.Close: the collector's own stream, one of Streams, sends what is
\* left while the server still takes streams. Then GracefulStop begins.
ShippingClosed ==
    /\ Goes("closing", "graceful")
    /\ UNCHANGED <<vars, mainVars, outlived>>

AllReturned(S) == \A c \in S : Returned(c)

GracefulEnds ==
    /\ AllReturned(Streams) /\ Goes("graceful", "stopped")
    /\ UNCHANGED <<vars, mainVars, outlived>>

WaitForever == FALSE                                               \* mutant
ShutdownTimeout == TRUE

\* shutdownTimeout: srv.Stop closes the connections, which ends the contexts of
\* the handlers still running.
GracefulTimesOut ==
    /\ ShutdownTimeout /\ Goes("graceful", "stop")
    /\ CancelAll({c \in Streams : ~Returned(c)})
    /\ UNCHANGED <<callVars, mainVars, outlived>>

\* External: by default grpc-go's Stop does not wait for the handlers.
StopReturns ==
    /\ HandlersOutlive \/ AllReturned(Streams)
    /\ Goes("stop", "stopped")
    /\ outlived' = ~AllReturned(Streams)
    /\ UNCHANGED <<vars, mainVars>>

ReceiverIgnored == TRUE                                            \* mutant
ReceiverDone == AllReturned(Receivers)

\* <-syslogDone; stopWriter()
StopWriter ==
    /\ ReceiverDone /\ Goes("stopped", "writer")
    /\ Stop
    /\ UNCHANGED <<mainVars, outlived>>

\* <-writerDone; stopForward()
StopForward ==
    /\ wpc = "stopped" /\ Goes("writer", "forward")
    /\ UNCHANGED <<vars, mainVars, outlived>>

\* <-forwardDone: a cancelled forwarder returns (Forwarder's ShutdownCompletes).
\* The process ends with whatever still runs in it.
Exit ==
    /\ Goes("forward", "exit")
    /\ UNCHANGED <<vars, mainVars, outlived>>

Main == \/ ShippingClosed \/ GracefulEnds \/ GracefulTimesOut \/ StopReturns
        \/ StopWriter \/ StopForward \/ Exit

CollectorNext ==
    \/ Main \/ Signal \/ CloseSocket
    \/ Run /\ UNCHANGED ownVars
    \/ \E c \in Callers : Handler(c) \/ Client(c)

CollectorSpec == CollectorInit /\ [][CollectorNext]_allVars

\* Goroutines go on when they can, and a statement of the database returns; a
\* component need not send, close or leave.
FairCollectorSpec ==
    /\ CollectorSpec
    /\ WF_allVars(Main) /\ WF_allVars(CloseSocket)
    /\ WF_allVars(Run /\ UNCHANGED ownVars)
    /\ \A c \in Callers : WF_allVars(Handler(c))
-----------------------------------------------------------------------------
(* Properties.                                                             *)

CollectorTypeOK ==
    /\ TypeOK
    /\ hpc \in [Callers -> {"none", "hello", "recv", "add", "sync", "ack", "returned"}]
    /\ registered \subseteq Callers
    /\ gaps \in [Callers -> 0..MaxGaps] /\ acked \in [Callers -> (0 - 1)..MaxAdds]
    /\ socketOpen \in BOOLEAN
    /\ mpc \in {"serve", "closing", "graceful", "stop", "stopped", "writer",
                "forward", "exit"}
    /\ outlived \in BOOLEAN

\* server.go:74, the Sync before the ack: the ack a component gets counts
\* entries that are settled, all it sent, none of them only in the channel or
\* in the batch, unless srv.Stop left its handler behind. (Settled is less than
\* stored only for a store that fails; see SyncMeansWritten.)
AckMeansSettled ==
    ~outlived => \A c \in Streams : \A k \in 1..acked[c] : <<c, k>> \in Settled

\* main.go:150, "the writer is done, nothing new comes in": when the forwarder is
\* told to stop, each accepted entry is settled and has been offered to it, and
\* none follows until the process ends, however a stream, the receiver and main
\* race and wherever their Adds were at the signal, as long as srv.Stop leaves no
\* handler behind.
NothingLeftBehind ==
    mpc \in {"forward", "exit"} /\ ~outlived =>
        Accepted \subseteq Settled /\ Range(tapped) = Accepted

\* main.go:67: "The writer outlives the gRPC server, so entries received right
\* before shutdown still get flushed", and server.go:81: "Component went away
\* without closing cleanly - what was queued still gets written."
LastEntriesFlushed == mpc = "exit" => Accepted \subseteq Settled

\* The shutdown ends: no stream that stays open, no full channel and no caller
\* blocked in Add or Sync keeps main from exiting.
ShutdownEnds == (mpc = "closing") ~> (mpc = "exit")

\* A stream that was closed by its component gets an answer or sees the error
\* of its call: the handler does not hang, also across a shutdown.
StreamAnswered ==
    \A c \in Streams : (hpc[c] = "sync") ~> (hpc[c] = "returned" \/ mpc = "exit")
=============================================================================
