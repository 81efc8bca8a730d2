-------------------------- MODULE CollectorProofs --------------------------
(***************************************************************************)
(* Proofs about Collector, for any number of Ship streams, entries and     *)
(* cancellations and any sizes of the writer: its types; that an ack       *)
(* counts settled entries only; and that the ordered shutdown leaves       *)
(* nothing behind. They rest on what WriterProofs shows of Add and Sync:   *)
(* every step here is one of Writer's, or cancels several callers at once. *)
(***************************************************************************)
EXTENDS Collector, WriterProofs

(***************************************************************************)
(* The writer's invariants under this use of it.                           *)
(***************************************************************************)

CallersCancelled == UNCHANGED callVars /\ cancelled' \in [Callers -> BOOLEAN]

\* Cancelling streams keeps the shape of what is cancelled.
LEMMA CancelAllType ==
    ASSUME TypeOK, NEW S, CancelAll(S)
    PROVE  cancelled' \in [Callers -> BOOLEAN]
BY DEF TypeOK, CancelAll

\* Seen by the writer alone, a step of the collector is a step of Writer or a
\* cancellation by the server, which touches none of the writer's own variables.
LEMMA IsWriterStep ==
    ASSUME TypeOK, [CollectorNext]_allVars
    PROVE  [Next]_vars \/ CallersCancelled
<1>1. CASE Main
  <2>1. CASE ShippingClosed \/ GracefulEnds \/ StopReturns \/ StopForward \/ Exit
    BY <2>1 DEF ShippingClosed, GracefulEnds, StopReturns, StopForward, Exit
  <2>2. CASE GracefulTimesOut
    BY <2>2, CancelAllType DEF GracefulTimesOut, CallersCancelled
  <2>3. CASE StopWriter
    BY <2>3 DEF StopWriter, Next
  <2> QED BY <1>1, <2>1, <2>2, <2>3 DEF Main
<1>2. CASE Signal
  BY <1>2, CancelAllType DEF Signal, CallersCancelled
<1>3. CASE CloseSocket
  BY <1>3 DEF CloseSocket
<1>4. CASE Run /\ UNCHANGED ownVars
  BY <1>4 DEF Next
<1>5. ASSUME NEW c \in Callers, Handler(c) PROVE [Next]_vars
  <2>1. CASE AddSend(c) \/ AddReturn(c) \/ SyncCall(c) \/ SyncOk(c) \/ SyncGivesUp(c)
    BY <2>1 DEF AddSend, AddReturn, SyncCall, SyncOk, SyncGivesUp, Next, Caller
  <2>2. CASE RecvError(c) \/ AddFails(c) \/ SendAck(c)
    BY <2>2 DEF RecvError, AddFails, SendAck
  <2> QED BY <1>5, <2>1, <2>2 DEF Handler
<1>6. ASSUME NEW c \in Callers, Client(c) PROVE [Next]_vars
  <2>1. CASE Disconnect(c)
    BY <2>1 DEF Disconnect, Next, Caller
  <2>2. CASE Open(c) \/ Hello(c) \/ NoHello(c) \/ RecvEntry(c) \/ RecvGap(c) \/ RecvEOF(c)
    BY <2>2 DEF Open, Hello, NoHello, RecvEntry, RecvGap, RecvEOF
  <2> QED BY <1>6, <2>1, <2>2 DEF Client
<1>7. CASE UNCHANGED allVars
  BY <1>7 DEF allVars
<1> QED BY <1>1, <1>2, <1>3, <1>4, <1>5, <1>6, <1>7 DEF CollectorNext

\* Hence the invariants of Writer are invariants of the collector.
LEMMA WriterInvariants ==
    ASSUME SyncInv, TapExact, [CollectorNext]_allVars
    PROVE  SyncInv' /\ TapExact'
<1>1. TypeOK
  BY DEF SyncInv
<1>2. CASE [Next]_vars
  BY <1>1, <1>2, SyncStep, TapStep
<1>3. CASE CallersCancelled
  <2>1. TypeOK'
    BY <1>1, <1>3 DEF TypeOK, CallersCancelled, callVars, runVars
  <2>2. SyncInv'
    BY <1>3, <2>1, SyncQuiet DEF CallersCancelled, callVars, runVars
  <2>3. TapExact'
    BY <1>3, TapQuiet DEF CallersCancelled, callVars
  <2> QED BY <2>2, <2>3
<1> QED BY <1>1, <1>2, <1>3, IsWriterStep

(***************************************************************************)
(* Types.                                                                  *)
(***************************************************************************)

HandlerLabel == {"none", "hello", "recv", "add", "sync", "ack", "returned"}
MainLabel == {"serve", "closing", "graceful", "stop", "stopped", "writer", "forward", "exit"}

OwnTypeOK ==
    /\ hpc \in [Callers -> HandlerLabel] /\ registered \subseteq Callers
    /\ gaps \in [Callers -> 0..MaxGaps] /\ acked \in [Callers -> (0 - 1)..MaxAdds]
    /\ socketOpen \in BOOLEAN /\ mpc \in MainLabel /\ outlived \in BOOLEAN

\* The shapes of the collector's own variables: at the start ...
LEMMA OwnTypeInit == CollectorInit => OwnTypeOK
<1> SUFFICES ASSUME CollectorInit PROVE OwnTypeOK
  OBVIOUS
<1>1. gaps \in [Callers -> 0..MaxGaps] /\ acked \in [Callers -> (0 - 1)..MaxAdds]
  BY WriterAssumption, CollectorAssumption DEF CollectorInit
<1>2. /\ hpc \in [Callers -> HandlerLabel] /\ registered \subseteq Callers
      /\ socketOpen \in BOOLEAN /\ mpc \in MainLabel /\ outlived \in BOOLEAN
  BY DEF CollectorInit, HandlerLabel, MainLabel
<1> QED BY <1>1, <1>2 DEF OwnTypeOK

\* ... over the steps of main, ...
LEMMA OwnTypeMain ==
    ASSUME OwnTypeOK, Main \/ Signal \/ CloseSocket
    PROVE  OwnTypeOK'
<1>1. UNCHANGED <<hpc, registered, gaps, acked>> /\ socketOpen' \in BOOLEAN
  BY DEF Main, Signal, CloseSocket, ShippingClosed, GracefulEnds, GracefulTimesOut,
         StopReturns, StopWriter, StopForward, Exit, mainVars, OwnTypeOK
<1>2. mpc' \in MainLabel
  BY DEF Main, Signal, CloseSocket, ShippingClosed, GracefulEnds, GracefulTimesOut,
         StopReturns, StopWriter, StopForward, Exit, Goes, MainLabel, OwnTypeOK
<1>3. outlived' \in BOOLEAN
  BY DEF Main, Signal, CloseSocket, ShippingClosed, GracefulEnds, GracefulTimesOut,
         StopReturns, StopWriter, StopForward, Exit, OwnTypeOK
<1> QED BY <1>1, <1>2, <1>3 DEF OwnTypeOK

\* ... over those of the handlers and their clients, ...
LEMMA OwnTypeCaller ==
    ASSUME TypeOK, OwnTypeOK, NEW c \in Callers, Handler(c) \/ Client(c)
    PROVE  OwnTypeOK'
<1>1. UNCHANGED <<socketOpen, mpc, outlived>>
  BY DEF Handler, Client, RecvError, AddSend, AddReturn, AddFails, SyncCall, SyncOk,
         SyncGivesUp, SendAck, Open, Hello, NoHello, RecvEntry, RecvGap, RecvEOF,
         Disconnect, ownVars
<1>2. hpc' = hpc \/ \E label \in HandlerLabel : hpc' = [hpc EXCEPT ![c] = label]
  BY DEF Handler, Client, RecvError, AddSend, AddReturn, AddFails, SyncCall, SyncOk,
         SyncGivesUp, SendAck, Open, Hello, NoHello, RecvEntry, RecvGap, RecvEOF,
         Disconnect, ownVars, Step, AtEOF, HandlerLabel
<1>3. registered' \subseteq Callers
  BY DEF Handler, Client, RecvError, AddSend, AddReturn, AddFails, SyncCall, SyncOk,
         SyncGivesUp, SendAck, Open, Hello, NoHello, RecvEntry, RecvGap, RecvEOF,
         Disconnect, ownVars, OwnTypeOK
<1>4. gaps' = gaps \/ (gaps[c] < MaxGaps /\ gaps' = [gaps EXCEPT ![c] = @ + 1])
  BY DEF Handler, Client, RecvError, AddSend, AddReturn, AddFails, SyncCall, SyncOk,
         SyncGivesUp, SendAck, Open, Hello, NoHello, RecvEntry, RecvGap, RecvEOF,
         Disconnect, ownVars
<1>5. gaps' \in [Callers -> 0..MaxGaps]
  BY <1>4, CollectorAssumption DEF OwnTypeOK
<1>6. acked' = acked \/ acked' = [acked EXCEPT ![c] = 0] \/ acked' = [acked EXCEPT ![c] = adds[c]]
  BY DEF Handler, Client, RecvError, AddSend, AddReturn, AddFails, SyncCall, SyncOk,
         SyncGivesUp, SendAck, Open, Hello, NoHello, RecvEntry, RecvGap, RecvEOF,
         Disconnect, ownVars
<1>7. acked' \in [Callers -> (0 - 1)..MaxAdds]
  <2>1. /\ 0 \in (0 - 1)..MaxAdds /\ adds[c] \in (0 - 1)..MaxAdds
        /\ acked \in [Callers -> (0 - 1)..MaxAdds]
    BY WriterAssumption DEF TypeOK, OwnTypeOK
  <2> QED BY <1>6, <2>1
<1>8. hpc' \in [Callers -> HandlerLabel]
  BY <1>2 DEF OwnTypeOK
<1> QED BY <1>1, <1>3, <1>5, <1>7, <1>8 DEF OwnTypeOK

\* ... and so over every step.
LEMMA OwnTypeStep ==
    ASSUME TypeOK, OwnTypeOK, [CollectorNext]_allVars
    PROVE  OwnTypeOK'
<1>1. ASSUME UNCHANGED ownVars PROVE OwnTypeOK'
  BY <1>1 DEF ownVars, OwnTypeOK
<1> QED BY <1>1, OwnTypeMain, OwnTypeCaller DEF CollectorNext, allVars

(***************************************************************************)
(* A handler and its calls of the writer: where the one is, the other is.  *)
(***************************************************************************)

Own(c) == {e \in Entry : e[1] = c /\ e[2] <= adds[c]}

CallOK(c) ==
    /\ hpc[c] \in {"none", "hello", "recv"} => pc[c] = "idle"
    /\ hpc[c] = "add" => pc[c] \in {"idle", "tap"}
    /\ hpc[c] = "sync" => pc[c] \in {"idle", "wait"}
    /\ hpc[c] = "ack" => pc[c] = "gone"
    /\ hpc[c] = "returned" => pc[c] \in {"idle", "gone"}

\* The Sync before the ack was about all that its stream had added.
SyncOK(c) ==
    /\ pc[c] = "wait" \/ hpc[c] = "ack" => Own(c) \subseteq due[c]
    /\ hpc[c] = "ack" => done[c] # "empty"

CallsOK == \A c \in Callers : CallOK(c) /\ SyncOK(c)

\* The calls in progress: none at the start, ...
LEMMA CallsInit == CollectorInit => CallsOK
BY DEF CollectorInit, Init, CallsOK, CallOK, SyncOK

\* Whatever Run does, answers are not taken back and the settled stay settled.
LEMMA RunEffect ==
    ASSUME TypeOK, Run
    PROVE  /\ UNCHANGED callerVars /\ stop' = stop
           /\ \A c \in Callers : done[c] # "empty" => done'[c] # "empty"
           /\ Settled \subseteq Settled'
<1>1. CASE Receive \/ Tick \/ StartDrain \/ EndDrain
  BY <1>1 DEF Receive, Tick, StartDrain, EndDrain, Settled, Stored
<1>2. CASE Drain
  BY <1>2 DEF Drain, Settled, Stored, Answered, TypeOK
<1>3. ASSUME NEW ok \in BOOLEAN, Flush(ok)
      PROVE  /\ UNCHANGED callerVars /\ stop' = stop
             /\ \A c \in Callers : done[c] # "empty" => done'[c] # "empty"
             /\ Settled \subseteq Settled'
  <2>1. Range(entries \o batch) = Range(entries) \cup Range(batch)
    BY RangeConcatenation DEF TypeOK
  <2>2. Settled \subseteq Settled'
    BY <1>3, <2>1 DEF Flush, Settled, Stored
  <2>3. \A c \in Callers : done[c] # "empty" => done'[c] # "empty"
    BY <1>3 DEF Flush, Answered, TypeOK
  <2> QED BY <1>3, <2>2, <2>3 DEF Flush
<1> QED BY <1>1, <1>2, <1>3 DEF Run

\* Nobody else touches the table.
LEMMA OthersEffect ==
    ASSUME [CollectorNext]_allVars, ~(Run /\ UNCHANGED ownVars)
    PROVE  UNCHANGED <<batch, wpc, entries, lost, done>> /\ Settled' = Settled
<1>1. UNCHANGED <<batch, wpc, entries, lost, done>>
  <2>1. CASE Main \/ Signal \/ CloseSocket \/ UNCHANGED allVars
    BY <2>1 DEF Main, Signal, CloseSocket, ShippingClosed, GracefulEnds, GracefulTimesOut,
                StopReturns, StopWriter, StopForward, Exit, Stop, vars, runVars, callVars, allVars
  <2>2. ASSUME NEW c \in Callers, Handler(c) \/ Client(c)
        PROVE  UNCHANGED <<batch, wpc, entries, lost, done>>
    BY <2>2 DEF Handler, Client, RecvError, AddSend, AddReturn, AddFails, SyncCall, SyncOk,
                SyncGivesUp, SendAck, Open, Hello, NoHello, RecvEntry, RecvGap, RecvEOF,
                Disconnect, Add, Tap, SyncSend, SyncReturn, Cancel, GiveUp, vars, runVars
  <2> QED BY <2>1, <2>2 DEF CollectorNext
<1> QED BY <1>1 DEF Settled, Stored

\* A step of one caller is about this caller only.
LEMMA CallerEffect ==
    ASSUME TypeOK, OwnTypeOK, NEW c \in Callers, Handler(c) \/ Client(c), NEW d \in Callers \ {c}
    PROVE  /\ hpc'[d] = hpc[d] /\ pc'[d] = pc[d] /\ adds'[d] = adds[d]
           /\ due'[d] = due[d]
BY DEF TypeOK, OwnTypeOK, Handler, Client, RecvError, AddSend, AddReturn, AddFails, SyncCall,
       SyncOk, SyncGivesUp, SendAck, Open, Hello, NoHello, RecvEntry, RecvGap, RecvEOF,
       Disconnect, ownVars, Step, Add, Tap, SyncSend, SyncReturn, Cancel, GiveUp, Goto,
       vars, callerVars

\* ... a caller keeps its own in order, ...
LEMMA CallsOfCaller ==
    ASSUME TypeOK, OwnTypeOK, CallsOK, NEW c \in Callers, Handler(c) \/ Client(c)
    PROVE  CallOK(c)' /\ SyncOK(c)'
<1> USE DEF TypeOK, OwnTypeOK, CallsOK, CallOK, SyncOK, Own, At, Step, Goto
<1>1. CASE RecvError(c) \/ AddFails(c) \/ SendAck(c)
  BY <1>1 DEF RecvError, AddFails, SendAck, vars, callerVars
<1>2. CASE AddSend(c)
  BY <1>2 DEF AddSend, Add, ownVars
<1>3. CASE AddReturn(c)
  BY <1>3 DEF AddReturn, Tap
<1>4. CASE SyncCall(c)
  BY <1>4 DEF SyncCall, SyncSend, ownVars, Accepted
<1>5. CASE SyncOk(c)
  BY <1>5 DEF SyncOk, SyncReturn
<1>6. CASE SyncGivesUp(c)
  BY <1>6 DEF SyncGivesUp, GiveUp
<1>7. CASE Open(c) \/ Hello(c) \/ NoHello(c) \/ RecvEntry(c) \/ RecvGap(c) \/ RecvEOF(c)
  BY <1>7 DEF Open, Hello, NoHello, RecvEntry, RecvGap, RecvEOF, AtEOF, vars, callerVars
<1>8. CASE Disconnect(c)
  BY <1>8 DEF Disconnect, Cancel, ownVars
<1> QED BY <1>1, <1>2, <1>3, <1>4, <1>5, <1>6, <1>7, <1>8 DEF Handler, Client

\* ... and nobody disturbs those of another.
LEMMA CallsStep ==
    ASSUME TypeOK, OwnTypeOK, CallsOK, [CollectorNext]_allVars
    PROVE  CallsOK'
<1>1. ASSUME UNCHANGED <<hpc, pc, adds, due>>,
             \A c \in Callers : done[c] # "empty" => done'[c] # "empty"
      PROVE  CallsOK'
  BY <1>1 DEF CallsOK, CallOK, SyncOK, Own
<1>2. CASE Main \/ Signal \/ CloseSocket
  BY <1>1, <1>2 DEF Main, Signal, CloseSocket, ShippingClosed, GracefulEnds, GracefulTimesOut,
         StopReturns, StopWriter, StopForward, Exit, Stop, mainVars, callVars, vars, callerVars
<1>3. CASE Run /\ UNCHANGED ownVars
  BY <1>1, <1>3, RunEffect DEF ownVars, callerVars
<1>4. ASSUME NEW c \in Callers, Handler(c) \/ Client(c) PROVE CallsOK'
  <2>1. ~(Run /\ UNCHANGED ownVars) => UNCHANGED done
    BY OthersEffect
  <2>2. \A d \in Callers \ {c} : CallOK(d)' /\ SyncOK(d)'
    <3> SUFFICES ASSUME NEW d \in Callers \ {c} PROVE CallOK(d)' /\ SyncOK(d)'
      OBVIOUS
    <3>1. /\ hpc'[d] = hpc[d] /\ pc'[d] = pc[d] /\ adds'[d] = adds[d] /\ due'[d] = due[d]
      BY <1>4, CallerEffect
    <3>2. done[d] # "empty" => done'[d] # "empty"
      BY <2>1, RunEffect
    <3> QED BY <3>1, <3>2 DEF CallsOK, CallOK, SyncOK, Own
  <2> QED BY <1>4, <2>2, CallsOfCaller DEF CallsOK
<1>5. CASE UNCHANGED allVars
  BY <1>1, <1>5 DEF allVars, ownVars, vars, callerVars
<1> QED BY <1>2, <1>3, <1>4, <1>5 DEF CollectorNext

(***************************************************************************)
(* The phases of the shutdown. Who has returned stays returned, so that    *)
(* nobody calls the writer any more once it drains.                        *)
(***************************************************************************)

AfterStop == {"stopped", "writer", "forward", "exit"}

MainOK ==
    /\ outlived => mpc \in AfterStop
    /\ mpc \in AfterStop /\ ~outlived => AllReturned(Streams)
    /\ mpc \in AfterStop \ {"stopped"} => AllReturned(Receivers)
    /\ stop => mpc \in AfterStop \ {"stopped"}
    /\ mpc \in {"forward", "exit"} => wpc = "stopped"

WriterPhaseOK ==
    /\ wpc \in {"drain", "final", "stopped"} => stop
    /\ wpc \in {"final", "stopped"} /\ ~outlived => requests = <<>>
    /\ wpc = "stopped" => batch = <<>>

PhaseOK == MainOK /\ WriterPhaseOK

\* The phases of main and Run fit each other: at the start ...
LEMMA PhaseInit == CollectorInit => PhaseOK
BY DEF CollectorInit, Init, PhaseOK, MainOK, WriterPhaseOK, AfterStop

\* Only a handler that has not returned takes a step, or one that is opened
\* while the server takes streams.
LEMMA CallerActive ==
    ASSUME NEW c \in Callers, Handler(c) \/ Client(c)
    PROVE  ~Returned(c) \/ (c \in Streams /\ Serving)
BY DEF Handler, Client, RecvError, AddSend, AddReturn, AddFails, SyncCall, SyncOk,
       SyncGivesUp, SendAck, Open, Hello, NoHello, RecvEntry, RecvGap, RecvEOF,
       Disconnect, At, Returned

\* So in the drain nobody does, unless srv.Stop left a handler behind.
LEMMA NobodyCalls ==
    ASSUME MainOK, stop, ~outlived, NEW c \in Callers
    PROVE  Returned(c) /\ ~Serving
BY DEF MainOK, AfterStop, AllReturned, Streams, Serving

\* ... over the steps of main, which only advance as the code orders them, ...
LEMMA PhaseMain ==
    ASSUME OwnTypeOK, PhaseOK, Main \/ Signal \/ CloseSocket
    PROVE  PhaseOK'
<1> USE DEF PhaseOK, MainOK, WriterPhaseOK, AfterStop, AllReturned, Returned, Goes
<1>1. CASE ShippingClosed
  BY <1>1 DEF ShippingClosed, mainVars, vars, runVars
<1>2. CASE GracefulEnds
  BY <1>2 DEF GracefulEnds, mainVars, vars, runVars
<1>3. CASE GracefulTimesOut
  BY <1>3 DEF GracefulTimesOut, mainVars, callVars, runVars
<1>4. CASE StopReturns
  BY <1>4 DEF StopReturns, mainVars, vars, runVars
<1>5. CASE StopWriter
  BY <1>5 DEF StopWriter, ReceiverDone, Stop, mainVars
<1>6. CASE StopForward
  BY <1>6 DEF StopForward, mainVars, vars, runVars
<1>7. CASE Exit
  BY <1>7 DEF Exit, mainVars, vars, runVars
<1>8. CASE Signal
  BY <1>8 DEF Signal, mainVars, callVars, runVars
<1>9. CASE CloseSocket
  BY <1>9 DEF CloseSocket, vars, runVars
<1> QED BY <1>1, <1>2, <1>3, <1>4, <1>5, <1>6, <1>7, <1>8, <1>9 DEF Main

\* ... over those of Run, ...
LEMMA PhaseRun ==
    ASSUME TypeOK, PhaseOK, Run, UNCHANGED ownVars
    PROVE  PhaseOK'
<1> USE DEF PhaseOK, MainOK, WriterPhaseOK, AfterStop, AllReturned, Returned, ownVars
<1>1. CASE Receive
  BY <1>1 DEF Receive, AfterRequest
<1>2. CASE Tick
  BY <1>2 DEF Tick
<1>3. ASSUME NEW ok \in BOOLEAN, Flush(ok) PROVE PhaseOK'
  BY <1>3 DEF Flush, NoBatch
<1>4. CASE StartDrain
  BY <1>4 DEF StartDrain
<1>5. CASE Drain
  BY <1>5 DEF Drain
<1>6. CASE EndDrain
  BY <1>6 DEF EndDrain, Drained
<1> QED BY <1>1, <1>2, <1>3, <1>4, <1>5, <1>6 DEF Run

\* ... over those of the callers, ...
LEMMA PhaseCaller ==
    ASSUME TypeOK, OwnTypeOK, PhaseOK, NEW c \in Callers, Handler(c) \/ Client(c)
    PROVE  PhaseOK'
<1>1. UNCHANGED <<mpc, outlived, stop, wpc, batch>>
  BY DEF Handler, Client, RecvError, AddSend, AddReturn, AddFails, SyncCall, SyncOk,
         SyncGivesUp, SendAck, Open, Hello, NoHello, RecvEntry, RecvGap, RecvEOF,
         Disconnect, ownVars, Add, Tap, SyncSend, SyncReturn, Cancel, GiveUp, vars, runVars
<1>2. \A d \in Callers : Returned(d) /\ (d = c => ~Serving \/ d \in Receivers) => Returned(d)'
  BY CallerActive, CallerEffect DEF Returned, Streams
<1>3. MainOK'
  <2>1. ASSUME mpc \in AfterStop PROVE ~Serving
    BY <2>1 DEF AfterStop, Serving
  <2>2. \A d \in Receivers : d \in Callers
    BY CollectorAssumption
  <2> QED BY <1>1, <1>2, <2>1, <2>2 DEF PhaseOK, MainOK, AllReturned, Streams, AfterStop
<1>4. WriterPhaseOK'
  <2>1. ~stop \/ outlived
    BY CallerActive, NobodyCalls DEF PhaseOK
  <2> QED BY <1>1, <2>1 DEF PhaseOK, WriterPhaseOK
<1> QED BY <1>3, <1>4 DEF PhaseOK

\* ... and so over every step.
LEMMA PhaseStep ==
    ASSUME TypeOK, OwnTypeOK, PhaseOK, [CollectorNext]_allVars
    PROVE  PhaseOK'
<1>1. CASE UNCHANGED allVars
  BY <1>1 DEF allVars, ownVars, vars, runVars, PhaseOK, MainOK, WriterPhaseOK, AllReturned, Returned
<1> QED BY <1>1, PhaseMain, PhaseRun, PhaseCaller DEF CollectorNext

(***************************************************************************)
(* The ack, and all together.                                              *)
(***************************************************************************)

\* Nothing is acknowledged at the start, ...
LEMMA AckInit == CollectorInit => AckMeansSettled
BY DEF CollectorInit, AckMeansSettled, Streams

\* ... and an acknowledgement is sent only after a Sync that answered nil for all
\* the handler had added (server.go:74).
LEMMA AckStep ==
    ASSUME SyncInv, OwnTypeOK, CallsOK, PhaseOK, AckMeansSettled, [CollectorNext]_allVars
    PROVE  AckMeansSettled'
<1>1. TypeOK
  BY DEF SyncInv
<1>2. Settled \subseteq Settled'
  BY <1>1, RunEffect, OthersEffect
<1>3. ASSUME acked' = acked, ~outlived' => ~outlived PROVE AckMeansSettled'
  <2>1. SUFFICES ASSUME ~outlived', NEW c \in Streams, NEW k \in 1..acked[c]
                 PROVE  <<c, k>> \in Settled'
    BY <1>3 DEF AckMeansSettled
  <2>2. ~outlived
    BY <1>3, <2>1
  <2>3. <<c, k>> \in Settled
    BY <2>2 DEF AckMeansSettled
  <2> QED BY <1>2, <2>3
<1>4. CASE Main \/ Signal \/ CloseSocket
  <2>1. acked' = acked
    BY <1>4 DEF Main, Signal, CloseSocket, ShippingClosed, GracefulEnds, GracefulTimesOut,
         StopReturns, StopWriter, StopForward, Exit, mainVars
  <2>2. outlived' = outlived \/ StopReturns
    BY <1>4 DEF Main, Signal, CloseSocket, ShippingClosed, GracefulEnds, GracefulTimesOut,
         StopWriter, StopForward, Exit
  <2>3. StopReturns => ~outlived
    BY DEF StopReturns, Goes, PhaseOK, MainOK, AfterStop, OwnTypeOK
  <2> QED BY <1>3, <2>1, <2>2, <2>3
<1>5. ASSUME NEW c \in Callers, Handler(c) \/ Client(c) PROVE AckMeansSettled'
  <2>1. outlived' = outlived
    BY <1>5 DEF Handler, Client, RecvError, AddSend, AddReturn, AddFails, SyncCall, SyncOk,
         SyncGivesUp, SendAck, Open, Hello, NoHello, RecvEntry, RecvGap, RecvEOF,
         Disconnect, ownVars
  <2>2. CASE SendAck(c)
    <3> SUFFICES ASSUME ~outlived, NEW d \in Streams, NEW k \in 1..acked'[d]
                 PROVE  <<d, k>> \in Settled'
      BY <2>1 DEF AckMeansSettled
    <3>1. CASE d # c
      BY <1>2, <2>2, <3>1 DEF SendAck, AckMeansSettled, OwnTypeOK, Streams
    <3>2. CASE d = c
      <4>1. hpc[c] = "ack" /\ acked'[c] = adds[c]
        BY <2>2 DEF SendAck, At, OwnTypeOK
      <4>2. Own(c) \subseteq due[c] /\ done[c] # "empty"
        BY <4>1 DEF CallsOK, SyncOK
      <4>3. ~stop
        BY <1>5, <4>1, NobodyCalls DEF PhaseOK, Returned
      <4>4. due[c] \subseteq Settled
        BY <4>2, <4>3 DEF SyncInv, SyncCovers, PhaseOK, WriterPhaseOK
      <4>5. <<c, k>> \in Own(c)
        BY <1>1, <3>2, <4>1, WriterAssumption DEF Own, Entry, TypeOK
      <4> QED BY <1>2, <3>2, <4>2, <4>4, <4>5
    <3> QED BY <3>1, <3>2
  <2>3. CASE NoHello(c)
    <3> SUFFICES ASSUME ~outlived, NEW d \in Streams, NEW k \in 1..acked'[d]
                 PROVE  <<d, k>> \in Settled'
      BY <2>1 DEF AckMeansSettled
    <3>1. acked' = acked \/ acked' = [acked EXCEPT ![c] = 0]
      BY <2>3 DEF NoHello
    <3>2. acked'[d] = acked[d]
      BY <3>1 DEF OwnTypeOK, Streams
    <3> QED BY <1>2, <3>2 DEF AckMeansSettled
  <2>4. CASE ~SendAck(c) /\ ~NoHello(c)
    <3>1. acked' = acked
      BY <1>5, <2>4 DEF Handler, Client, RecvError, AddSend, AddReturn, AddFails, SyncCall, SyncOk,
         SyncGivesUp, Open, Hello, RecvEntry, RecvGap, RecvEOF, Disconnect, ownVars
    <3> QED BY <1>3, <2>1, <3>1
  <2> QED BY <2>2, <2>3, <2>4
<1>6. CASE (Run /\ UNCHANGED ownVars) \/ UNCHANGED allVars
  BY <1>3, <1>6 DEF ownVars, allVars
<1> QED BY <1>4, <1>5, <1>6 DEF CollectorNext

CollectorInv == SyncInv /\ TapExact /\ OwnTypeOK /\ CallsOK /\ PhaseOK /\ AckMeansSettled

\* The collector starts in its invariant, ...
LEMMA CollectorInvInit == CollectorInit => CollectorInv
BY SyncInit, TapInit, OwnTypeInit, CallsInit, PhaseInit, AckInit DEF CollectorInit, CollectorInv

\* ... every step keeps it, ...
LEMMA CollectorInvStep == CollectorInv /\ [CollectorNext]_allVars => CollectorInv'
<1> SUFFICES ASSUME CollectorInv, [CollectorNext]_allVars PROVE CollectorInv'
  OBVIOUS
<1>1. TypeOK /\ SyncInv /\ TapExact /\ OwnTypeOK /\ CallsOK /\ PhaseOK /\ AckMeansSettled
  BY DEF CollectorInv, SyncInv
<1>2. SyncInv' /\ TapExact'
  BY <1>1, WriterInvariants
<1>3. OwnTypeOK' /\ CallsOK' /\ PhaseOK' /\ AckMeansSettled'
  BY <1>1, OwnTypeStep, CallsStep, PhaseStep, AckStep
<1> QED BY <1>2, <1>3 DEF CollectorInv

\* ... so it holds in every state the collector reaches.
LEMMA CollectorCorrect == CollectorSpec => []CollectorInv
BY CollectorInvInit, CollectorInvStep, PTL DEF CollectorSpec

\* For any streams and any sizes: every variable of the handlers, of main and of
\* the writer below them keeps its shape, the channel and the batch their bounds.
THEOREM CollectorTypeCorrect == CollectorSpec => []CollectorTypeOK
<1>1. CollectorInv => CollectorTypeOK
  BY DEF CollectorInv, SyncInv, OwnTypeOK, HandlerLabel, MainLabel, CollectorTypeOK
<1> QED BY <1>1, CollectorCorrect, PTL

\* For any streams, cancellations and failures: an ack counts entries that are
\* settled, all of them (server.go:74), unless srv.Stop left a handler behind.
THEOREM AcksAreSettled == CollectorSpec => []AckMeansSettled
<1>1. CollectorInv => AckMeansSettled
  BY DEF CollectorInv
<1> QED BY <1>1, CollectorCorrect, PTL

\* For any streams, and wherever they are when the signal comes: when main stops
\* the forwarder, every accepted entry is settled and was offered (main.go:150).
THEOREM ShutdownLeavesNothing == CollectorSpec => []NothingLeftBehind
<1>1. ASSUME CollectorInv, mpc \in {"forward", "exit"}, ~outlived
      PROVE  Accepted \subseteq Settled /\ Range(tapped) = Accepted
  <2>1. wpc = "stopped" /\ stop /\ requests = <<>> /\ batch = <<>>
    BY <1>1 DEF CollectorInv, PhaseOK, MainOK, WriterPhaseOK
  <2>2. Accepted \subseteq Settled
    <3>1. Range(batch) = {} /\ Before(requests, Len(requests) + 1) = {}
      BY <2>1, RangeOfEmpty, BeforeFirst, EmptySeq
    <3> QED BY <1>1, <3>1 DEF CollectorInv, SyncInv, NothingForgotten, Taken
  <2>3. \A c \in Callers : Returned(c)
    BY <1>1, <2>1, NobodyCalls DEF CollectorInv, PhaseOK
  <2>4. \A c \in Callers : pc[c] # "tap"
    BY <1>1, <2>3 DEF CollectorInv, CallsOK, CallOK, Returned
  <2> QED BY <1>1, <2>2, <2>4 DEF CollectorInv, TapExact
<1>2. CollectorInv => NothingLeftBehind
  BY <1>1 DEF NothingLeftBehind
<1> QED BY <1>2, CollectorCorrect, PTL
(***************************************************************************)
(* The ordered log.                                                        *)
(***************************************************************************)

\* For any streams, receiver and shutdown: seen through the writer the whole
\* collector is the ordered log AcceptedLog. A signal, a stream that is cut off
\* and srv.Stop (main.go:163) come between its steps and change nothing in it.
THEOREM CollectorIsTheLog == CollectorSpec => ImplementsLog
<1> DEFINE I == TypeOK /\ OncePlaced
<1>1. CollectorInit => I /\ Log!Init
  BY TypeInit, PlacedInit, LogInit DEF CollectorInit
<1>2. I /\ [CollectorNext]_allVars => I' /\ [Log!Next]_(Log!vars)
  <2> SUFFICES ASSUME TypeOK, OncePlaced, [CollectorNext]_allVars
               PROVE  TypeOK' /\ OncePlaced' /\ [Log!Next]_(Log!vars)
    OBVIOUS
  <2>1. CASE [Next]_vars
    BY <2>1, TypeStep, PlacedStep, LogStep
  <2>2. CASE CallersCancelled
    <3>1. TypeOK'
      BY <2>2 DEF TypeOK, CallersCancelled, callVars, runVars
    <3>2. OncePlaced'
      BY <2>2 DEF OncePlaced, Accepted, Queued, Settled, Stored, CallersCancelled, callVars, runVars
    <3>3. UNCHANGED <<batch \o Line(requests), entries, lost>>
      BY <2>2 DEF CallersCancelled, callVars, runVars
    <3> QED BY <3>1, <3>2, <3>3, LogStutters
  <2> QED BY <2>1, <2>2, IsWriterStep
<1> QED BY <1>1, <1>2, PTL DEF CollectorSpec, ImplementsLog, Log!Spec
=============================================================================
