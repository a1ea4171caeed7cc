------------------------ MODULE KubeletMonitorProofs ------------------------
(***************************************************************************)
(* Proofs about KubeletMonitor, for any set of plugin servers and any      *)
(* number of restarts of the kubelet.                                      *)
(***************************************************************************)
EXTENDS KubeletMonitor, TLAPS

\* A watcher holds one event for each time the kubelet came back, at most.
EventsBounded == \A s \in Servers : events[s] <= restarts

TInv == TypeOK /\ EventsBounded

\* Nothing but the end of the context or of the process stops a server.
StoppedForCause == \A s \in Servers : socket[s] = "stopped" => ctxDone \/ ~alive

\* Whoever registers s, StartServers or the reader, comes after its Listen.
ListensFirst ==
    /\ starter \in {"registering", "watching"} => \A s \in current : socket[s] # "none"
    /\ \A s \in Servers : reader[s] # "none" => socket[s] # "none"
    /\ \A s \in registered : socket[s] # "none"

\* The watcher of a server is opened once, by StartServers, when nothing is on
\* its way yet: its goroutines cannot be started a second time.
OpenedOnce ==
    /\ \A s \in todo : monitor[s] = "none"
    /\ starter \in {"starting", "dialing", "registering", "watching"} =>
          \A s \in current : monitor[s] = "none"

\* The two goroutines of a server start together; nothing but the end of the
\* context or of the process ends one of them.
RunTogether ==
    \A s \in Servers :
        /\ monitor[s] = "none" <=> reader[s] = "none"
        /\ watched[s] => monitor[s] # "none"
        /\ alive /\ ~ctxDone => monitor[s] # "done" /\ reader[s] # "done"

\* Each restart that was seen is answered, or on its way.
NoneLost ==
    alive /\ ~ctxDone =>
        \A s \in Servers : up /\ watched[s] => s \in registered \/ OnItsWay(s)

IInv == TInv /\ StoppedForCause /\ ListensFirst /\ OpenedOnce /\ RunTogether /\ NoneLost
-----------------------------------------------------------------------------
\* Types hold at the start ...
LEMMA InitTInv == Init => TInv
<1> SUFFICES ASSUME Init PROVE TInv
    OBVIOUS
<1>1. /\ restarts = 0 /\ events = [s \in Servers |-> 0]
      /\ monitorCh = [s \in Servers |-> 0] /\ MaxRestarts \in Nat
    BY KubeletMonitorAssumption DEF Init
<1>2. EventsBounded /\ restarts \in 0 .. MaxRestarts
    BY <1>1 DEF EventsBounded
<1>3. events \in [Servers -> 0 .. MaxRestarts] /\ monitorCh \in [Servers -> 0 .. 1]
    BY <1>1
<1>4. /\ up \in BOOLEAN /\ ctxDone \in BOOLEAN /\ alive \in BOOLEAN
      /\ watched \in [Servers -> BOOLEAN]
    BY DEF Init
<1>5. QED
    BY <1>2, <1>3, <1>4 DEF TInv, TypeOK, Init

\* ... and every step keeps them: KubeletStarts is what adds events, under the
\* bound of the restarts, and a message is sent into an empty channel only.
LEMMA StepTInv == TInv /\ [Next]_vars => TInv'
<1> SUFFICES ASSUME TInv, [Next]_vars PROVE TInv'
    OBVIOUS
<1> USE KubeletMonitorAssumption DEF TInv, TypeOK, EventsBounded
<1>1. CASE KubeletStops
    BY <1>1 DEF KubeletStops, startVars, monitorVars
<1>2. CASE KubeletStarts
    <2>1. watched' \in [Servers -> BOOLEAN]
        BY <1>2 DEF KubeletStarts
    <2>2. restarts' = restarts + 1 /\ restarts' \in 0 .. MaxRestarts
        BY <1>2 DEF KubeletStarts
    <2>3. \A s \in Servers : events'[s] \in {events[s], events[s] + 1}
        BY <1>2 DEF KubeletStarts
    <2>4. \A s \in Servers : events'[s] \in 0 .. MaxRestarts /\ events'[s] <= restarts'
        BY <2>2, <2>3
    <2>5. events' \in [Servers -> 0 .. MaxRestarts]
        BY <1>2, <2>4 DEF KubeletStarts
    <2>6. QED
        BY <1>2, <2>1, <2>2, <2>4, <2>5 DEF KubeletStarts, startVars
<1>3. CASE Cancel \/ CloseLister \/ UNCHANGED vars
    <2>1. CASE Cancel
        BY <2>1 DEF Cancel, kubeletVars, startVars, monitorVars
    <2>2. CASE CloseLister
        BY <2>2 DEF CloseLister, kubeletVars, startVars, monitorVars
    <2>3. CASE UNCHANGED vars
        BY <2>3 DEF kubeletVars, startVars, monitorVars, vars
    <2>4. QED
        BY <1>3, <2>1, <2>2, <2>3
<1>4. CASE Starter
    <2>1. CASE Connect
        BY <2>1 DEF Connect, GetPodResourcesListerClient, kubeletVars, monitorVars
    <2>2. CASE NextServer
        BY <2>2 DEF NextServer, kubeletVars, monitorVars
    <2>3. CASE StartDeviceServer
        BY <2>3 DEF StartDeviceServer, ListenFails, Listen, Dial, kubeletVars, monitorVars
    <2>4. CASE RegisterFirst
        BY <2>4 DEF RegisterFirst, Registers, RegisterFails, kubeletVars, monitorVars
    <2>5. CASE StartMonitor
        BY <2>5 DEF StartMonitor, kubeletVars
    <2>6. QED
        BY <1>4, <2>1, <2>2, <2>3, <2>4, <2>5 DEF Starter
<1>5. ASSUME NEW s \in Servers, ServerError(s) \/ StopServing(s) PROVE TInv'
    <2>1. CASE ServerError(s)
        BY <2>1 DEF ServerError, kubeletVars, startVars, monitorVars
    <2>2. CASE StopServing(s)
        BY <2>2 DEF StopServing, kubeletVars, startVars, monitorVars
    <2>3. QED
        BY <1>5, <2>1, <2>2
<1>6. ASSUME NEW s \in Servers, Monitor(s) PROVE TInv'
    <2>1. CASE MonitorEnds(s)
        BY <2>1 DEF MonitorEnds, kubeletVars, startVars
    <2>2. CASE TakeEvent(s)
        BY <2>2 DEF TakeEvent, kubeletVars, startVars
    <2>3. CASE SendMessage(s)
        BY <2>3 DEF SendMessage, Sent, kubeletVars, startVars
    <2>4. QED
        BY <1>6, <2>1, <2>2, <2>3 DEF Monitor
<1>7. ASSUME NEW s \in Servers, Reader(s) PROVE TInv'
    <2>1. CASE ReaderEnds(s)
        BY <2>1 DEF ReaderEnds, kubeletVars, startVars
    <2>2. CASE TakeMessage(s)
        BY <2>2 DEF TakeMessage, kubeletVars, startVars
    <2>3. CASE RegisterAgain(s)
        BY <2>3 DEF RegisterAgain, Registers, RegisterFails, kubeletVars, startVars
    <2>4. QED
        BY <1>7, <2>1, <2>2, <2>3 DEF Reader
<1>8. QED
    BY <1>1, <1>2, <1>3, <1>4, <1>5, <1>6, <1>7 DEF Next, Process

\* The channels, the watchers and the goroutines are where the code can have
\* them: no watcher holds more events than the kubelet came back, and no
\* message is sent into a full monitorCh.
THEOREM TypeCorrect == Spec => []TypeOK
<1>1. TInv => TypeOK
    BY DEF TInv
<1>2. QED
    BY <1>1, InitTInv, StepTInv, PTL DEF Spec
-----------------------------------------------------------------------------
\* A server that stops takes the process with it, or goes with the context.
LEMMA StepStopped ==
    ASSUME TypeOK, StoppedForCause, [Next]_vars
    PROVE  StoppedForCause'
<1> USE DEF TypeOK, StoppedForCause
<1>1. ASSUME UNCHANGED socket, ctxDone => ctxDone', ~alive => ~alive' PROVE StoppedForCause'
    BY <1>1
<1>2. CASE Starter
    <2>1. CASE Connect
        BY <1>1, <2>1 DEF Connect
    <2>2. CASE NextServer
        BY <1>1, <2>2 DEF NextServer
    <2>3. CASE StartDeviceServer
        <3>1. CASE ListenFails
            BY <1>1, <3>1 DEF ListenFails
        <3>2. CASE Listen
            BY <1>1, <3>2 DEF Listen
        <3>3. CASE Dial
            BY <1>1, <3>3 DEF Dial
        <3>4. QED
            BY <2>3, <3>1, <3>2, <3>3 DEF StartDeviceServer
    <2>4. CASE RegisterFirst
        BY <1>1, <2>4 DEF RegisterFirst
    <2>5. CASE StartMonitor
        BY <1>1, <2>5 DEF StartMonitor
    <2>6. QED
        BY <1>2, <2>1, <2>2, <2>3, <2>4, <2>5 DEF Starter
<1>3. ASSUME NEW s \in Servers, ServerError(s) \/ StopServing(s) PROVE StoppedForCause'
    BY <1>3 DEF ServerError, StopServing
<1>4. ASSUME NEW s \in Servers, Monitor(s) \/ (alive /\ Reader(s)) PROVE StoppedForCause'
    BY <1>1, <1>4
    DEF Monitor, MonitorEnds, TakeEvent, SendMessage, Sent, Reader, ReaderEnds, TakeMessage,
        RegisterAgain
<1>5. QED
    BY <1>1, <1>2, <1>3, <1>4
    DEF Next, Process, KubeletStops, KubeletStarts, Cancel, CloseLister, vars

\* A socket that listens, or has listened, never becomes one that has not; a
\* reader and a registration are only there for such a socket.
LEMMA StepListensFirst ==
    ASSUME TypeOK, ListensFirst, [Next]_vars
    PROVE  ListensFirst'
<1> USE DEF TypeOK, ListensFirst
<1>1. ASSUME \A s \in Servers : socket[s] # "none" => socket'[s] # "none",
             UNCHANGED <<starter, current, reader>>, registered' \subseteq registered
      PROVE  ListensFirst'
    BY <1>1
<1>2. CASE Starter
    <2>1. CASE Connect
        BY <2>1 DEF Connect, GetPodResourcesListerClient, monitorVars
    <2>2. CASE NextServer
        BY <2>2 DEF NextServer, monitorVars
    <2>3. CASE StartDeviceServer
        BY <2>3 DEF StartDeviceServer, ListenFails, Listen, Dial, monitorVars
    <2>4. CASE RegisterFirst
        BY <2>4 DEF RegisterFirst, Registers, RegisterFails, monitorVars
    <2>5. CASE StartMonitor
        BY <2>5 DEF StartMonitor
    <2>6. QED
        BY <1>2, <2>1, <2>2, <2>3, <2>4, <2>5 DEF Starter
<1>3. ASSUME NEW s \in Servers, ServerError(s) \/ StopServing(s) PROVE ListensFirst'
    BY <1>1, <1>3 DEF ServerError, StopServing, startVars, monitorVars
<1>4. ASSUME NEW s \in Servers, Monitor(s) PROVE ListensFirst'
    BY <1>1, <1>4 DEF Monitor, MonitorEnds, TakeEvent, SendMessage, Sent, startVars
<1>5. ASSUME NEW s \in Servers, Reader(s) PROVE ListensFirst'
    BY <1>5
    DEF Reader, ReaderEnds, TakeMessage, RegisterAgain, Registers, RegisterFails, startVars
<1>6. CASE KubeletStops
    BY <1>1, <1>6 DEF KubeletStops, startVars, monitorVars
<1>7. CASE KubeletStarts \/ Cancel \/ CloseLister \/ UNCHANGED vars
    BY <1>1, <1>7 DEF KubeletStarts, Cancel, CloseLister, startVars, monitorVars, vars
<1>8. QED
    BY <1>2, <1>3, <1>4, <1>5, <1>6, <1>7 DEF Next, Process

\* StartMonitor starts the two goroutines of the current server, or none.
LEMMA MonitorStarts ==
    ASSUME TypeOK, StartMonitor
    PROVE  \A s \in Servers :
              \/ monitor'[s] = monitor[s] /\ reader'[s] = reader[s]
              \/ s \in current /\ monitor'[s] = "select" /\ reader'[s] = "select"
<1>1. CASE UNCHANGED <<monitor, reader>>
    BY <1>1
<1>2. CASE /\ monitor' = [s \in Servers |-> IF s \in current THEN "select" ELSE monitor[s]]
           /\ reader' = [s \in Servers |-> IF s \in current THEN "select" ELSE reader[s]]
    BY <1>2
<1>3. QED
    BY <1>1, <1>2 DEF StartMonitor

\* Steps but those of StartServers leave its loop alone, and open no watcher.
LEMMA StepOpenedOnce ==
    ASSUME TypeOK, OpenedOnce, [Next]_vars
    PROVE  OpenedOnce'
<1> USE DEF TypeOK, OpenedOnce
<1>1. ASSUME UNCHANGED <<starter, todo, current>>,
             \A s \in Servers : monitor[s] = "none" => monitor'[s] = "none"
      PROVE  OpenedOnce'
    BY <1>1
<1>2. CASE Starter
    <2>1. CASE Connect
        BY <2>1 DEF Connect, GetPodResourcesListerClient, monitorVars
    <2>2. CASE NextServer
        BY <2>2 DEF NextServer, monitorVars
    <2>3. CASE StartDeviceServer
        BY <2>3 DEF StartDeviceServer, ListenFails, Listen, Dial, monitorVars
    <2>4. CASE RegisterFirst
        BY <2>4 DEF RegisterFirst, monitorVars
    <2>5. CASE StartMonitor
        <3>1. /\ starter' = "next" /\ todo' = todo
              /\ \A s \in Servers : monitor'[s] = monitor[s] \/ s \in current
            BY <2>5, MonitorStarts DEF StartMonitor
        <3>2. QED
            BY <3>1
    <2>6. QED
        BY <1>2, <2>1, <2>2, <2>3, <2>4, <2>5 DEF Starter
<1>3. ASSUME NEW s \in Servers, ServerError(s) \/ StopServing(s) PROVE OpenedOnce'
    BY <1>1, <1>3 DEF ServerError, StopServing, startVars, monitorVars
<1>4. ASSUME NEW s \in Servers, Monitor(s) PROVE OpenedOnce'
    BY <1>1, <1>4 DEF Monitor, MonitorEnds, TakeEvent, SendMessage, Sent, startVars
<1>5. ASSUME NEW s \in Servers, Reader(s) PROVE OpenedOnce'
    BY <1>1, <1>5 DEF Reader, ReaderEnds, TakeMessage, RegisterAgain, startVars
<1>6. CASE KubeletStops \/ KubeletStarts
    BY <1>1, <1>6 DEF KubeletStops, KubeletStarts, startVars, monitorVars
<1>7. CASE Cancel \/ CloseLister \/ UNCHANGED vars
    BY <1>1, <1>7 DEF Cancel, CloseLister, startVars, monitorVars, vars
<1>8. QED
    BY <1>2, <1>3, <1>4, <1>5, <1>6, <1>7 DEF Next, Process

\* A goroutine ends with the context, or after the other one; a registration
\* that fails ends its goroutine with the process.
LEMMA StepTogether ==
    ASSUME TypeOK, RunTogether, [Next]_vars
    PROVE  RunTogether'
<1> USE DEF TypeOK, RunTogether
<1>1. ASSUME UNCHANGED <<monitor, reader, watched>>, ctxDone => ctxDone', ~alive => ~alive'
      PROVE  RunTogether'
    BY <1>1
<1>2. CASE Starter
    <2>1. CASE Connect \/ NextServer \/ StartDeviceServer \/ RegisterFirst
        BY <1>1, <2>1
        DEF Connect, NextServer, StartDeviceServer, ListenFails, Listen, Dial, RegisterFirst,
            kubeletVars, monitorVars
    <2>2. CASE StartMonitor
        <3>1. UNCHANGED <<watched, alive, ctxDone>>
            BY <2>2 DEF StartMonitor, kubeletVars
        <3>2. QED
            BY <2>2, <3>1, MonitorStarts
    <2>3. QED
        BY <1>2, <2>1, <2>2 DEF Starter
<1>3. ASSUME NEW s \in Servers, ServerError(s) \/ StopServing(s) PROVE RunTogether'
    BY <1>1, <1>3 DEF ServerError, StopServing, kubeletVars, monitorVars
<1>4. ASSUME NEW s \in Servers, Monitor(s) PROVE RunTogether'
    BY <1>4 DEF Monitor, MonitorEnds, TakeEvent, SendMessage, Sent, kubeletVars
<1>5. ASSUME NEW s \in Servers, Reader(s) PROVE RunTogether'
    BY <1>5 DEF Reader, ReaderEnds, TakeMessage, RegisterAgain, kubeletVars
<1>6. CASE KubeletStops
    BY <1>6 DEF KubeletStops, monitorVars
<1>7. CASE KubeletStarts
    BY <1>7 DEF KubeletStarts
<1>8. CASE Cancel \/ CloseLister \/ UNCHANGED vars
    BY <1>1, <1>8 DEF Cancel, CloseLister, kubeletVars, monitorVars, vars
<1>9. QED
    BY <1>2, <1>3, <1>4, <1>5, <1>6, <1>7, <1>8 DEF Next, Process

\* A restart moves on from the watcher to monitorCh, to the reader, to the
\* kubelet; only a kubelet that stops again takes it back.
LEMMA StepNoneLost ==
    ASSUME TypeOK, OpenedOnce, RunTogether, NoneLost, [Next]_vars
    PROVE  NoneLost'
<1> USE DEF TypeOK, NoneLost, OnItsWay
<1>1. ASSUME UNCHANGED <<up, watched, events, monitor, monitorCh, reader>>,
             registered \subseteq registered', ctxDone => ctxDone', ~alive => ~alive'
      PROVE  NoneLost'
    BY <1>1
<1>2. CASE Starter
    <2>1. CASE Connect \/ NextServer \/ StartDeviceServer \/ RegisterFirst
        BY <1>1, <2>1
        DEF Connect, NextServer, StartDeviceServer, ListenFails, Listen, Dial, RegisterFirst,
            Registers, RegisterFails, kubeletVars, monitorVars
    <2>2. CASE StartMonitor
        <3>1. \A s \in current : monitor[s] = "none"
            BY <2>2 DEF StartMonitor, OpenedOnce
        <3>2. \A s \in Servers : watched[s] => monitor'[s] = monitor[s] /\ reader'[s] = reader[s]
            BY <2>2, <3>1, MonitorStarts DEF RunTogether
        <3>3. QED
            BY <2>2, <3>2 DEF StartMonitor, kubeletVars
    <2>3. QED
        BY <1>2, <2>1, <2>2 DEF Starter
<1>3. ASSUME NEW s \in Servers, ServerError(s) \/ StopServing(s) PROVE NoneLost'
    BY <1>1, <1>3 DEF ServerError, StopServing, kubeletVars, monitorVars
<1>4. ASSUME NEW s \in Servers, Monitor(s) PROVE NoneLost'
    <2>1. CASE MonitorEnds(s)
        BY <2>1 DEF MonitorEnds
    <2>2. CASE TakeEvent(s)
        BY <2>2 DEF TakeEvent, kubeletVars
    <2>3. CASE SendMessage(s)
        <3>1. monitorCh'[s] > 0 /\ \A r \in Servers : r # s => monitorCh'[r] = monitorCh[r]
            BY <2>3 DEF SendMessage, Sent
        <3>2. \A r \in Servers : r # s => monitor'[r] = monitor[r]
            BY <2>3 DEF SendMessage, Sent
        <3>3. UNCHANGED <<up, watched, registered, events, reader, ctxDone, alive>>
            BY <2>3 DEF SendMessage, Sent, kubeletVars
        <3>4. QED
            BY <3>1, <3>2, <3>3
    <2>4. QED
        BY <1>4, <2>1, <2>2, <2>3 DEF Monitor
<1>5. ASSUME NEW s \in Servers, Reader(s) PROVE NoneLost'
    <2>1. CASE ReaderEnds(s)
        BY <2>1 DEF ReaderEnds, kubeletVars
    <2>2. CASE TakeMessage(s)
        BY <2>2 DEF TakeMessage, kubeletVars
    <2>3. CASE RegisterAgain(s)
        BY <2>3 DEF RegisterAgain, Registers, RegisterFails, kubeletVars
    <2>4. QED
        BY <1>5, <2>1, <2>2, <2>3 DEF Reader
<1>6. CASE KubeletStops
    BY <1>6 DEF KubeletStops
<1>7. CASE KubeletStarts
    BY <1>7 DEF KubeletStarts
<1>8. CASE Cancel \/ CloseLister \/ UNCHANGED vars
    BY <1>1, <1>8 DEF Cancel, CloseLister, kubeletVars, monitorVars, vars
<1>9. QED
    BY <1>2, <1>3, <1>4, <1>5, <1>6, <1>7, <1>8 DEF Next, Process

\* The strengthening of RegisteredIsServed and RestartOnItsWay is inductive.
THEOREM Inductive == Spec => []IInv
<1>1. Init => IInv
    <2>1. ASSUME Init
          PROVE  StoppedForCause /\ ListensFirst /\ OpenedOnce /\ RunTogether /\ NoneLost
        BY <2>1
        DEF Init, StoppedForCause, ListensFirst, OpenedOnce, RunTogether, NoneLost
    <2>2. QED
        BY <2>1, InitTInv DEF IInv
<1>2. IInv /\ [Next]_vars => IInv'
    BY StepTInv, StepStopped, StepListensFirst, StepOpenedOnce, StepTogether, StepNoneLost
    DEF IInv, TInv
<1>3. QED
    BY <1>1, <1>2, PTL DEF Spec

\* While the process and its context last, the kubelet only knows of servers
\* that listen, whichever of StartServers and the readers registered them and
\* however often the kubelet restarts in between.
THEOREM RegisteredServed == Spec => []RegisteredIsServed
<1>1. IInv => RegisteredIsServed
    BY DEF IInv, TInv, TypeOK, StoppedForCause, ListensFirst, RegisteredIsServed
<1>2. QED
    BY <1>1, Inductive, PTL

\* While the process and its context last, no restart seen by the watcher of a
\* server is lost on its way to RegisterDeviceServer, for any number of servers
\* and of restarts, and both goroutines of the server run.
THEOREM RestartNotLost == Spec => []RestartOnItsWay
<1>1. IInv => RestartOnItsWay
    BY DEF IInv, TInv, TypeOK, RunTogether, NoneLost, RestartOnItsWay
<1>2. QED
    BY <1>1, Inductive, PTL
=============================================================================
