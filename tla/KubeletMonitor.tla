--------------------------- MODULE KubeletMonitor ---------------------------
(***************************************************************************)
(* How the device plugin servers come up and stay known to the kubelet:    *)
(* StartServers serves and registers them one after the other and watches  *)
(* the plugin directory for each; a goroutine of MonitorKubeletRestart     *)
(* turns each new kubelet socket into a message, a goroutine of            *)
(* monitorKubeletRestart each message into another registration            *)
(* (pkg/tools/deviceplugin, with pkg/tools/podresources and socketpath).   *)
(*                                                                         *)
(* External: the kubelet, which forgets its plugins when it stops, and     *)
(* fsnotify, which queues events for an open watcher.                      *)
(***************************************************************************)
EXTENDS Naturals

CONSTANTS Servers,     \* the names of the token pool, a plugin server for each
          Faults,      \* whether system calls and registrations may fail
          MaxRestarts  \* bound: how often the kubelet comes back

ASSUME KubeletMonitorAssumption == Faults \in BOOLEAN /\ MaxRestarts \in Nat

VARIABLES
    up,          \* whether the kubelet serves its sockets
    restarts,    \* how often it has come back
    registered,  \* the servers the kubelet that is up knows
    starter,     \* where StartServers stands
    todo,        \* the servers its loop has not come to
    current,     \* the servers it is at: one or none
    lister,      \* the connection of the pod resources client
    socket,      \* socket[s]: whether the plugin server s listens
    events,      \* events[s]: creations of the kubelet socket its watcher holds
    monitorCh,   \* how many messages monitorCh holds
    monitor,     \* the goroutine that owns the watcher
    reader,      \* the goroutine that registers again
    ctxDone,     \* whether the context has ended
    alive,       \* whether no logger.Fatalf has ended the process
    watched      \* history: the kubelet that is up came back under the watcher of s

kubeletVars == <<up, restarts, watched>>
startVars == <<starter, todo, current, lister>>
monitorVars == <<events, monitorCh, monitor, reader>>
vars == <<kubeletVars, registered, startVars, socket, monitorVars, ctxDone, alive>>

TypeOK ==
    /\ up \in BOOLEAN /\ ctxDone \in BOOLEAN /\ alive \in BOOLEAN
    /\ watched \in [Servers -> BOOLEAN]
    /\ registered \subseteq Servers
    /\ restarts \in 0 .. MaxRestarts
    /\ starter \in {"connecting", "next", "starting", "dialing", "registering", "watching",
                    "done", "failed"}
    /\ todo \subseteq Servers /\ current \subseteq Servers \ todo
    /\ lister \in {"none", "open", "closed"}
    /\ socket \in [Servers -> {"none", "serving", "stopped"}]
    /\ events \in [Servers -> 0 .. MaxRestarts]
    /\ monitorCh \in [Servers -> 0 .. 1]
    /\ monitor \in [Servers -> {"none", "select", "sending", "done"}]
    /\ reader \in [Servers -> {"none", "select", "registering", "done"}]

Init ==
    /\ up \in BOOLEAN
    /\ restarts = 0
    /\ registered = {}
    /\ starter = "connecting" /\ todo = Servers /\ current = {} /\ lister = "none"
    /\ socket = [s \in Servers |-> "none"]
    /\ events = [s \in Servers |-> 0]
    /\ monitorCh = [s \in Servers |-> 0]
    /\ monitor = [s \in Servers |-> "none"]
    /\ reader = [s \in Servers |-> "none"]
    /\ ctxDone = FALSE
    /\ alive = TRUE
    /\ watched = [s \in Servers |-> FALSE]
-----------------------------------------------------------------------------
KubeletStops ==
    /\ up
    /\ up' = FALSE
    /\ registered' = {}
    /\ watched' = [s \in Servers |-> FALSE]
    /\ UNCHANGED <<restarts, startVars, socket, monitorVars, ctxDone, alive>>

\* The kubelet creates its socket; a watcher is open as long as its goroutine runs.
KubeletStarts ==
    /\ ~up
    /\ restarts < MaxRestarts
    /\ up' = TRUE
    /\ restarts' = restarts + 1
    /\ watched' = [s \in Servers |-> monitor[s] \in {"select", "sending"}]
    /\ events' = [s \in Servers |-> IF watched'[s] THEN events[s] + 1 ELSE events[s]]
    /\ UNCHANGED <<registered, startVars, socket, monitorCh, monitor, reader, ctxDone, alive>>

Cancel ==
    /\ ~ctxDone
    /\ ctxDone' = TRUE
    /\ UNCHANGED <<kubeletVars, registered, startVars, socket, monitorVars, alive>>
-----------------------------------------------------------------------------
(***************************************************************************)
(* StartServers.                                                           *)
(***************************************************************************)
\* Its dial does not wait for the kubelet.
GetPodResourcesListerClient ==
    /\ starter = "connecting"
    /\ lister' = "open"

\* The List of the pod resources, or the error that ends StartServers.
Connect ==
    /\ \/ GetPodResourcesListerClient /\ up /\ ~ctxDone /\ starter' = "next"
       \/ GetPodResourcesListerClient /\ (~up \/ ctxDone \/ Faults) /\ starter' = "failed"
       \/ starter = "connecting" /\ Faults /\ starter' = "failed" /\ UNCHANGED lister
    /\ UNCHANGED <<kubeletVars, registered, todo, current, socket, monitorVars, ctxDone, alive>>

\* The goroutine of GetPodResourcesListerClient closes the connection.
CloseLister ==
    /\ lister = "open" /\ ctxDone
    /\ lister' = "closed"
    /\ UNCHANGED <<kubeletVars, registered, starter, todo, current, socket, monitorVars,
                   ctxDone, alive>>

\* The loop over the names of the token pool, in the order of a Go map.
NextServer ==
    /\ starter = "next"
    /\ IF todo = {}
       THEN starter' = "done" /\ current' = {} /\ UNCHANGED todo
       ELSE \E s \in todo :
               /\ todo' = todo \ {s}
               /\ current' = {s}
               /\ starter' = "starting"
    /\ UNCHANGED <<kubeletVars, registered, lister, socket, monitorVars, ctxDone, alive>>

\* The name of the socket is new, so there is no stale one to remove; Stat may
\* fail for another reason than that.
SocketCleanup(ok) == ok \/ Faults

\* SocketCleanup fails, or the server cannot listen.
ListenFails ==
    /\ starter = "starting"
    /\ SocketCleanup(FALSE) \/ (SocketCleanup(TRUE) /\ Faults)
    /\ starter' = "failed"
    /\ UNCHANGED <<kubeletVars, registered, todo, current, lister, socket, monitorVars,
                   ctxDone, alive>>

\* StartDeviceServer up to its dial: the server listens on a socket of its own.
Listen ==
    /\ starter = "starting"
    /\ SocketCleanup(TRUE)
    /\ starter' = "dialing"
    /\ socket' = [s \in Servers |-> IF s \in current THEN "serving" ELSE socket[s]]
    /\ UNCHANGED <<kubeletVars, registered, todo, current, lister, monitorVars, ctxDone, alive>>

\* The blocking dial shows that the server is operational, or dialCtx ends.
Dial ==
    /\ starter = "dialing"
    /\ \/ starter' = "registering" /\ \A s \in current : socket[s] = "serving"
       \/ starter' = "failed" /\ (Faults \/ ctxDone)
    /\ UNCHANGED <<kubeletVars, registered, todo, current, lister, socket, monitorVars,
                   ctxDone, alive>>

\* Mutant of ServerError: the error is only logged.
ServerErrorLogged(s) ==
    /\ Faults /\ socket[s] = "serving"
    /\ socket' = [socket EXCEPT ![s] = "stopped"]
    /\ UNCHANGED <<kubeletVars, registered, startVars, monitorVars, ctxDone, alive>>

\* The goroutine that waits for an error of the server ends the process.
ServerError(s) ==
    /\ Faults /\ socket[s] = "serving"
    /\ socket' = [socket EXCEPT ![s] = "stopped"]
    /\ alive' = FALSE
    /\ UNCHANGED <<kubeletVars, registered, startVars, monitorVars, ctxDone>>

\* ListenAndServe stops the server with the context.
StopServing(s) ==
    /\ ctxDone /\ socket[s] = "serving"
    /\ socket' = [socket EXCEPT ![s] = "stopped"]
    /\ UNCHANGED <<kubeletVars, registered, startVars, monitorVars, ctxDone, alive>>

\* RegisterDeviceServer; its request is made in a context of its own.
Registers(S) == up /\ registered' = registered \cup S
RegisterFails == (~up \/ ctxDone \/ Faults) /\ UNCHANGED registered

\* The first registration: an error ends StartServers.
RegisterFirst ==
    /\ starter = "registering"
    /\ \/ Registers(current) /\ starter' = "watching"
       \/ RegisterFails /\ starter' = "failed"
    /\ UNCHANGED <<kubeletVars, todo, current, lister, socket, monitorVars, ctxDone, alive>>

\* A watcher of the plugin directory, or an error and nothing left open.
WatchOn(ok) == ok \/ Faults

\* watchOn, then the two goroutines; an error of watchOn is only logged.
StartMonitor ==
    /\ starter = "watching"
    /\ starter' = "next"
    /\ \/ /\ WatchOn(TRUE)
          /\ monitor' = [s \in Servers |-> IF s \in current THEN "select" ELSE monitor[s]]
          /\ reader' = [s \in Servers |-> IF s \in current THEN "select" ELSE reader[s]]
       \/ WatchOn(FALSE) /\ UNCHANGED <<monitor, reader>>
    /\ UNCHANGED <<kubeletVars, registered, todo, current, lister, socket, events, monitorCh,
                   ctxDone, alive>>
-----------------------------------------------------------------------------
(***************************************************************************)
(* The goroutine of MonitorKubeletRestart.                                 *)
(***************************************************************************)
\* Its select may take ctx.Done() although there are events.  The deferred
\* calls close the watcher, whose events are gone, and monitorCh.
MonitorEnds(s) ==
    /\ monitor[s] = "select" /\ ctxDone
    /\ monitor' = [monitor EXCEPT ![s] = "done"]
    /\ events' = [events EXCEPT ![s] = 0]
    /\ UNCHANGED <<kubeletVars, registered, startVars, socket, monitorCh, reader, ctxDone, alive>>

TakeEvent(s) ==
    /\ monitor[s] = "select" /\ events[s] > 0
    /\ events' = [events EXCEPT ![s] = @ - 1]
    /\ monitor' = [monitor EXCEPT ![s] = "sending"]
    /\ UNCHANGED <<kubeletVars, registered, startVars, socket, monitorCh, reader, ctxDone, alive>>

Sent(s) ==
    /\ monitor[s] = "sending"
    /\ monitorCh' = [monitorCh EXCEPT ![s] = @ + 1]
    /\ monitor' = [monitor EXCEPT ![s] = "select"]
    /\ UNCHANGED <<kubeletVars, registered, startVars, socket, events, reader, ctxDone, alive>>

\* Mutant of SendMessage: the channel has no buffer.
SendMessageUnbuffered(s) == monitorCh[s] = 0 /\ reader[s] = "select" /\ Sent(s)

\* monitorCh <- struct{}{}: waits for room, and does not look at ctx.
SendMessage(s) == monitorCh[s] = 0 /\ Sent(s)
-----------------------------------------------------------------------------
(***************************************************************************)
(* The goroutine of monitorKubeletRestart.                                 *)
(***************************************************************************)
\* ctx.Done(), or monitorCh is closed and empty.
ReaderEnds(s) ==
    /\ reader[s] = "select"
    /\ ctxDone \/ (monitor[s] = "done" /\ monitorCh[s] = 0)
    /\ reader' = [reader EXCEPT ![s] = "done"]
    /\ UNCHANGED <<kubeletVars, registered, startVars, socket, events, monitorCh, monitor,
                   ctxDone, alive>>

TakeMessage(s) ==
    /\ reader[s] = "select" /\ monitorCh[s] > 0
    /\ monitorCh' = [monitorCh EXCEPT ![s] = @ - 1]
    /\ reader' = [reader EXCEPT ![s] = "registering"]
    /\ UNCHANGED <<kubeletVars, registered, startVars, socket, events, monitor, ctxDone, alive>>

\* Mutant of RegisterAgain: the error is only logged.
RegisterAgainLogged(s) ==
    /\ reader[s] = "registering"
    /\ reader' = [reader EXCEPT ![s] = "select"]
    /\ Registers({s}) \/ RegisterFails
    /\ UNCHANGED <<kubeletVars, startVars, socket, events, monitorCh, monitor, ctxDone, alive>>

\* An error of the registration is fatal.
RegisterAgain(s) ==
    /\ reader[s] = "registering"
    /\ \/ Registers({s}) /\ reader' = [reader EXCEPT ![s] = "select"] /\ UNCHANGED alive
       \/ RegisterFails /\ reader' = [reader EXCEPT ![s] = "done"] /\ alive' = FALSE
    /\ UNCHANGED <<kubeletVars, startVars, socket, events, monitorCh, monitor, ctxDone>>
-----------------------------------------------------------------------------
StartDeviceServer == ListenFails \/ Listen \/ Dial
Starter == Connect \/ NextServer \/ StartDeviceServer \/ RegisterFirst \/ StartMonitor
Monitor(s) == MonitorEnds(s) \/ TakeEvent(s) \/ SendMessage(s)
Reader(s) == ReaderEnds(s) \/ TakeMessage(s) \/ RegisterAgain(s)

\* The steps of the process.
Process ==
    /\ alive
    /\ \/ Starter \/ CloseLister
       \/ \E s \in Servers : ServerError(s) \/ StopServing(s) \/ Monitor(s) \/ Reader(s)

Next == KubeletStops \/ KubeletStarts \/ (alive /\ Cancel) \/ Process

Spec == Init /\ [][Next]_vars

\* The goroutines run.  The kubelet may stay away, the context may last.
Fairness ==
    /\ WF_vars(alive /\ Starter)
    /\ \A s \in Servers : WF_vars(alive /\ Monitor(s)) /\ WF_vars(alive /\ Reader(s))

FairSpec == Spec /\ Fairness
-----------------------------------------------------------------------------
(***************************************************************************)
(* Properties.                                                             *)
(***************************************************************************)
\* A kubelet that comes back under the watcher of a server is told of it,
\* however quickly one restart follows another and whatever becomes of the
\* servers after it in the loop of StartServers, unless the process or the
\* context ends: a failed registration must not be swallowed.
RestartAnswered ==
    \A s \in Servers :
        (up /\ watched[s]) ~> (s \in registered \/ ~up \/ ctxDone \/ ~alive)

\* What is left of a restart until the kubelet knows s again.
OnItsWay(s) ==
    \/ events[s] > 0
    \/ monitor[s] = "sending"
    \/ monitorCh[s] > 0
    \/ reader[s] = "registering"

\* While process and context last, a restart that the watcher of s has seen is
\* nowhere lost between the watcher and the kubelet: unless s is registered, an
\* event, a message or a call of RegisterDeviceServer is on its way, and both
\* goroutines run.  RestartAnswered rests on it.
RestartOnItsWay ==
    alive /\ ~ctxDone =>
        \A s \in Servers : up /\ watched[s] =>
            /\ s \in registered \/ OnItsWay(s)
            /\ monitor[s] \in {"select", "sending"}
            /\ reader[s] \in {"select", "registering"}

\* What the kubelet knows is served, as long as process and context last.
RegisteredIsServed ==
    alive /\ ~ctxDone => \A s \in registered : socket[s] = "serving"

\* The end of the context ends the goroutine that owns the watcher, unless it
\* is sending to a full channel whose reader has already left.
OnlyFullChannelHoldsMonitor ==
    \A s \in Servers :
        ctxDone ~> \/ monitor[s] \in {"none", "done"}
                   \/ ~alive
                   \/ monitor[s] = "sending" /\ monitorCh[s] = 1 /\ reader[s] = "done"
=============================================================================
