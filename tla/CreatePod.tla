----------------------------- MODULE CreatePod -----------------------------
(***************************************************************************)
(* The chain element createpod (pkg/networkservice/common/createpod): a    *)
(* Request creates a pod from a template; a goroutine per server deletes   *)
(* the pods this server created once they have completed.                  *)
(*                                                                         *)
(* The goroutine acts on copies of pods, those of a List or of the events  *)
(* of a watch, and deletes by name.  Several servers share the namespace;  *)
(* each is restarted under its own HOSTNAME.                               *)
(*                                                                         *)
(* External: the API server, which keeps the pods and reports every change *)
(* to every open watch in order, and the kubelet, which completes pods.    *)
(***************************************************************************)
EXTENDS Naturals, Sequences, SequencesExt

CONSTANTS Servers,     \* the values of HOSTNAME
          Names,       \* the names of pods a template can yield
          UniqueNames, \* whether the template has a {{ uuid }} in the name
          Faulty,      \* the servers whose requests may fail and whose watches may end
          MaxPods,     \* bound: how many pods are ever created
          MaxStarts    \* bound: how often servers are started, in all

ASSUME CreatePodAssumption ==
    /\ UniqueNames \in BOOLEAN
    /\ Faulty \subseteq Servers
    /\ MaxPods \in Nat
    /\ MaxStarts \in Nat

VARIABLES
    pods,     \* the pods of the namespace
    created,  \* how many pods have been created
    taken,    \* the names given to pods so far
    starts,   \* how many starts there were
    monitor,  \* monitor[r]: where monitorCompletedPods of r stands
    open,     \* open[r]: the API server still feeds the watch of r
    events,   \* events[r]: the copies of pods in w.ResultChan()
    items,    \* items[r]: the items of the List not yet looked at
    deleted   \* history: deleted[r]: the pods the monitor of r has deleted

monitorVars == <<monitor, open, events, items>>
vars == <<pods, created, taken, starts, monitorVars, deleted>>

\* id stands for the uid, by for the label createdBy, "Completed" for the
\* phases Succeeded and Failed, "Running" for every other one.
Pod == [name : Names, id : 1 .. MaxPods, by : Servers, phase : {"Running", "Completed"}]

TypeOK ==
    /\ pods \subseteq Pod
    /\ \A p, q \in pods : p.name = q.name => p = q
    /\ created \in 0 .. MaxPods
    /\ taken \subseteq Names
    /\ starts \in 0 .. MaxStarts
    /\ monitor \in [Servers -> {"down", "blind", "listing", "scanning", "watching"}]
    /\ open \in [Servers -> BOOLEAN]
    /\ \A r \in Servers : open[r] => monitor[r] \in {"listing", "scanning", "watching"}
    /\ events \in [Servers -> Seq(Pod)]
    /\ items \in [Servers -> Seq(Pod)]
    /\ deleted \in [Servers -> SUBSET Pod]

Init ==
    /\ pods = {}
    /\ created = 0
    /\ taken = {}
    /\ starts = 0
    /\ monitor = [r \in Servers |-> "down"]
    /\ open = [r \in Servers |-> FALSE]
    /\ events = [r \in Servers |-> <<>>]
    /\ items = [r \in Servers |-> <<>>]
    /\ deleted = [r \in Servers |-> {}]
-----------------------------------------------------------------------------
(***************************************************************************)
(* The API server and the kubelet.                                         *)
(***************************************************************************)
Feed(p) == [r \in Servers |-> IF open[r] THEN Append(events[r], p) ELSE events[r]]

Running(r) == monitor[r] # "down"

\* The kubelet reports that the pod has completed.
Complete(p) ==
    /\ p.phase = "Running"
    /\ LET q == [p EXCEPT !.phase = "Completed"] IN
       /\ pods' = (pods \ {p}) \cup {q}
       /\ events' = Feed(q)
    /\ UNCHANGED <<created, taken, starts, monitor, open, items, deleted>>

\* Somebody else deletes a pod.
Evict(p) ==
    /\ pods' = pods \ {p}
    /\ events' = Feed(p)
    /\ UNCHANGED <<created, taken, starts, monitor, open, items, deleted>>

\* The API server ends the watch; what it has sent is still to be read.
EndWatch(r) ==
    /\ r \in Faulty
    /\ open[r]
    /\ open' = [open EXCEPT ![r] = FALSE]
    /\ UNCHANGED <<pods, created, taken, starts, monitor, events, items, deleted>>
-----------------------------------------------------------------------------
(***************************************************************************)
(* The server r.                                                           *)
(***************************************************************************)
\* NewServer opens the watch and starts monitorCompletedPods.  The watch may
\* first report the pods there are, or not.
NewServer(r) ==
    /\ monitor[r] = "down"
    /\ starts < MaxStarts
    /\ starts' = starts + 1
    /\ monitor' = [monitor EXCEPT ![r] = "listing"]
    /\ open' = [open EXCEPT ![r] = TRUE]
    /\ \E q \in SetToSeqs(pods) \cup {<<>>} : events' = [events EXCEPT ![r] = q]
    /\ UNCHANGED <<pods, created, taken, items, deleted>>

\* The watch cannot be opened: the server creates pods and deletes none.
NewServerBlind(r) ==
    /\ r \in Faulty
    /\ monitor[r] = "down"
    /\ starts < MaxStarts
    /\ starts' = starts + 1
    /\ monitor' = [monitor EXCEPT ![r] = "blind"]
    /\ UNCHANGED <<pods, created, taken, open, events, items, deleted>>

\* Request with createPod.  A Create under a name in use fails and changes nothing.
Request(r, name) ==
    /\ Running(r)
    /\ created < MaxPods
    /\ \A p \in pods : p.name # name
    /\ UniqueNames => name \notin taken
    /\ LET p == [name |-> name, id |-> created + 1, by |-> r, phase |-> "Running"] IN
       /\ pods' = pods \cup {p}
       /\ events' = Feed(p)
    /\ created' = created + 1
    /\ taken' = taken \cup {name}
    /\ UNCHANGED <<starts, monitor, open, items, deleted>>

List(r) ==
    /\ monitor[r] = "listing"
    /\ monitor' = [monitor EXCEPT ![r] = "scanning"]
    /\ \E q \in SetToSeqs(pods) : items' = [items EXCEPT ![r] = q]
    /\ UNCHANGED <<pods, created, taken, starts, open, events, deleted>>

ListFails(r) ==
    /\ r \in Faulty
    /\ monitor[r] = "listing"
    /\ monitor' = [monitor EXCEPT ![r] = "scanning"]
    /\ UNCHANGED <<pods, created, taken, starts, open, events, items, deleted>>

Completed(p) == p.phase = "Completed"

\* Mutant of Spawned: any pod of this server.
SpawnedAtAll(r, p) == p.by = r

Spawned(r, p) == p.by = r /\ Completed(p)

\* deleteSpawnedCompletedPod: Delete(p.Name) takes whatever pod has the name
\* now, and reports it to the watches, this one included.
DeleteByName(r, p, queue) ==
    \E q \in pods :
        /\ q.name = p.name
        /\ pods' = pods \ {q}
        /\ events' = [s \in Servers |->
                        LET before == IF s = r THEN queue ELSE events[s] IN
                        IF open[s] THEN Append(before, q) ELSE before]
        /\ deleted' = [deleted EXCEPT ![r] = @ \cup {q}]

\* The copy is of no interest, or the Delete fails, which is only logged.
LeaveAlone(r, p, queue) ==
    /\ ~Spawned(r, p) \/ r \in Faulty \/ \A q \in pods : q.name # p.name
    /\ events' = [events EXCEPT ![r] = queue]
    /\ UNCHANGED <<pods, deleted>>

DeleteSpawnedCompletedPod(r, p, queue) ==
    \/ Spawned(r, p) /\ DeleteByName(r, p, queue)
    \/ LeaveAlone(r, p, queue)

ScanItem(r) ==
    /\ monitor[r] = "scanning"
    /\ items[r] # <<>>
    /\ items' = [items EXCEPT ![r] = Tail(@)]
    /\ DeleteSpawnedCompletedPod(r, Head(items[r]), events[r])
    /\ UNCHANGED <<created, taken, starts, monitor, open>>

\* Mutant of Scanned: only now is the watch opened.
ScannedUnwatched(r) ==
    /\ monitor[r] = "scanning"
    /\ items[r] = <<>>
    /\ monitor' = [monitor EXCEPT ![r] = "watching"]
    /\ events' = [events EXCEPT ![r] = <<>>]
    /\ UNCHANGED <<pods, created, taken, starts, open, items, deleted>>

Scanned(r) ==
    /\ monitor[r] = "scanning"
    /\ items[r] = <<>>
    /\ monitor' = [monitor EXCEPT ![r] = "watching"]
    /\ UNCHANGED <<pods, created, taken, starts, open, events, items, deleted>>

\* Added, Modified and Deleted events are treated alike.
HandleEvent(r) ==
    /\ monitor[r] = "watching"
    /\ events[r] # <<>>
    /\ DeleteSpawnedCompletedPod(r, Head(events[r]), Tail(events[r]))
    /\ UNCHANGED <<created, taken, starts, monitor, open, items>>

\* The range over w.ResultChan() ends; the server works on without a monitor.
LoopEnds(r) ==
    /\ monitor[r] = "watching"
    /\ ~open[r]
    /\ events[r] = <<>>
    /\ monitor' = [monitor EXCEPT ![r] = "blind"]
    /\ UNCHANGED <<pods, created, taken, starts, open, events, items, deleted>>

\* s.ctx is done: the watch is stopped and every further Delete fails.
Stop(r) ==
    /\ Running(r)
    /\ monitor' = [monitor EXCEPT ![r] = "down"]
    /\ open' = [open EXCEPT ![r] = FALSE]
    /\ events' = [events EXCEPT ![r] = <<>>]
    /\ items' = [items EXCEPT ![r] = <<>>]
    /\ UNCHANGED <<pods, created, taken, starts, deleted>>
-----------------------------------------------------------------------------
MonitorCompletedPods(r) ==
    \/ List(r)
    \/ ListFails(r)
    \/ ScanItem(r)
    \/ Scanned(r)
    \/ HandleEvent(r)
    \/ LoopEnds(r)

Next ==
    \/ \E p \in pods : Complete(p) \/ Evict(p)
    \/ \E r \in Servers :
          \/ NewServer(r)
          \/ NewServerBlind(r)
          \/ \E name \in Names : Request(r, name)
          \/ MonitorCompletedPods(r)
          \/ EndWatch(r)
          \/ Stop(r)

Spec == Init /\ [][Next]_vars
-----------------------------------------------------------------------------
(***************************************************************************)
(* Properties.                                                             *)
(***************************************************************************)
\* "can't delete finished pod": what the monitor of a server deletes is a pod
\* that has finished and that this server created, although it acts on copies
\* and by name.
DeletesOnlySpawnedCompleted ==
    \A r \in Servers : \A p \in deleted[r] : p.by = r /\ Completed(p)

\* Between the List and the events of the watch no completed pod is lost, also
\* not one that the predecessor of the server left behind: where no request
\* fails, a pod that the monitor has still to delete is among the items or the
\* events it will look at.
CompletedIsKnown ==
    \A r \in Servers \ Faulty : \A p \in pods :
        monitor[r] \in {"scanning", "watching"} /\ Spawned(r, p) =>
            p \in ToSet(items[r]) \cup ToSet(events[r])
=============================================================================
