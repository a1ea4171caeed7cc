------------------------------ MODULE NSFanout ------------------------------
(***************************************************************************)
(* The fan-out of etcdNSRegistryServer (pkg/registry/etcd/ns_server.go).   *)
(* It has the goroutines of NSEFanout, but sendEvent waits for room in the *)
(* channel of each subscriber in turn, inside subscribersExecutor: while   *)
(* one channel is full no other job runs, neither the one that puts a new  *)
(* subscriber in the list nor the one that takes a gone one out.           *)
(***************************************************************************)
EXTENDS Naturals, Sequences, SequencesExt

CONSTANTS Subs,         \* the Find(Watch) calls, one channel each
          Events,       \* the updates the remote watch can report
          Interest,     \* Interest[s]: the updates that match the query of s
          BufferSize,   \* updateChannelSize
          MaxEvents,    \* bound: how many events are ever broadcast
          Responsive    \* the callers that always read what is sent to them

ASSUME FanoutAssumption ==
    /\ Interest \in [Subs -> SUBSET Events]
    /\ BufferSize \in Nat \ {0}
    /\ MaxEvents \in Nat
    /\ Responsive \subseteq Subs

VARIABLES
    jobs,         \* the queue of subscribersExecutor
    subscribers,  \* the list of subscribers, in its order
    remaining,    \* the subscribers the running sendEvent has still to serve
    log,          \* the events sendEvent has run or runs for, in order
    channel,      \* channel[s]: positions in the log waiting in its channel
    closed,       \* closed[s]: close(ret) has run
    pc,           \* where the Find goroutine of s stands
    held,         \* the update the loop of watch has in hand, 0 if none
    ctxDone,      \* ctxDone[s]: watchCtx of s is cancelled
    cleaner,      \* the goroutine that waits for ctx.Done()
    joined,       \* history: Len(log) when s was put in the list
    cursor,       \* history: the last update s dealt with
    delivered     \* history: the updates passed to s.Send without error

executorVars == <<jobs, subscribers, remaining, log>>
findVars     == <<pc, held, ctxDone>>
history      == <<joined, cursor, delivered>>
vars == <<executorVars, channel, closed, findVars, cleaner, history>>

Returned == {"ended", "failed"}
Watching == {"receiving", "received", "sending"}

Job == [type : {"push", "remove"}, sub : Subs] \cup [type : {"send"}, event : Events]

TypeOK ==
    /\ jobs \in Seq(Job)
    /\ subscribers \in Seq(Subs)
    /\ IsSuffix(remaining, subscribers)
    /\ log \in Seq(Events)
    /\ channel \in [Subs -> Seq(1 .. Len(log))]
    /\ \A s \in Subs : Len(channel[s]) <= BufferSize
    /\ closed \in [Subs -> BOOLEAN]
    /\ pc \in [Subs -> {"idle", "subscribing"} \cup Watching \cup Returned]
    /\ held \in [Subs -> 0 .. Len(log)]
    /\ ctxDone \in [Subs -> BOOLEAN]
    /\ cleaner \in [Subs -> {"none", "armed", "queued", "finished"}]
    /\ joined \in [Subs -> 0 .. Len(log)]
    /\ cursor \in [Subs -> 0 .. Len(log)]
    /\ delivered \in [Subs -> Seq(1 .. Len(log))]

Init ==
    /\ jobs = <<>>
    /\ subscribers = <<>>
    /\ remaining = <<>>
    /\ log = <<>>
    /\ channel = [s \in Subs |-> <<>>]
    /\ closed = [s \in Subs |-> FALSE]
    /\ pc = [s \in Subs |-> "idle"]
    /\ held = [s \in Subs |-> 0]
    /\ ctxDone = [s \in Subs |-> FALSE]
    /\ cleaner = [s \in Subs |-> "none"]
    /\ joined = [s \in Subs |-> 0]
    /\ cursor = [s \in Subs |-> 0]
    /\ delivered = [s \in Subs |-> <<>>]
-----------------------------------------------------------------------------
(***************************************************************************)
(* subscribersExecutor and its jobs.                                       *)
(***************************************************************************)
AsyncExec(job) == jobs' = Append(jobs, job)

PushJob(s)   == [type |-> "push", sub |-> s]
RemoveJob(s) == [type |-> "remove", sub |-> s]
SendJob(e)   == [type |-> "send", event |-> e]

\* The worker takes its next job only when the one before has returned.
NextJob(type) ==
    /\ remaining = <<>>
    /\ jobs # <<>>
    /\ Head(jobs).type = type
    /\ jobs' = Tail(jobs)

IsSend(job) == job.type = "send"

\* watchRemoteStorage: an event of the remote watch becomes a sendEvent job.
Broadcast(e) ==
    /\ Len(log) + Len(SelectSeq(jobs, IsSend)) < MaxEvents
    /\ AsyncExec(SendJob(e))
    /\ UNCHANGED <<subscribers, remaining, log, channel, closed, findVars, cleaner, history>>

\* sendEvent starts at the front of the list.
StartSendEvent ==
    /\ NextJob("send")
    /\ log' = Append(log, Head(jobs).event)
    /\ remaining' = subscribers
    /\ UNCHANGED <<subscribers, channel, closed, findVars, cleaner, history>>

Full(s) == Len(channel[s]) >= BufferSize

\* Mutant of SendToNode: a full channel is passed over.
SendToNodeDropping ==
    LET s == Head(remaining) IN
    /\ remaining # <<>>
    /\ channel' = [channel EXCEPT ![s] = IF Full(s) THEN @ ELSE Append(@, Len(log))]
    /\ remaining' = Tail(remaining)
    /\ UNCHANGED <<jobs, subscribers, log, closed, findVars, cleaner, history>>

\* ch <- resp: the loop goes on to the next node when the channel has room.
SendToNode ==
    LET s == Head(remaining) IN
    /\ remaining # <<>>
    /\ ~Full(s)
    /\ channel' = [channel EXCEPT ![s] = Append(@, Len(log))]
    /\ remaining' = Tail(remaining)
    /\ UNCHANGED <<jobs, subscribers, log, closed, findVars, cleaner, history>>

\* The first job of subscribeOnEvents, and the wg.Wait() it releases.
PushBack ==
    LET s == Head(jobs).sub IN
    /\ NextJob("push")
    /\ subscribers' = Append(subscribers, s)
    /\ pc' = [pc EXCEPT ![s] = "receiving"]
    /\ cleaner' = [cleaner EXCEPT ![s] = "armed"]
    /\ joined' = [joined EXCEPT ![s] = Len(log)]
    /\ cursor' = [cursor EXCEPT ![s] = Len(log)]
    /\ UNCHANGED <<remaining, log, channel, closed, held, ctxDone, delivered>>

\* subscribers.Remove(node): the one element of the list that is the node of s.
RemoveNode(s) ==
    \E i \in 1 .. Len(subscribers) :
        subscribers[i] = s /\ subscribers' = RemoveAt(subscribers, i)

\* The second job of subscribeOnEvents: Remove and close in one job.
RemoveClose ==
    LET s == Head(jobs).sub IN
    /\ NextJob("remove")
    /\ RemoveNode(s)
    /\ closed' = [closed EXCEPT ![s] = TRUE]
    /\ cleaner' = [cleaner EXCEPT ![s] = "finished"]
    /\ UNCHANGED <<remaining, log, channel, findVars, history>>

\* Mutant of Cleanup: removal and close without the executor.
CleanupAtOnce(s) ==
    /\ cleaner[s] = "armed"
    /\ ctxDone[s]
    /\ RemoveNode(s)
    /\ closed' = [closed EXCEPT ![s] = TRUE]
    /\ cleaner' = [cleaner EXCEPT ![s] = "finished"]
    /\ UNCHANGED <<jobs, remaining, log, channel, findVars, history>>

\* The goroutine of subscribeOnEvents: <-ctx.Done(), then AsyncExec.
Cleanup(s) ==
    /\ cleaner[s] = "armed"
    /\ ctxDone[s]
    /\ AsyncExec(RemoveJob(s))
    /\ cleaner' = [cleaner EXCEPT ![s] = "queued"]
    /\ UNCHANGED <<subscribers, remaining, log, channel, closed, findVars, history>>
-----------------------------------------------------------------------------
(***************************************************************************)
(* The Find goroutine of s, from its call of watch on.                     *)
(***************************************************************************)
Subscribe(s) ==
    /\ pc[s] = "idle"
    /\ pc' = [pc EXCEPT ![s] = "subscribing"]
    /\ AsyncExec(PushJob(s))
    /\ UNCHANGED <<subscribers, remaining, log, channel, closed, held, ctxDone, cleaner, history>>

\* The caller goes away: its stream context, the parent of watchCtx, is done.
Disconnect(s) ==
    /\ pc[s] \in {"subscribing"} \cup Watching
    /\ ~ctxDone[s]
    /\ ctxDone' = [ctxDone EXCEPT ![s] = TRUE]
    /\ UNCHANGED <<executorVars, channel, closed, pc, held, cleaner, history>>

\* watch returns and the deferred cancel() of Find ends watchCtx.
Return(s, outcome) ==
    /\ pc' = [pc EXCEPT ![s] = outcome]
    /\ held' = [held EXCEPT ![s] = 0]
    /\ ctxDone' = [ctxDone EXCEPT ![s] = TRUE]

\* Mutant of Receive: once its context is done the loop reads no more, and waits
\* for its channel to be closed before it returns.
ReceiveWhileLive(s) ==
    /\ pc[s] = "receiving"
    /\ ~ctxDone[s]
    /\ channel[s] # <<>>
    /\ held' = [held EXCEPT ![s] = Head(channel[s])]
    /\ channel' = [channel EXCEPT ![s] = Tail(@)]
    /\ pc' = [pc EXCEPT ![s] = "received"]
    /\ UNCHANGED <<executorVars, closed, ctxDone, cleaner, history>>

Receive(s) ==
    /\ pc[s] = "receiving"
    /\ channel[s] # <<>>
    /\ held' = [held EXCEPT ![s] = Head(channel[s])]
    /\ channel' = [channel EXCEPT ![s] = Tail(@)]
    /\ pc' = [pc EXCEPT ![s] = "received"]
    /\ UNCHANGED <<executorVars, closed, ctxDone, cleaner, history>>

\* The range over the channel ends once it is closed and drained.
ReceiveClosed(s) ==
    /\ pc[s] = "receiving"
    /\ channel[s] = <<>>
    /\ closed[s]
    /\ Return(s, "ended")
    /\ UNCHANGED <<executorVars, channel, closed, cleaner, history>>

Matches(s, i) == log[i] \in Interest[s]

\* MatchNetworkServices says no: on to the next update.
SkipUpdate(s) ==
    /\ pc[s] = "received"
    /\ ~Matches(s, held[s])
    /\ pc' = [pc EXCEPT ![s] = "receiving"]
    /\ held' = [held EXCEPT ![s] = 0]
    /\ cursor' = [cursor EXCEPT ![s] = held[s]]
    /\ UNCHANGED <<executorVars, channel, closed, ctxDone, cleaner, joined, delivered>>

\* The update matches: the goroutine enters s.Send.
StartSend(s) ==
    /\ pc[s] = "received"
    /\ Matches(s, held[s])
    /\ pc' = [pc EXCEPT ![s] = "sending"]
    /\ UNCHANGED <<executorVars, channel, closed, held, ctxDone, cleaner, history>>

\* s.Send returns nil.
SendOk(s) ==
    /\ pc[s] = "sending"
    /\ pc' = [pc EXCEPT ![s] = "receiving"]
    /\ held' = [held EXCEPT ![s] = 0]
    /\ cursor' = [cursor EXCEPT ![s] = held[s]]
    /\ delivered' = [delivered EXCEPT ![s] = Append(@, held[s])]
    /\ UNCHANGED <<executorVars, channel, closed, ctxDone, cleaner, joined>>

\* s.Send returns an error, of a cancelled stream or of a broken transport.
SendError(s) ==
    /\ pc[s] = "sending"
    /\ Return(s, "failed")
    /\ UNCHANGED <<executorVars, channel, closed, cleaner, history>>
-----------------------------------------------------------------------------
Executor == StartSendEvent \/ SendToNode \/ PushBack \/ RemoveClose

WatchLoop(s) ==
    \/ Receive(s)
    \/ ReceiveClosed(s)
    \/ SkipUpdate(s)
    \/ StartSend(s)

Next ==
    \/ \E e \in Events : Broadcast(e)
    \/ Executor
    \/ \E s \in Subs :
          \/ Subscribe(s)
          \/ Disconnect(s)
          \/ Cleanup(s)
          \/ WatchLoop(s)
          \/ SendOk(s)
          \/ SendError(s)

Spec == Init /\ [][Next]_vars

(***************************************************************************)
(* Every runnable goroutine runs.  s.Send comes back when the stream is    *)
(* cancelled, and when the caller reads.                                   *)
(***************************************************************************)
Fairness ==
    /\ WF_vars(Executor)
    /\ \A s \in Subs :
          /\ WF_vars(Cleanup(s))
          /\ WF_vars(WatchLoop(s))
          /\ WF_vars(ctxDone[s] /\ SendError(s))
    /\ \A s \in Responsive : WF_vars(SendOk(s))

FairSpec == Spec /\ Fairness
-----------------------------------------------------------------------------
(***************************************************************************)
(* Properties.                                                             *)
(***************************************************************************)

\* The sendEvent that waits for room in a channel, or is about to send on
\* it, never finds that channel closed under it, which would panic.
NoSendOnClosed == \A s \in ToSet(remaining) \cup ToSet(subscribers) : ~closed[s]

\* A watcher is sent exactly the updates its query matches between the moment
\* it was put in the list and the last one it dealt with, each once and in the
\* order of the log, and while it is
\* watching nothing between that one and the newest event is lost: it is in
\* hand, in the channel, or the running sendEvent will still put it there.
NothingDropped ==
    \A s \in Subs :
        /\ \A j, k \in 1 .. Len(delivered[s]) : j < k => delivered[s][j] < delivered[s][k]
        /\ ToSet(delivered[s]) = {i \in joined[s] + 1 .. cursor[s] : Matches(s, i)}
        /\ pc[s] \in Watching /\ s \in ToSet(subscribers) =>
              (IF pc[s] = "receiving" THEN <<>> ELSE <<held[s]>>)
                 \o channel[s]
                 \o (IF s \in ToSet(remaining) THEN <<Len(log)>> ELSE <<>>)
              = [k \in 1 .. Len(log) - cursor[s] |-> cursor[s] + k]

\* A watch seen from its caller, as in NSEFanout.
EventFeedRefined ==
    INSTANCE EventFeed WITH
        status <- [s \in Subs |-> IF pc[s] \in {"idle", "subscribing"} THEN "off"
                                  ELSE IF pc[s] \in Watching THEN "live"
                                  ELSE pc[s]]

\* The blocking fan-out implements the promise of EventFeed too.
ImplementsFeed == EventFeedRefined!Spec

\* wg.Wait() // Block until subscriber is registered: a Find that waits for
\* its channel to be put in the list gets through.
SubscribeCompletes ==
    \A s \in Subs : pc[s] = "subscribing" ~> pc[s] # "subscribing"

\* The executor waits for room in the channel of a watch that has returned:
\* nobody will ever read it, and its own removal is queued behind the wait.
WedgedOn(s) ==
    /\ remaining # <<>>
    /\ Head(remaining) = s
    /\ Full(s)
    /\ pc[s] \in Returned

\* That wait is for good, whatever anybody does: nothing takes the executor out of
\* it, and no Find that waits in wg.Wait() meanwhile gets through.
WedgedForGood ==
    [][\A s \in Subs : WedgedOn(s) =>
          /\ WedgedOn(s)'
          /\ \A t \in Subs : pc[t] = "subscribing" => pc'[t] = "subscribing"]_vars

\* With callers that read or disconnect, the one thing that can keep a Find
\* waiting in wg.Wait() is a watch that returned with its channel full: any
\* watcher that is still running lets the executor go on.
OnlyReturnedWatchersWedge ==
    \A s \in Subs :
        pc[s] = "subscribing" ~> (pc[s] # "subscribing" \/ \E t \in Subs : WedgedOn(t))

\* While every caller reads and none has left or broken its stream, every
\* watcher in the list deals with every broadcast event.
EveryoneCatchesUp ==
    \A s \in Subs : \A n \in 1 .. MaxEvents :
        (s \in ToSet(subscribers) /\ Len(log) >= n)
            ~> (cursor[s] >= n \/ \E t \in Subs : ctxDone[t])
=============================================================================
