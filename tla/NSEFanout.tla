----------------------------- MODULE NSEFanout -----------------------------
(***************************************************************************)
(* The fan-out of etcdNSERegistryServer (pkg/registry/etcd/nse_server.go): *)
(* how events read by watchRemoteStorage reach the callers of Find with    *)
(* Watch set, through subscribersExecutor, one buffered channel per        *)
(* subscriber, and the lagged flag.                                        *)
(*                                                                         *)
(* Four kinds of goroutine run here: watchRemoteStorage (Broadcast), the   *)
(* single worker of subscribersExecutor (PushBack, SendEvent, RemoveClose),*)
(* one Find per subscriber (Subscribe, Receive, ...) and the goroutine     *)
(* subscribeOnEvents starts per subscriber (Cleanup).                      *)
(*                                                                         *)
(* An update is identified by its position in the log of broadcast events. *)
(***************************************************************************)
EXTENDS Naturals, Sequences, FiniteSets

CONSTANTS Subs,        \* the Find(Watch) calls, one subscriber node each
          Events,      \* the updates the remote watch can report
          Interest,    \* Interest[s]: the updates that match the query of s
          BufferSize,  \* updateChannelSize
          MaxEvents,   \* bound: how many events are ever broadcast
          Responsive   \* the callers that always read what is sent to them

ASSUME FanoutAssumption ==
    /\ Interest \in [Subs -> SUBSET Events]
    /\ BufferSize \in Nat \ {0}
    /\ MaxEvents \in Nat
    /\ Responsive \subseteq Subs

VARIABLES
    jobs,         \* the queue of subscribersExecutor
    subscribers,  \* the nodes in the subscribers list
    remaining,    \* the nodes the running sendEvent has still to serve
    marking,      \* the node it found full and is about to mark as lagged
    log,          \* the events sendEvent has run or runs for, in order
    channel,      \* channel[s]: positions in the log waiting in node.channel
    closed,       \* closed[s]: close(ret) has run
    lagged,       \* lagged[s]: node.lagged
    pc,           \* where the Find goroutine of s stands
    held,         \* the update the loop of watch has in hand, 0 if none
    ctxDone,      \* ctxDone[s]: watchCtx of s is cancelled
    cleaner,      \* the goroutine that waits for ctx.Done()
    joined,       \* history: Len(log) when s was put in the list
    cursor,       \* history: the last update s dealt with
    delivered     \* history: the updates passed to s.Send without error

executorVars == <<jobs, subscribers, remaining, marking, log>>
nodeVars == <<channel, closed, lagged>>
findVars == <<pc, held, ctxDone>>
history  == <<joined, cursor, delivered>>
vars == <<executorVars, nodeVars, findVars, cleaner, history>>

Returned == {"ended", "exhausted", "failed"}
Watching == {"receiving", "received", "sending"}
PcStates == {"idle", "subscribing"} \cup Watching \cup Returned

Job == [type : {"push", "remove"}, sub : Subs] \cup [type : {"send"}, event : Events]

TypeOK ==
    /\ jobs \in Seq(Job)
    /\ subscribers \in SUBSET Subs
    /\ remaining \in SUBSET Subs
    /\ marking \in SUBSET Subs
    /\ log \in Seq(Events)
    /\ channel \in [Subs -> Seq(1 .. Len(log))]
    /\ \A s \in Subs : Len(channel[s]) <= BufferSize
    /\ closed \in [Subs -> BOOLEAN]
    /\ lagged \in [Subs -> BOOLEAN]
    /\ pc \in [Subs -> PcStates]
    /\ held \in [Subs -> 0 .. Len(log)]
    /\ ctxDone \in [Subs -> BOOLEAN]
    /\ cleaner \in [Subs -> {"none", "armed", "queued", "finished"}]
    /\ joined \in [Subs -> 0 .. Len(log)]
    /\ cursor \in [Subs -> 0 .. Len(log)]
    /\ delivered \in [Subs -> Seq(1 .. Len(log))]

Init ==
    /\ jobs = <<>>
    /\ subscribers = {}
    /\ remaining = {}
    /\ marking = {}
    /\ log = <<>>
    /\ channel = [s \in Subs |-> <<>>]
    /\ closed = [s \in Subs |-> FALSE]
    /\ lagged = [s \in Subs |-> FALSE]
    /\ pc = [s \in Subs |-> "idle"]
    /\ held = [s \in Subs |-> 0]
    /\ ctxDone = [s \in Subs |-> FALSE]
    /\ cleaner = [s \in Subs |-> "none"]
    /\ joined = [s \in Subs |-> 0]
    /\ cursor = [s \in Subs |-> 0]
    /\ delivered = [s \in Subs |-> <<>>]
-----------------------------------------------------------------------------
(***************************************************************************)
(* subscribersExecutor: AsyncExec appends a job, one worker runs the jobs  *)
(* one at a time in that order.                                            *)
(***************************************************************************)
AsyncExec(job) == jobs' = Append(jobs, job)

PushJob(s)   == [type |-> "push", sub |-> s]
RemoveJob(s) == [type |-> "remove", sub |-> s]
SendJob(e)   == [type |-> "send", event |-> e]

NextJob(type) ==
    /\ remaining = {} /\ marking = {}
    /\ jobs # <<>>
    /\ Head(jobs).type = type
    /\ jobs' = Tail(jobs)

IsSend(job) == job.type = "send"

\* watchRemoteStorage: an event of the remote watch becomes a sendEvent job.
Broadcast(e) ==
    /\ Len(log) + Len(SelectSeq(jobs, IsSend)) < MaxEvents
    /\ AsyncExec(SendJob(e))
    /\ UNCHANGED <<subscribers, remaining, marking, log, nodeVars, findVars, cleaner, history>>

\* Mutant of Full: off by one.
FullLate(s) == Len(channel[s]) > BufferSize

Full(s) == Len(channel[s]) >= BufferSize

\* sendEvent starts on its walk through the list.  Only the executor changes
\* the list; a set in its place stands for every order of the walk.
StartSendEvent ==
    /\ NextJob("send")
    /\ log' = Append(log, Head(jobs).event)
    /\ remaining' = subscribers
    /\ UNCHANGED <<subscribers, marking, nodeVars, findVars, cleaner, history>>

\* Mutants of ServeNode: no default branch; a default branch that only drops.
ServeNodeBlocking(s) ==
    /\ s \in remaining
    /\ marking = {}
    /\ ~Full(s)
    /\ channel' = [channel EXCEPT ![s] = Append(@, Len(log))]
    /\ remaining' = remaining \ {s}
    /\ UNCHANGED <<jobs, subscribers, marking, log, closed, lagged, findVars, cleaner, history>>

ServeNodeNoMark(s) ==
    /\ s \in remaining
    /\ marking = {}
    /\ remaining' = remaining \ {s}
    /\ channel' = IF Full(s) THEN channel ELSE [channel EXCEPT ![s] = Append(@, Len(log))]
    /\ UNCHANGED <<jobs, subscribers, marking, log, closed, lagged, findVars, cleaner, history>>

\* The select of sendEvent: the event goes into the channel or, when that is
\* full, nowhere, and the mark is next.
ServeNode(s) ==
    /\ s \in remaining
    /\ marking = {}
    /\ remaining' = remaining \ {s}
    /\ \/ /\ ~Full(s)
          /\ channel' = [channel EXCEPT ![s] = Append(@, Len(log))]
          /\ UNCHANGED marking
       \/ /\ Full(s)
          /\ marking' = {s}
          /\ UNCHANGED channel
    /\ UNCHANGED <<jobs, subscribers, log, closed, lagged, findVars, cleaner, history>>

\* Mutant of MarkLagged: every node of the list is marked.
MarkLaggedAll ==
    /\ marking # {}
    /\ lagged' = [s \in Subs |-> lagged[s] \/ s \in subscribers]
    /\ marking' = {}
    /\ UNCHANGED <<jobs, subscribers, remaining, log, channel, closed, findVars, cleaner, history>>

\* node.lagged.Store(true): the reader may have drained the channel since.
MarkLagged ==
    /\ marking # {}
    /\ lagged' = [s \in Subs |-> lagged[s] \/ s \in marking]
    /\ marking' = {}
    /\ UNCHANGED <<jobs, subscribers, remaining, log, channel, closed, findVars, cleaner, history>>

\* The first job of subscribeOnEvents, and the wg.Wait() it releases: the
\* Find goroutine starts the cleanup goroutine and enters its loop.
PushBack ==
    LET s == Head(jobs).sub IN
    /\ NextJob("push")
    /\ subscribers' = subscribers \cup {s}
    /\ pc' = [pc EXCEPT ![s] = "receiving"]
    /\ cleaner' = [cleaner EXCEPT ![s] = "armed"]
    /\ joined' = [joined EXCEPT ![s] = Len(log)]
    /\ cursor' = [cursor EXCEPT ![s] = Len(log)]
    /\ UNCHANGED <<remaining, marking, log, nodeVars, held, ctxDone, delivered>>

\* Mutant of RemoveClose: the node stays in the list.
CloseOnly ==
    LET s == Head(jobs).sub IN
    /\ NextJob("remove")
    /\ closed' = [closed EXCEPT ![s] = TRUE]
    /\ cleaner' = [cleaner EXCEPT ![s] = "finished"]
    /\ UNCHANGED <<subscribers, remaining, marking, log, channel, lagged, findVars, history>>

\* The second job of subscribeOnEvents: Remove and close in one job.
RemoveClose ==
    LET s == Head(jobs).sub IN
    /\ NextJob("remove")
    /\ subscribers' = subscribers \ {s}
    /\ closed' = [closed EXCEPT ![s] = TRUE]
    /\ cleaner' = [cleaner EXCEPT ![s] = "finished"]
    /\ UNCHANGED <<remaining, marking, log, channel, lagged, findVars, history>>

\* The goroutine of subscribeOnEvents: <-ctx.Done(), then AsyncExec.
Cleanup(s) ==
    /\ cleaner[s] = "armed"
    /\ ctxDone[s]
    /\ AsyncExec(RemoveJob(s))
    /\ cleaner' = [cleaner EXCEPT ![s] = "queued"]
    /\ UNCHANGED <<subscribers, remaining, marking, log, nodeVars, findVars, history>>
-----------------------------------------------------------------------------
(***************************************************************************)
(* The Find goroutine of s, from its call of watch on.                     *)
(***************************************************************************)
Subscribe(s) ==
    /\ pc[s] = "idle"
    /\ pc' = [pc EXCEPT ![s] = "subscribing"]
    /\ AsyncExec(PushJob(s))
    /\ UNCHANGED <<subscribers, remaining, marking, log, nodeVars, held, ctxDone, cleaner, history>>

\* The caller goes away: its stream context, the parent of watchCtx, is done.
Disconnect(s) ==
    /\ pc[s] \in {"subscribing"} \cup Watching
    /\ ~ctxDone[s]
    /\ ctxDone' = [ctxDone EXCEPT ![s] = TRUE]
    /\ UNCHANGED <<executorVars, nodeVars, pc, held, cleaner, history>>

\* Mutant of Return: no deferred cancel().
ReturnWithoutCancel(s, outcome) ==
    /\ pc' = [pc EXCEPT ![s] = outcome]
    /\ held' = [held EXCEPT ![s] = 0]
    /\ UNCHANGED ctxDone

\* watch returns and the deferred cancel() of Find ends watchCtx.
Return(s, outcome) ==
    /\ pc' = [pc EXCEPT ![s] = outcome]
    /\ held' = [held EXCEPT ![s] = 0]
    /\ ctxDone' = [ctxDone EXCEPT ![s] = TRUE]

Receive(s) ==
    /\ pc[s] = "receiving"
    /\ channel[s] # <<>>
    /\ held' = [held EXCEPT ![s] = Head(channel[s])]
    /\ channel' = [channel EXCEPT ![s] = Tail(@)]
    /\ pc' = [pc EXCEPT ![s] = "received"]
    /\ UNCHANGED <<executorVars, closed, lagged, ctxDone, cleaner, history>>

\* The range over the channel ends once it is closed and drained.
ReceiveClosed(s) ==
    /\ pc[s] = "receiving"
    /\ channel[s] = <<>>
    /\ closed[s]
    /\ Return(s, "ended")
    /\ UNCHANGED <<executorVars, nodeVars, cleaner, history>>

\* subNode.lagged.Load() is true: watch returns ResourceExhausted.
ReturnExhausted(s) ==
    /\ pc[s] = "received"
    /\ lagged[s]
    /\ Return(s, "exhausted")
    /\ UNCHANGED <<executorVars, nodeVars, cleaner, history>>

Matches(s, i) == log[i] \in Interest[s]

\* Not lagged, and MatchNetworkServiceEndpoints says no: on to the next one.
SkipUpdate(s) ==
    /\ pc[s] = "received"
    /\ ~lagged[s]
    /\ ~Matches(s, held[s])
    /\ pc' = [pc EXCEPT ![s] = "receiving"]
    /\ held' = [held EXCEPT ![s] = 0]
    /\ cursor' = [cursor EXCEPT ![s] = held[s]]
    /\ UNCHANGED <<executorVars, nodeVars, ctxDone, cleaner, joined, delivered>>

\* Mutant of StartSend: lagged is not looked at.
StartSendUnchecked(s) ==
    /\ pc[s] = "received"
    /\ Matches(s, held[s])
    /\ pc' = [pc EXCEPT ![s] = "sending"]
    /\ UNCHANGED <<executorVars, nodeVars, held, ctxDone, cleaner, history>>

\* Not lagged, and the update matches: the goroutine enters s.Send.
StartSend(s) ==
    /\ pc[s] = "received"
    /\ ~lagged[s]
    /\ Matches(s, held[s])
    /\ pc' = [pc EXCEPT ![s] = "sending"]
    /\ UNCHANGED <<executorVars, nodeVars, held, ctxDone, cleaner, history>>

\* s.Send returns nil.
SendOk(s) ==
    /\ pc[s] = "sending"
    /\ pc' = [pc EXCEPT ![s] = "receiving"]
    /\ held' = [held EXCEPT ![s] = 0]
    /\ cursor' = [cursor EXCEPT ![s] = held[s]]
    /\ delivered' = [delivered EXCEPT ![s] = Append(@, held[s])]
    /\ UNCHANGED <<executorVars, nodeVars, ctxDone, cleaner, joined>>

\* s.Send returns an error, of a cancelled stream or of a broken transport.
SendError(s) ==
    /\ pc[s] = "sending"
    /\ Return(s, "failed")
    /\ UNCHANGED <<executorVars, nodeVars, cleaner, history>>
-----------------------------------------------------------------------------
SendEvent ==
    \/ StartSendEvent
    \/ \E s \in Subs : ServeNode(s)
    \/ MarkLagged

Executor == SendEvent \/ PushBack \/ RemoveClose

WatchLoop(s) ==
    \/ Receive(s)
    \/ ReceiveClosed(s)
    \/ ReturnExhausted(s)
    \/ SkipUpdate(s)
    \/ StartSend(s)

Next ==
    \/ \E e \in Events : Broadcast(e)
    \/ Executor
    \/ \E s \in Subs :
          \/ Subscribe(s)
          \/ Disconnect(s)
          \/ Cleanup(s)
          \/ WatchLoop(s)
          \/ SendOk(s)
          \/ SendError(s)

Spec == Init /\ [][Next]_vars

(***************************************************************************)
(* Every runnable goroutine runs.  s.Send is a call to the caller's        *)
(* transport: it comes back when the stream is cancelled, and when the     *)
(* caller reads; nothing makes any other Send come back.                   *)
(***************************************************************************)
Fairness ==
    /\ WF_vars(Executor)
    /\ \A s \in Subs :
          /\ WF_vars(Cleanup(s))
          /\ WF_vars(WatchLoop(s))
          /\ WF_vars(ctxDone[s] /\ SendError(s))
    /\ \A s \in Responsive : WF_vars(SendOk(s))

FairSpec == Spec /\ Fairness
-----------------------------------------------------------------------------
(***************************************************************************)
(* Properties.                                                             *)
(***************************************************************************)

\* The INVARIANT comment of sendEvent: no node of the list has a closed
\* channel, so no broadcast can send on one (which would panic).
NoSendOnClosed == \A s \in subscribers \cup remaining : ~closed[s]

\* A watcher that is sent anything is sent exactly the updates its query
\* matches between the moment it was put in the list and the last update it
\* dealt with: each once, in order, none left out although others were
\* dropped for it when its buffer was full (sendEvent, watch).
ExactDelivery ==
    \A s \in Subs :
        /\ \A j, k \in 1 .. Len(delivered[s]) : j < k => delivered[s][j] < delivered[s][k]
        /\ \A k \in 1 .. Len(delivered[s]) :
              /\ delivered[s][k] \in joined[s] + 1 .. cursor[s]
              /\ Matches(s, delivered[s][k])
        /\ \A i \in joined[s] + 1 .. cursor[s] :
              Matches(s, i) => \E k \in 1 .. Len(delivered[s]) : delivered[s][k] = i

\* A lagged watcher that waits on an empty channel, and so is not told of its
\* lag before another event comes, misses the newest event and no other: the
\* next event finds room and brings the error with it.
UntoldMissesNewest ==
    \A s \in subscribers :
        lagged[s] /\ pc[s] = "receiving" /\ channel[s] = <<>> =>
            Len(log) = cursor[s] + (IF s \in remaining THEN 2 ELSE 1)

\* The executor forgets nobody: while a Find waits in wg.Wait() the job that puts
\* its node in the list is in the queue, and a node of the list whose watch has
\* returned, or whose caller is gone, has its removal in the queue, or a cleanup
\* goroutine that is free to put it there.  SubscribeCompletes and GoneIsRemoved
\* rest on it.
NobodyForgotten ==
    \A s \in Subs :
        /\ pc[s] = "subscribing" => \E i \in 1 .. Len(jobs) : jobs[i] = PushJob(s)
        /\ s \in subscribers /\ (ctxDone[s] \/ pc[s] \in Returned) =>
              \/ cleaner[s] = "armed" /\ ctxDone[s]
              \/ \E i \in 1 .. Len(jobs) : jobs[i] = RemoveJob(s)

\* A watch seen from its caller: off until its node is in the list, live while
\* the loop of watch runs, overrun from the first event dropped for it, then
\* the way it returned.
EventFeedRefined ==
    INSTANCE EventFeed WITH
        status <- [s \in Subs |-> IF pc[s] \in {"idle", "subscribing"} THEN "off"
                                  ELSE IF pc[s] \notin Watching THEN pc[s]
                                  ELSE IF lagged[s] \/ s \in marking THEN "overrun"
                                  ELSE "live"]

\* The fan-out implements the promise of EventFeed: no jump, no repetition,
\* ResourceExhausted only for a watcher that was more than BufferSize events
\* behind.
ImplementsFeed == EventFeedRefined!Spec

\* A Find that waits in wg.Wait() for its node to be put in the list gets
\* through, however many other watchers are stuck in s.Send.
SubscribeCompletes ==
    \A s \in Subs : pc[s] = "subscribing" ~> pc[s] # "subscribing"

\* Once a watch has returned, or its caller is gone even though it is stuck
\* in s.Send, its node leaves the list and its channel is closed.
GoneIsRemoved ==
    \A s \in Subs : (ctxDone[s] \/ pc[s] \in Returned) ~> (s \notin subscribers /\ closed[s])

\* A watcher whose caller reads deals with each event but the newest, or its
\* stream is ended: nothing older is missing without an error.
CaughtUpOrEnded ==
    \A s \in Responsive : \A n \in 1 .. MaxEvents :
        (s \in subscribers /\ Len(log) > n) ~> (cursor[s] >= n \/ pc[s] \in Returned)
=============================================================================
