-------------------------- MODULE NSEFanoutProofs --------------------------
(***************************************************************************)
(* Proofs about NSEFanout, for any number of subscribers, events and any   *)
(* size of the buffers.  IInv is inductive; the invariants that TLC checks *)
(* on small instances follow from it, and so does the refinement of        *)
(* EventFeed.                                                              *)
(***************************************************************************)
EXTENDS NSEFanout, SequenceTheorems, TLAPS

\* Where an update is in hand, it is one of the log.
Hand == \A s \in Subs : pc[s] \in {"received", "sending"} => held[s] \in 1 .. Len(log)

\* The walk of sendEvent is over nodes of the list; a node it has still to
\* serve is not the one it is marking, and the event is in the log.
Walk ==
    /\ remaining \subseteq subscribers
    /\ marking \subseteq subscribers
    /\ remaining \cap marking = {}
    /\ remaining # {} => Len(log) \in 1 .. Len(log)

\* How far a node has come: it is in the list while its cleanup goroutine is
\* armed or queued, its channel is closed once that has finished, and before
\* the first job of subscribeOnEvents has run nothing has happened to it.
Stage ==
    \A s \in Subs :
        /\ s \in subscribers <=> cleaner[s] \in {"armed", "queued"}
        /\ closed[s] <=> cleaner[s] = "finished"
        /\ cleaner[s] = "none" <=> pc[s] \in {"idle", "subscribing"}
        /\ cleaner[s] = "none" =>
              ~lagged[s] /\ channel[s] = <<>> /\ delivered[s] = <<>>

\* No two push jobs, and no two remove jobs, are of the same node.
Unrepeated(q) ==
    \A i, j \in 1 .. Len(q) :
        i # j /\ q[i].type # "send" /\ q[i].type = q[j].type => q[i].sub # q[j].sub

\* The queue holds the first job of a node only while its Find waits for it,
\* the second only when the cleanup goroutine has just put it there, and
\* neither of them twice.
Queue ==
    /\ \A i \in 1 .. Len(jobs) :
          /\ jobs[i].type = "push" => pc[jobs[i].sub] = "subscribing"
          /\ jobs[i].type = "remove" => cleaner[jobs[i].sub] = "queued"
    /\ Unrepeated(jobs)

\* 1 while an update is in hand.
InHand(s) == IF pc[s] \in {"received", "sending"} THEN 1 ELSE 0

\* 1 while the event of the running sendEvent is not, or never, in the channel.
Missing(s) == IF s \in remaining \cup marking THEN 1 ELSE 0

\* A node that has not lagged has in hand and in its channel the updates that
\* follow the last one it dealt with, while it is listed up to the newest one
\* that sendEvent has served it.
Contiguous(s) ==
    pc[s] \in Watching /\ ~lagged[s] =>
        /\ \A j \in 1 .. Len(channel[s]) : channel[s][j] = cursor[s] + InHand(s) + j
        /\ s \in subscribers =>
              cursor[s] + InHand(s) + Len(channel[s]) + Missing(s) = Len(log)

\* The update in hand is the next one, unless the check of lagged stands
\* between it and the caller; what is being sent matches.
HeldIsNext(s) ==
    /\ pc[s] = "received" /\ ~lagged[s] => held[s] = cursor[s] + 1
    /\ pc[s] = "sending" => held[s] = cursor[s] + 1 /\ Matches(s, held[s])

\* A lagged node with an empty channel dealt with, or has in hand, every event
\* before the one it was marked for, and no event has been served since.
Untold(s) ==
    lagged[s] /\ s \in subscribers /\ pc[s] \in {"receiving", "sending"} /\ channel[s] = <<>> =>
        /\ s \notin marking
        /\ cursor[s] + InHand(s) + 1 + Missing(s) = Len(log)

WindowOf(s) == joined[s] <= cursor[s] /\ Contiguous(s) /\ HeldIsNext(s) /\ Untold(s)

Window == \A s \in Subs : WindowOf(s)

TInv == TypeOK /\ Hand /\ Walk

IInv == TInv /\ Stage /\ Queue /\ Window /\ ExactDelivery
-----------------------------------------------------------------------------
(***************************************************************************)
(* Type correctness.                                                       *)
(***************************************************************************)

\* The next job is one of a type that names its own fields.
LEMMA HeadJob ==
    ASSUME TypeOK, jobs # <<>>
    PROVE  /\ Tail(jobs) \in Seq(Job)
           /\ Head(jobs).type = "send" => Head(jobs).event \in Events
           /\ Head(jobs).type \in {"push", "remove"} => Head(jobs).sub \in Subs
<1>1. Head(jobs) \in Job /\ Tail(jobs) \in Seq(Job)
    BY HeadTailProperties DEF TypeOK
<1>2. QED
    BY <1>1 DEF Job

\* What fits a shorter log fits a longer one.
LEMMA SeqGrows ==
    ASSUME NEW m \in Nat, NEW q \in Seq(1 .. m)
    PROVE  q \in Seq(1 .. m + 1)
<1>1. 1 .. m \subseteq 1 .. m + 1
    OBVIOUS
<1>2. QED
    BY <1>1, SeqMonotonic

\* Types hold at the start ...
LEMMA InitTInv == Init => TInv
<1> SUFFICES ASSUME Init PROVE TInv
    OBVIOUS
<1>1. Len(log) = 0
    BY DEF Init
<1>2. BufferSize \in Nat
    BY FanoutAssumption
<1>3. QED
    BY <1>1, <1>2 DEF Init, TInv, TypeOK, Hand, Walk, PcStates, Watching, Returned

\* Where a Find goroutine goes on, with another update in hand or none, the rest
\* of the server stays as it is.
LEMMA FindTInv ==
    ASSUME TInv, NEW s \in Subs, NEW p \in PcStates, NEW h \in 0 .. Len(log),
           UNCHANGED <<executorVars, closed, lagged, cleaner, joined>>,
           pc' = [pc EXCEPT ![s] = p],
           held' = [held EXCEPT ![s] = h],
           p \in {"received", "sending"} => h # 0,
           ctxDone' \in {ctxDone, [ctxDone EXCEPT ![s] = TRUE]},
           cursor' \in {cursor, [cursor EXCEPT ![s] = held[s]]},
           \/ channel' = channel
           \/ /\ channel' \in [Subs -> Seq(1 .. Len(log))]
              /\ \A t \in Subs : Len(channel'[t]) <= BufferSize,
           delivered' = delivered \/ delivered' \in [Subs -> Seq(1 .. Len(log))]
    PROVE  TInv'
<1>0. TypeOK /\ Hand /\ Walk /\ Len(log) \in Nat
    BY DEF TInv, TypeOK
<1>1. UNCHANGED <<jobs, subscribers, remaining, marking, log, closed, lagged, cleaner, joined>>
    BY DEF executorVars
<1>2. /\ pc' \in [Subs -> PcStates] /\ pc'[s] = p
      /\ held' \in [Subs -> 0 .. Len(log)] /\ held'[s] = h
      /\ \A t \in Subs \ {s} : pc'[t] = pc[t] /\ held'[t] = held[t]
    BY <1>0 DEF TypeOK
<1>3. /\ ctxDone' \in [Subs -> BOOLEAN] /\ cursor' \in [Subs -> 0 .. Len(log)]
      /\ delivered' \in [Subs -> Seq(1 .. Len(log))]
    <2>1. /\ ctxDone \in [Subs -> BOOLEAN] /\ cursor \in [Subs -> 0 .. Len(log)]
          /\ held[s] \in 0 .. Len(log)
          /\ delivered \in [Subs -> Seq(1 .. Len(log))]
        BY <1>0 DEF TypeOK
    <2>2. ctxDone' \in [Subs -> BOOLEAN]
        BY <2>1
    <2>3. cursor' \in [Subs -> 0 .. Len(log)]
        BY <2>1
    <2>4. QED
        BY <2>1, <2>2, <2>3
<1>4. /\ channel' \in [Subs -> Seq(1 .. Len(log))]
      /\ \A t \in Subs : Len(channel'[t]) <= BufferSize
    BY <1>0 DEF TypeOK
<1>5. TypeOK'
    BY <1>0, <1>1, <1>2, <1>3, <1>4 DEF TypeOK
<1>6. ASSUME NEW t \in Subs, pc'[t] \in {"received", "sending"} PROVE held'[t] \in 1 .. Len(log')
    <2>1. CASE t = s
        <3>1. h # 0
            BY <1>2, <1>6, <2>1
        <3>2. QED
            BY <1>0, <1>1, <1>2, <2>1, <3>1
    <2>2. CASE t # s
        BY <1>0, <1>1, <1>2, <1>6, <2>2 DEF Hand
    <2>3. QED
        BY <2>1, <2>2
<1>7. Walk'
    BY <1>0, <1>1 DEF Walk
<1>8. QED
    BY <1>5, <1>6, <1>7 DEF TInv, Hand

\* ... and every step keeps them.
LEMMA StepTInv == TInv /\ [Next]_vars => TInv'
<1> SUFFICES ASSUME TInv, [Next]_vars PROVE TInv'
    OBVIOUS
<1> USE FanoutAssumption
<1>0. TypeOK /\ Hand /\ Walk /\ Len(log) \in Nat
    BY DEF TInv, TypeOK
<1>1. ASSUME NEW e \in Events, Broadcast(e) PROVE TInv'
    <2>1. SendJob(e) \in Job
        BY DEF SendJob, Job
    <2>2. jobs' \in Seq(Job)
        BY <1>0, <1>1, <2>1 DEF Broadcast, AsyncExec, TypeOK
    <2>3. QED
        BY <1>0, <1>1, <2>2 DEF Broadcast, TInv, TypeOK, Hand, Walk, nodeVars, findVars, history
<1>2. CASE StartSendEvent
    <2>1. /\ jobs' \in Seq(Job)
          /\ log' \in Seq(Events)
          /\ Len(log') = Len(log) + 1
        BY <1>0, <1>2, HeadJob DEF StartSendEvent, NextJob, TypeOK
    <2>2. /\ channel' \in [Subs -> Seq(1 .. Len(log'))]
          /\ \A s \in Subs : Len(channel'[s]) <= BufferSize
        BY <1>0, <1>2, <2>1, SeqGrows DEF StartSendEvent, TypeOK, nodeVars
    <2>3. delivered' \in [Subs -> Seq(1 .. Len(log'))]
        BY <1>0, <1>2, <2>1, SeqGrows DEF StartSendEvent, TypeOK, history
    <2>4. /\ held' \in [Subs -> 0 .. Len(log')]
          /\ joined' \in [Subs -> 0 .. Len(log')]
          /\ cursor' \in [Subs -> 0 .. Len(log')]
        BY <1>0, <1>2, <2>1 DEF StartSendEvent, TypeOK, findVars, history
    <2>5. Hand'
        BY <1>0, <1>2, <2>1 DEF StartSendEvent, Hand, findVars
    <2>6. Walk'
        BY <1>0, <1>2, <2>1 DEF StartSendEvent, NextJob, Walk
    <2>7. /\ subscribers' \in SUBSET Subs
          /\ remaining' \in SUBSET Subs
          /\ marking' \in SUBSET Subs
          /\ closed' \in [Subs -> BOOLEAN]
          /\ lagged' \in [Subs -> BOOLEAN]
          /\ pc' \in [Subs -> PcStates]
          /\ ctxDone' \in [Subs -> BOOLEAN]
          /\ cleaner' \in [Subs -> {"none", "armed", "queued", "finished"}]
        BY <1>0, <1>2 DEF StartSendEvent, TypeOK, nodeVars, findVars
    <2>8. QED
        BY <2>1, <2>2, <2>3, <2>4, <2>5, <2>6, <2>7 DEF TInv, TypeOK
<1>3. ASSUME NEW s \in Subs, ServeNode(s) PROVE TInv'
    <2>1. /\ channel' \in [Subs -> Seq(1 .. Len(log))]
          /\ \A t \in Subs : Len(channel'[t]) <= BufferSize
        <3>1. CASE ~Full(s) /\ channel' = [channel EXCEPT ![s] = Append(@, Len(log))]
            <4>1. channel[s] \in Seq(1 .. Len(log)) /\ Len(channel[s]) < BufferSize
                BY <1>0, <3>1 DEF TypeOK, Full
            <4>2. Len(log) \in 1 .. Len(log)
                BY <1>0, <1>3 DEF ServeNode, Walk
            <4>3. /\ Append(channel[s], Len(log)) \in Seq(1 .. Len(log))
                  /\ Len(Append(channel[s], Len(log))) <= BufferSize
                BY <4>1, <4>2
            <4>4. QED
                BY <1>0, <3>1, <4>3 DEF TypeOK
        <3>2. CASE channel' = channel
            BY <1>0, <3>2 DEF TypeOK
        <3>3. QED
            BY <1>3, <3>1, <3>2 DEF ServeNode
    <2>2. Walk' /\ marking' \in SUBSET Subs
        BY <1>0, <1>3 DEF ServeNode, Walk, TypeOK
    <2>3. remaining' \in SUBSET Subs
        BY <1>0, <1>3 DEF ServeNode, TypeOK
    <2>4. /\ UNCHANGED <<jobs, subscribers, log, closed, lagged, cleaner>>
          /\ UNCHANGED <<pc, held, ctxDone, joined, cursor, delivered>>
        BY <1>3 DEF ServeNode, findVars, history
    <2>5. TypeOK'
        BY <1>0, <2>1, <2>2, <2>3, <2>4 DEF TypeOK
    <2>6. QED
        BY <1>0, <2>2, <2>4, <2>5 DEF TInv, Hand
<1>4. CASE MarkLagged
    <2>1. lagged' \in [Subs -> BOOLEAN] /\ marking' = {}
        BY <1>0, <1>4 DEF MarkLagged, TypeOK
    <2>2. /\ UNCHANGED <<jobs, subscribers, remaining, log, channel, closed, cleaner>>
          /\ UNCHANGED <<pc, held, ctxDone, joined, cursor, delivered>>
        BY <1>4 DEF MarkLagged, findVars, history
    <2>3. TypeOK'
        BY <1>0, <2>1, <2>2 DEF TypeOK
    <2>4. QED
        BY <1>0, <2>1, <2>2, <2>3 DEF TInv, Hand, Walk
<1>5. CASE PushBack
    <2>1. /\ Head(jobs).sub \in Subs
          /\ jobs' \in Seq(Job)
        BY <1>0, <1>5, HeadJob DEF PushBack, NextJob
    <2>2. /\ UNCHANGED <<remaining, marking, log, channel, closed, lagged>>
          /\ UNCHANGED <<held, ctxDone, delivered>>
          /\ remaining = {} /\ marking = {}
        BY <1>5 DEF PushBack, NextJob, nodeVars
    <2>3. /\ subscribers' \in SUBSET Subs
          /\ pc' \in [Subs -> PcStates]
          /\ cleaner' \in [Subs -> {"none", "armed", "queued", "finished"}]
        BY <1>0, <1>5, <2>1 DEF PushBack, TypeOK, PcStates, Watching
    <2>4. joined' \in [Subs -> 0 .. Len(log)] /\ cursor' \in [Subs -> 0 .. Len(log)]
        BY <1>0, <1>5, <2>1 DEF PushBack, TypeOK
    <2>5. TypeOK'
        BY <1>0, <2>1, <2>2, <2>3, <2>4 DEF TypeOK
    <2>6. Hand'
        BY <1>0, <1>5, <2>1, <2>2 DEF PushBack, Hand, TypeOK
    <2>7. QED
        BY <2>2, <2>5, <2>6 DEF TInv, Walk
<1>6. CASE RemoveClose
    <2>1. /\ Head(jobs).sub \in Subs
          /\ jobs' \in Seq(Job)
        BY <1>0, <1>6, HeadJob DEF RemoveClose, NextJob
    <2>2. remaining = {} /\ marking = {} /\ remaining' = {} /\ marking' = {}
        BY <1>6 DEF RemoveClose, NextJob
    <2>3. TypeOK' /\ Hand'
        BY <1>0, <1>6, <2>1, <2>2 DEF RemoveClose, TypeOK, Hand, findVars, history
    <2>4. QED
        BY <2>2, <2>3 DEF TInv, Walk
<1>7. ASSUME NEW s \in Subs, Subscribe(s) PROVE TInv'
    <2>1. jobs' \in Seq(Job)
        BY <1>0, <1>7 DEF Subscribe, AsyncExec, PushJob, Job, TypeOK
    <2>2. QED
        BY <1>0, <1>7, <2>1 DEF Subscribe, TInv, TypeOK, Hand, Walk, PcStates, nodeVars, history
<1>8. ASSUME NEW s \in Subs, Disconnect(s) PROVE TInv'
    BY <1>0, <1>8 DEF Disconnect, executorVars, TInv, TypeOK, Hand, Walk, nodeVars, history
<1>9. ASSUME NEW s \in Subs, Cleanup(s) PROVE TInv'
    <2>1. jobs' \in Seq(Job)
        BY <1>0, <1>9 DEF Cleanup, AsyncExec, RemoveJob, Job, TypeOK
    <2>2. QED
        BY <1>0, <1>9, <2>1 DEF Cleanup, TInv, TypeOK, Hand, Walk, nodeVars, findVars, history
<1>10. ASSUME NEW s \in Subs, Receive(s) PROVE TInv'
    <2>1. /\ Head(channel[s]) \in 1 .. Len(log)
          /\ Tail(channel[s]) \in Seq(1 .. Len(log))
          /\ Len(Tail(channel[s])) <= BufferSize
        <3> DEFINE q == channel[s]
                   L == 1 .. Len(log)
        <3>1. q \in Seq(L) /\ q # <<>> /\ Len(q) <= BufferSize
            BY <1>0, <1>10 DEF Receive, TypeOK
        <3> HIDE DEF q, L
        <3>2. Head(q) \in L /\ Tail(q) \in Seq(L) /\ Len(Tail(q)) = Len(q) - 1
            BY <3>1, HeadTailProperties
        <3>3. Len(Tail(q)) <= BufferSize
            BY <3>1, <3>2, FanoutAssumption, LenProperties DEF FanoutAssumption
        <3>4. QED
            BY <3>2, <3>3 DEF q, L
    <2>2. /\ channel' \in [Subs -> Seq(1 .. Len(log))]
          /\ \A t \in Subs : Len(channel'[t]) <= BufferSize
        BY <1>0, <1>10, <2>1 DEF Receive, TypeOK
    <2>3. /\ pc' = [pc EXCEPT ![s] = "received"]
          /\ held' = [held EXCEPT ![s] = Head(channel[s])]
          /\ UNCHANGED <<executorVars, closed, lagged, ctxDone, cleaner, joined, cursor, delivered>>
        BY <1>10 DEF Receive, history
    <2>4. /\ Head(channel[s]) \in 0 .. Len(log) /\ Head(channel[s]) # 0
          /\ "received" \in PcStates
        BY <2>1 DEF PcStates, Watching
    <2>5. QED
        BY <2>2, <2>3, <2>4, FindTInv
<1>11. ASSUME NEW s \in Subs, NEW outcome \in Returned, Return(s, outcome),
             UNCHANGED <<executorVars, nodeVars, cleaner, history>>
      PROVE  TInv'
    <2>1. /\ outcome \in PcStates /\ outcome \notin {"received", "sending"}
          /\ 0 \in 0 .. Len(log)
        BY <1>0 DEF PcStates, Returned
    <2>2. /\ pc' = [pc EXCEPT ![s] = outcome] /\ held' = [held EXCEPT ![s] = 0]
          /\ ctxDone' = [ctxDone EXCEPT ![s] = TRUE]
          /\ UNCHANGED <<executorVars, channel, closed, lagged, cleaner, joined, cursor, delivered>>
        BY <1>11 DEF Return, nodeVars, history
    <2>3. QED
        BY <2>1, <2>2, FindTInv
<1>12. ASSUME NEW s \in Subs, SkipUpdate(s) PROVE TInv'
    <2>1. "receiving" \in PcStates /\ 0 \in 0 .. Len(log)
        BY <1>0 DEF PcStates, Watching
    <2>2. /\ pc' = [pc EXCEPT ![s] = "receiving"] /\ held' = [held EXCEPT ![s] = 0]
          /\ cursor' = [cursor EXCEPT ![s] = held[s]]
          /\ UNCHANGED <<executorVars, channel, closed, lagged, ctxDone, cleaner, joined,
                         delivered>>
        BY <1>12 DEF SkipUpdate, nodeVars
    <2>3. QED
        BY <2>1, <2>2, FindTInv
<1>13. ASSUME NEW s \in Subs, StartSend(s) PROVE TInv'
    <2>1. "sending" \in PcStates /\ held[s] \in 0 .. Len(log)
        BY <1>0 DEF TypeOK, PcStates, Watching
    <2>2. held[s] # 0
        BY <1>0, <1>13 DEF StartSend, Hand
    <2>3. held' = [held EXCEPT ![s] = held[s]]
        BY <1>0, <1>13 DEF StartSend, TypeOK
    <2>4. /\ pc' = [pc EXCEPT ![s] = "sending"]
          /\ UNCHANGED <<executorVars, channel, closed, lagged, ctxDone, cleaner, joined, cursor,
                         delivered>>
        BY <1>13 DEF StartSend, nodeVars, history
    <2>5. QED
        BY <2>1, <2>2, <2>3, <2>4, FindTInv
<1>14. ASSUME NEW s \in Subs, SendOk(s) PROVE TInv'
    <2>1. "receiving" \in PcStates /\ 0 \in 0 .. Len(log)
        BY <1>0 DEF PcStates, Watching
    <2>2. Append(delivered[s], held[s]) \in Seq(1 .. Len(log))
        BY <1>0, <1>14 DEF SendOk, TypeOK, Hand
    <2>3. delivered' \in [Subs -> Seq(1 .. Len(log))]
        BY <1>0, <1>14, <2>2 DEF SendOk, TypeOK
    <2>4. /\ pc' = [pc EXCEPT ![s] = "receiving"] /\ held' = [held EXCEPT ![s] = 0]
          /\ cursor' = [cursor EXCEPT ![s] = held[s]]
          /\ UNCHANGED <<executorVars, channel, closed, lagged, ctxDone, cleaner, joined>>
        BY <1>14 DEF SendOk, nodeVars
    <2>5. QED
        BY <2>1, <2>3, <2>4, FindTInv
<1>15. CASE UNCHANGED vars
    BY <1>0, <1>15 DEF vars, executorVars, nodeVars, findVars, history, TInv, TypeOK, Hand, Walk
<1>16. QED
    BY <1>1, <1>2, <1>5, <1>6, <1>7, <1>8, <1>9, <1>10, <1>11, <1>12, <1>13, <1>14, <1>15,
       <1>3, <1>4
    DEF Next, Executor, SendEvent, WatchLoop, ReceiveClosed, ReturnExhausted, SendError, Returned

\* Every variable keeps the type TypeOK gives it: in particular no channel
\* ever holds more than updateChannelSize updates, and what is in a channel,
\* in hand or delivered is an update that was broadcast.
THEOREM TypeCorrect == Spec => []TypeOK
<1>1. TInv => TypeOK
    BY DEF TInv
<1>2. QED
    BY <1>1, InitTInv, StepTInv, PTL DEF Spec
-----------------------------------------------------------------------------
(***************************************************************************)
(* The list, the channels and the queue.                                   *)
(***************************************************************************)

\* A job added at the end keeps the rest of the queue in place.
LEMMA AppendJob ==
    ASSUME NEW q \in Seq(Job), NEW job \in Job
    PROVE  /\ Len(Append(q, job)) = Len(q) + 1
           /\ \A i \in 1 .. Len(q) : Append(q, job)[i] = q[i]
           /\ Append(q, job)[Len(q) + 1] = job
    OBVIOUS

\* The job taken is the first one, the others move up by one.
LEMMA TakeJob ==
    ASSUME NEW q \in Seq(Job), q # <<>>
    PROVE  /\ Len(Tail(q)) = Len(q) - 1
           /\ \A i \in 1 .. Len(Tail(q)) : i + 1 \in 1 .. Len(q) /\ Tail(q)[i] = q[i + 1]
           /\ 1 \in 1 .. Len(q)
           /\ q[1] = Head(q)
    OBVIOUS

\* No job is repeated when one that is not there yet is added ...
LEMMA UnrepeatedAppend ==
    ASSUME NEW q \in Seq(Job), NEW job \in Job, Unrepeated(q),
           \A i \in 1 .. Len(q) :
              job.type # "send" /\ q[i].type = job.type => q[i].sub # job.sub
    PROVE  Unrepeated(Append(q, job))
<1> DEFINE r == Append(q, job)
<1> SUFFICES ASSUME NEW i \in 1 .. Len(r), NEW j \in 1 .. Len(r), i # j,
                    r[i].type # "send", r[i].type = r[j].type
             PROVE  r[i].sub # r[j].sub
    BY DEF Unrepeated
<1>1. CASE i \in 1 .. Len(q) /\ j \in 1 .. Len(q)
    BY <1>1, AppendJob DEF Unrepeated
<1>2. CASE i \in 1 .. Len(q) /\ j = Len(q) + 1
    BY <1>2, AppendJob
<1>3. CASE i = Len(q) + 1 /\ j \in 1 .. Len(q)
    BY <1>3, AppendJob
<1>4. QED
    BY <1>1, <1>2, <1>3, AppendJob

\* ... or one is taken.
LEMMA UnrepeatedTail ==
    ASSUME NEW q \in Seq(Job), q # <<>>, Unrepeated(q)
    PROVE  Unrepeated(Tail(q))
<1> SUFFICES ASSUME NEW i \in 1 .. Len(Tail(q)), NEW j \in 1 .. Len(Tail(q)), i # j,
                    Tail(q)[i].type # "send", Tail(q)[i].type = Tail(q)[j].type
             PROVE  Tail(q)[i].sub # Tail(q)[j].sub
    BY DEF Unrepeated
<1>1. /\ i + 1 \in 1 .. Len(q) /\ Tail(q)[i] = q[i + 1]
      /\ j + 1 \in 1 .. Len(q) /\ Tail(q)[j] = q[j + 1]
      /\ i + 1 # j + 1
    BY TakeJob
<1>2. QED
    BY <1>1 DEF Unrepeated

\* The job at the head of the queue finds its node in the stage it is for.
LEMMA HeadStage ==
    ASSUME TypeOK, Queue, jobs # <<>>
    PROVE  /\ Head(jobs).type = "push" =>
                 Head(jobs).sub \in Subs /\ pc[Head(jobs).sub] = "subscribing"
           /\ Head(jobs).type = "remove" =>
                 Head(jobs).sub \in Subs /\ cleaner[Head(jobs).sub] = "queued"
<1>1. 1 \in 1 .. Len(jobs) /\ jobs[1] = Head(jobs)
    BY TakeJob DEF TypeOK
<1>2. /\ jobs[1].type = "push" => pc[jobs[1].sub] = "subscribing"
      /\ jobs[1].type = "remove" => cleaner[jobs[1].sub] = "queued"
    BY <1>1 DEF Queue
<1>3. Head(jobs).type \in {"push", "remove"} => Head(jobs).sub \in Subs
    BY HeadJob
<1>4. QED
    BY <1>1, <1>2, <1>3

\* At the start nothing is queued and no node has been made.
LEMMA InitStageQueue == Init => Stage /\ Queue
    BY DEF Init, Stage, Queue, Unrepeated

\* The executor moves a node through its stages: the push job puts it in the
\* list, the remove job takes it out and closes its channel in one go.
LEMMA StepStage ==
    ASSUME TInv, Stage, Queue, [Next]_vars
    PROVE  Stage'
<1>0. TypeOK
    BY DEF TInv
<1>1. ASSUME NEW e \in Events, Broadcast(e) PROVE Stage'
    BY <1>1 DEF Broadcast, Stage, nodeVars, findVars, history
<1>2. CASE StartSendEvent
    BY <1>2 DEF StartSendEvent, Stage, nodeVars, findVars, history
<1>3. ASSUME NEW s \in Subs, ServeNode(s) PROVE Stage'
    <2>1. s \in subscribers
        BY <1>3 DEF ServeNode, TInv, Walk
    <2>2. QED
        BY <1>0, <1>3, <2>1 DEF ServeNode, Stage, TypeOK, findVars, history
<1>4. CASE MarkLagged
    BY <1>0, <1>4 DEF MarkLagged, TInv, Walk, Stage, TypeOK, findVars, history
<1>5. CASE PushBack
    <2> DEFINE s == Head(jobs).sub
    <2>1. s \in Subs /\ pc[s] = "subscribing"
        <3>1. jobs # <<>> /\ Head(jobs).type = "push"
            BY <1>5 DEF PushBack, NextJob
        <3>2. QED
            BY <1>0, <3>1, HeadStage
    <2>2. QED
        BY <1>0, <1>5, <2>1 DEF PushBack, Stage, TypeOK, nodeVars
<1>6. CASE RemoveClose
    <2> DEFINE s == Head(jobs).sub
    <2>1. s \in Subs /\ cleaner[s] = "queued"
        <3>1. jobs # <<>> /\ Head(jobs).type = "remove"
            BY <1>6 DEF RemoveClose, NextJob
        <3>2. QED
            BY <1>0, <3>1, HeadStage
    <2>2. QED
        BY <1>0, <1>6, <2>1 DEF RemoveClose, Stage, TypeOK, findVars, history
<1>7. ASSUME NEW s \in Subs, Subscribe(s) PROVE Stage'
    BY <1>0, <1>7 DEF Subscribe, Stage, TypeOK, nodeVars, history
<1>8. ASSUME NEW s \in Subs, Disconnect(s) PROVE Stage'
    BY <1>8 DEF Disconnect, executorVars, Stage, nodeVars, history
<1>9. ASSUME NEW s \in Subs, Cleanup(s) PROVE Stage'
    BY <1>0, <1>9 DEF Cleanup, Stage, TypeOK, nodeVars, findVars, history
<1>10. ASSUME NEW s \in Subs, Receive(s) PROVE Stage'
    BY <1>0, <1>10 DEF Receive, executorVars, Stage, TypeOK, history
<1>11. ASSUME NEW s \in Subs, NEW outcome \in Returned, Return(s, outcome),
             pc[s] \in Watching,
             UNCHANGED <<executorVars, nodeVars, cleaner, history>>
      PROVE  Stage'
    BY <1>0, <1>11 DEF Return, executorVars, Stage, TypeOK, Returned, Watching, nodeVars, history
<1>12. ASSUME NEW s \in Subs, SkipUpdate(s) PROVE Stage'
    BY <1>0, <1>12 DEF SkipUpdate, executorVars, Stage, TypeOK, nodeVars
<1>13. ASSUME NEW s \in Subs, StartSend(s) PROVE Stage'
    BY <1>0, <1>13 DEF StartSend, executorVars, Stage, TypeOK, nodeVars, history
<1>14. ASSUME NEW s \in Subs, SendOk(s) PROVE Stage'
    BY <1>0, <1>14 DEF SendOk, executorVars, Stage, TypeOK, nodeVars
<1>15. CASE UNCHANGED vars
    BY <1>15 DEF vars, executorVars, nodeVars, findVars, history, Stage
<1>16. QED
    BY <1>1, <1>2, <1>5, <1>6, <1>7, <1>8, <1>9, <1>10, <1>11, <1>12, <1>13, <1>14, <1>15,
       <1>3, <1>4
    DEF Next, Executor, SendEvent, WatchLoop, ReceiveClosed, ReturnExhausted, SendError,
        Returned, Watching

\* subscribeOnEvents queues each of its two jobs once, in the stage it is for.
LEMMA StepQueue ==
    ASSUME TInv, Stage, Queue, [Next]_vars
    PROVE  Queue'
<1>0. TypeOK
    BY DEF TInv
<1>1. ASSUME NEW e \in Events, Broadcast(e) PROVE Queue'
    <2>1. SendJob(e) \in Job /\ SendJob(e).type = "send"
        BY DEF SendJob, Job
    <2>2. jobs' = Append(jobs, SendJob(e)) /\ pc' = pc /\ cleaner' = cleaner
        BY <1>1 DEF Broadcast, AsyncExec, findVars
    <2>3. Unrepeated(jobs')
        BY <1>0, <2>1, <2>2, UnrepeatedAppend DEF Queue, TypeOK
    <2>4. QED
        BY <1>0, <2>1, <2>2, <2>3, AppendJob DEF Queue, TypeOK
<1>2. CASE StartSendEvent
    <2>1. /\ jobs # <<>> /\ jobs' = Tail(jobs)
          /\ pc' = pc /\ cleaner' = cleaner
        BY <1>2 DEF StartSendEvent, NextJob, findVars
    <2>2. Unrepeated(jobs')
        BY <1>0, <2>1, UnrepeatedTail DEF Queue, TypeOK
    <2>3. QED
        BY <1>0, <2>1, <2>2, TakeJob DEF Queue, TypeOK
<1>3. CASE PushBack
    <2> DEFINE s == Head(jobs).sub
    <2>1. /\ jobs # <<>> /\ Head(jobs).type = "push"
          /\ jobs' = Tail(jobs)
        BY <1>3 DEF PushBack, NextJob
    <2>2. s \in Subs
        BY <1>0, <2>1, HeadJob
    <2>3. ASSUME NEW i \in 1 .. Len(jobs'), jobs'[i].type = "push"
          PROVE  pc'[jobs'[i].sub] = "subscribing"
        <3>1. /\ jobs'[i] = jobs[i + 1] /\ i + 1 \in 1 .. Len(jobs)
              /\ 1 \in 1 .. Len(jobs) /\ jobs[1] = Head(jobs)
            BY <1>0, <2>1, TakeJob DEF TypeOK
        <3>2. jobs[i + 1].sub # s /\ pc[jobs[i + 1].sub] = "subscribing"
            BY <2>1, <2>3, <3>1 DEF Queue, Unrepeated
        <3>3. QED
            BY <1>0, <1>3, <3>1, <3>2 DEF PushBack, TypeOK
    <2>4. ASSUME NEW i \in 1 .. Len(jobs'), jobs'[i].type = "remove"
          PROVE  cleaner'[jobs'[i].sub] = "queued"
        <3>1. /\ jobs'[i] = jobs[i + 1] /\ i + 1 \in 1 .. Len(jobs)
              /\ 1 \in 1 .. Len(jobs) /\ jobs[1] = Head(jobs)
            BY <1>0, <2>1, TakeJob DEF TypeOK
        <3>2. cleaner[jobs[i + 1].sub] = "queued" /\ pc[s] = "subscribing"
            BY <2>1, <2>4, <3>1 DEF Queue
        <3>3. jobs[i + 1].sub # s
            BY <2>2, <3>2 DEF Stage
        <3>4. QED
            BY <1>0, <1>3, <3>1, <3>2, <3>3 DEF PushBack, TypeOK
    <2>5. Unrepeated(jobs')
        BY <1>0, <2>1, UnrepeatedTail DEF Queue, TypeOK
    <2>6. QED
        BY <2>3, <2>4, <2>5 DEF Queue
<1>4. CASE RemoveClose
    <2> DEFINE s == Head(jobs).sub
    <2>1. /\ jobs # <<>> /\ Head(jobs).type = "remove"
          /\ jobs' = Tail(jobs)
        BY <1>4 DEF RemoveClose, NextJob
    <2>2. ASSUME NEW i \in 1 .. Len(jobs'), jobs'[i].type = "remove"
          PROVE  cleaner'[jobs'[i].sub] = "queued"
        <3>1. /\ jobs'[i] = jobs[i + 1] /\ i + 1 \in 1 .. Len(jobs)
              /\ 1 \in 1 .. Len(jobs) /\ jobs[1] = Head(jobs)
            BY <1>0, <2>1, TakeJob DEF TypeOK
        <3>2. jobs[i + 1].sub # s /\ cleaner[jobs[i + 1].sub] = "queued"
            BY <2>1, <2>2, <3>1 DEF Queue, Unrepeated
        <3>3. QED
            BY <1>0, <1>4, <3>1, <3>2 DEF RemoveClose, TypeOK
    <2>3. ASSUME NEW i \in 1 .. Len(jobs'), jobs'[i].type = "push"
          PROVE  pc'[jobs'[i].sub] = "subscribing"
        BY <1>0, <1>4, <2>1, <2>3, TakeJob DEF RemoveClose, Queue, TypeOK, findVars
    <2>4. Unrepeated(jobs')
        BY <1>0, <2>1, UnrepeatedTail DEF Queue, TypeOK
    <2>5. QED
        BY <2>2, <2>3, <2>4 DEF Queue
<1>5. ASSUME NEW s \in Subs, Subscribe(s) PROVE Queue'
    <2>1. PushJob(s) \in Job /\ PushJob(s).type = "push" /\ PushJob(s).sub = s
        BY DEF PushJob, Job
    <2>2. ASSUME NEW i \in 1 .. Len(jobs), jobs[i].type = "push"
          PROVE  jobs[i].sub # s
        BY <1>5, <2>2 DEF Subscribe, Queue
    <2>3. jobs' = Append(jobs, PushJob(s)) /\ cleaner' = cleaner
        BY <1>5 DEF Subscribe, AsyncExec
    <2>4. ASSUME NEW i \in 1 .. Len(jobs'), jobs'[i].type = "push"
          PROVE  pc'[jobs'[i].sub] = "subscribing"
        BY <1>0, <1>5, <2>1, <2>2, <2>3, <2>4, AppendJob DEF Subscribe, Queue, TypeOK
    <2>5. ASSUME NEW i \in 1 .. Len(jobs'), jobs'[i].type = "remove"
          PROVE  cleaner'[jobs'[i].sub] = "queued"
        BY <1>0, <2>1, <2>3, <2>5, AppendJob DEF Queue, TypeOK
    <2>6. Unrepeated(jobs')
        BY <1>0, <2>1, <2>2, <2>3, UnrepeatedAppend DEF Queue, TypeOK
    <2>7. QED
        BY <2>4, <2>5, <2>6 DEF Queue
<1>6. ASSUME NEW s \in Subs, Disconnect(s) PROVE Queue'
    BY <1>6 DEF Disconnect, executorVars, Queue
<1>7. ASSUME NEW s \in Subs, Cleanup(s) PROVE Queue'
    <2>1. RemoveJob(s) \in Job /\ RemoveJob(s).type = "remove" /\ RemoveJob(s).sub = s
        BY DEF RemoveJob, Job
    <2>2. ASSUME NEW i \in 1 .. Len(jobs), jobs[i].type = "remove"
          PROVE  jobs[i].sub # s
        BY <1>7, <2>2 DEF Cleanup, Queue
    <2>3. jobs' = Append(jobs, RemoveJob(s)) /\ pc' = pc
        BY <1>7 DEF Cleanup, AsyncExec, findVars
    <2>4. ASSUME NEW i \in 1 .. Len(jobs'), jobs'[i].type = "push"
          PROVE  pc'[jobs'[i].sub] = "subscribing"
        BY <1>0, <2>1, <2>3, <2>4, AppendJob DEF Queue, TypeOK
    <2>5. ASSUME NEW i \in 1 .. Len(jobs'), jobs'[i].type = "remove"
          PROVE  cleaner'[jobs'[i].sub] = "queued"
        BY <1>0, <1>7, <2>1, <2>2, <2>3, <2>5, AppendJob DEF Cleanup, Queue, TypeOK
    <2>6. Unrepeated(jobs')
        BY <1>0, <2>1, <2>2, <2>3, UnrepeatedAppend DEF Queue, TypeOK
    <2>7. QED
        BY <2>4, <2>5, <2>6 DEF Queue
<1>8. ASSUME NEW s \in Subs, jobs' = jobs, cleaner' = cleaner, pc[s] \in Watching,
             NEW p, pc' = [pc EXCEPT ![s] = p]
      PROVE  Queue'
    <2>1. ASSUME NEW i \in 1 .. Len(jobs), jobs[i].type = "push"
          PROVE  jobs[i].sub # s
        BY <1>8, <2>1 DEF Queue, Watching
    <2>2. \A t \in Subs : t # s => pc'[t] = pc[t]
        BY <1>0, <1>8 DEF TypeOK
    <2>3. ASSUME NEW i \in 1 .. Len(jobs), jobs[i].type = "push"
          PROVE  pc'[jobs[i].sub] = "subscribing"
        <3>1. jobs[i] \in Job
            BY <1>0 DEF TypeOK
        <3>2. jobs[i].sub \in Subs
            BY <2>3, <3>1 DEF Job
        <3>3. QED
            BY <2>1, <2>2, <2>3, <3>2 DEF Queue
    <2>4. QED
        BY <1>8, <2>3 DEF Queue
<1>9. CASE UNCHANGED vars
    BY <1>9 DEF vars, executorVars, findVars, Queue
<1>10. ASSUME (\E s \in Subs : ServeNode(s)) \/ MarkLagged PROVE Queue'
    BY <1>10 DEF ServeNode, MarkLagged, findVars, Queue
<1>11. ASSUME NEW s \in Subs, WatchLoop(s) \/ SendOk(s) \/ SendError(s) PROVE Queue'
    BY <1>8, <1>11
    DEF WatchLoop, Receive, ReceiveClosed, ReturnExhausted, SkipUpdate, StartSend,
        SendOk, SendError, Return, Watching, executorVars
<1>12. QED
    BY <1>1, <1>2, <1>3, <1>4, <1>5, <1>6, <1>7, <1>9, <1>11, <1>10
    DEF Next, Executor, SendEvent
-----------------------------------------------------------------------------
(***************************************************************************)
(* What lies between the last update dealt with and the newest one.        *)
(***************************************************************************)
\* At the start no watch is running.
LEMMA InitWindow == Init => Window
    BY DEF Init, Window, WindowOf, Contiguous, HeldIsNext, Untold, Watching

\* The window of a node is not touched by a step that leaves it and the log
\* alone, be it taken out of the list or not.
LEMMA FrameWindow ==
    ASSUME NEW t \in Subs, WindowOf(t), log' = log,
           channel'[t] = channel[t], lagged'[t] = lagged[t], pc'[t] = pc[t],
           held'[t] = held[t], joined'[t] = joined[t], cursor'[t] = cursor[t],
           t \in subscribers' => t \in subscribers,
           t \in remaining' <=> t \in remaining, t \in marking' <=> t \in marking
    PROVE  WindowOf(t)'
<1>1. InHand(t)' = InHand(t) /\ Missing(t)' = Missing(t)
    BY DEF InHand, Missing
<1>2. QED
    BY <1>1 DEF WindowOf, Contiguous, HeldIsNext, Untold, Matches

\* An update added at the end of a channel keeps the others in place ...
LEMMA AppendUpdate ==
    ASSUME NEW m \in Nat, NEW q \in Seq(1 .. m), NEW x
    PROVE  /\ Len(q) \in Nat
           /\ Len(Append(q, x)) = Len(q) + 1
           /\ \A j \in 1 .. Len(q) : Append(q, x)[j] = q[j]
           /\ Append(q, x)[Len(q) + 1] = x
           /\ Append(q, x) # <<>>
<1>1. Len(q) \in Nat /\ q = [i \in 1 .. Len(q) |-> q[i]]
    OBVIOUS
<1>2. QED
    BY <1>1

\* ... and one taken moves the others up.
LEMMA TakeUpdate ==
    ASSUME NEW m \in Nat, NEW q \in Seq(1 .. m), q # <<>>
    PROVE  /\ Len(q) \in Nat
           /\ Len(Tail(q)) = Len(q) - 1
           /\ 1 \in 1 .. Len(q) /\ Head(q) = q[1]
           /\ \A j \in 1 .. Len(Tail(q)) : j + 1 \in 1 .. Len(q) /\ Tail(q)[j] = q[j + 1]
    OBVIOUS

\* When sendEvent starts, its event is missing at every node of the list.
LEMMA StartWindow ==
    ASSUME TInv, Window, StartSendEvent, NEW s \in Subs
    PROVE  WindowOf(s)'
<1>1. /\ TypeOK /\ Hand /\ WindowOf(s)
      /\ Len(log) \in Nat /\ Len(channel[s]) \in Nat /\ cursor[s] \in Nat
    BY DEF TInv, TypeOK, Window
<1>2. /\ log' = Append(log, Head(jobs).event)
      /\ Len(log') = Len(log) + 1
      /\ \A i \in 1 .. Len(log) : log'[i] = log[i]
    BY <1>1, HeadJob DEF StartSendEvent, NextJob, TypeOK
<1>3. /\ subscribers' = subscribers /\ pc' = pc /\ held' = held /\ channel' = channel
      /\ lagged' = lagged /\ joined' = joined /\ cursor' = cursor
      /\ remaining = {} /\ marking = {} /\ remaining' = subscribers /\ marking' = {}
    BY DEF StartSendEvent, NextJob, nodeVars, findVars, history
<1>4. InHand(s) \in Nat /\ InHand(s)' = InHand(s)
    BY <1>3 DEF InHand
<1>5. Missing(s) = 0 /\ (s \in subscribers => Missing(s)' = 1)
    BY <1>3 DEF Missing
<1>6. Contiguous(s)'
    BY <1>1, <1>2, <1>3, <1>4, <1>5 DEF WindowOf, Contiguous
<1>7. Untold(s)'
    BY <1>1, <1>2, <1>3, <1>4, <1>5 DEF WindowOf, Untold
<1>8. HeldIsNext(s)'
    BY <1>1, <1>2, <1>3 DEF WindowOf, HeldIsNext, Matches, Hand
<1>9. QED
    BY <1>1, <1>3, <1>6, <1>7, <1>8 DEF WindowOf

\* Serving a node puts the missing event into its channel, or leaves it missing.
LEMMA ServeWindow ==
    ASSUME TInv, Window, NEW s \in Subs, ServeNode(s)
    PROVE  WindowOf(s)'
<1> USE FanoutAssumption
<1>1. /\ TypeOK /\ WindowOf(s) /\ s \in remaining /\ s \in subscribers /\ s \notin marking
      /\ Len(log) \in Nat /\ cursor[s] \in Nat
      /\ channel[s] \in Seq(1 .. Len(log)) /\ Len(channel[s]) \in Nat
    BY DEF TInv, TypeOK, Window, Walk, ServeNode
<1>2. /\ log' = log /\ subscribers' = subscribers /\ pc' = pc /\ held' = held
      /\ lagged' = lagged /\ joined' = joined /\ cursor' = cursor
      /\ remaining' = remaining \ {s}
    BY DEF ServeNode, findVars, history
<1>3. InHand(s) \in Nat /\ InHand(s)' = InHand(s) /\ Missing(s) = 1
    BY <1>1, <1>2 DEF InHand, Missing
<1>4. HeldIsNext(s)'
    BY <1>1, <1>2 DEF WindowOf, HeldIsNext, Matches
<1>5. CASE ~Full(s) /\ channel' = [channel EXCEPT ![s] = Append(@, Len(log))] /\ marking' = marking
    <2>1. channel'[s] = Append(channel[s], Len(log)) /\ Missing(s)' = 0
        BY <1>1, <1>2, <1>5 DEF TypeOK, Missing
    <2>2. /\ Len(channel'[s]) = Len(channel[s]) + 1
          /\ \A j \in 1 .. Len(channel[s]) : channel'[s][j] = channel[s][j]
          /\ channel'[s][Len(channel[s]) + 1] = Len(log)
          /\ channel'[s] # <<>>
        <3> DEFINE r == Append(channel[s], Len(log))
        <3>1. /\ Len(r) = Len(channel[s]) + 1
              /\ \A j \in 1 .. Len(channel[s]) : r[j] = channel[s][j]
              /\ r[Len(channel[s]) + 1] = Len(log)
              /\ r # <<>>
            BY <1>1, AppendUpdate
        <3> HIDE DEF r
        <3>2. channel'[s] = r
            BY <2>1 DEF r
        <3>3. QED
            BY <3>1, <3>2
    <2>3. Contiguous(s)'
        <3>1. SUFFICES ASSUME pc[s] \in Watching, ~lagged[s]
                       PROVE  /\ \A j \in 1 .. Len(channel'[s]) :
                                    channel'[s][j] = cursor[s] + InHand(s) + j
                              /\ cursor[s] + InHand(s) + Len(channel'[s]) + 0 = Len(log)
            BY <1>2, <1>3, <2>1 DEF Contiguous
        <3> DEFINE n == Len(channel[s])
                   k == cursor[s] + InHand(s)
        <3>2. /\ \A j \in 1 .. n : channel[s][j] = k + j
              /\ k + n + 1 = Len(log)
            BY <1>1, <1>3, <3>1 DEF WindowOf, Contiguous
        <3>3. k \in Nat /\ n \in Nat /\ Len(channel'[s]) = n + 1
            BY <1>1, <1>3, <2>2
        <3>4. ASSUME NEW j \in 1 .. Len(channel'[s])
              PROVE  channel'[s][j] = k + j
            <4>1. CASE j \in 1 .. n
                BY <2>2, <3>2, <4>1
            <4>2. CASE j = n + 1
                <5>1. channel'[s][n + 1] = Len(log)
                    BY <2>2
                <5> HIDE DEF n, k
                <5>2. k + (n + 1) = Len(log)
                    BY <3>2, <3>3
                <5>3. QED
                    BY <4>2, <5>1, <5>2
            <4>3. QED
                BY <3>3, <4>1, <4>2
        <3>5. k + Len(channel'[s]) + 0 = Len(log)
            <4> HIDE DEF n, k
            <4>1. QED
                BY <3>2, <3>3
        <3>6. QED
            BY <3>4, <3>5
    <2>4. Untold(s)'
        BY <2>2 DEF Untold
    <2>5. QED
        BY <1>1, <1>2, <1>4, <2>3, <2>4 DEF WindowOf
<1>6. CASE Full(s) /\ marking' = {s} /\ channel' = channel
    <2>1. Missing(s)' = 1 /\ channel'[s] = channel[s] /\ channel[s] # <<>>
        BY <1>1, <1>6 DEF Missing, Full
    <2>2. Contiguous(s)'
        BY <1>1, <1>2, <1>3, <2>1 DEF WindowOf, Contiguous
    <2>3. Untold(s)'
        BY <2>1 DEF Untold
    <2>4. QED
        BY <1>1, <1>2, <1>4, <2>2, <2>3 DEF WindowOf
<1>7. QED
    BY <1>5, <1>6 DEF ServeNode

\* The node marked misses the event, whatever it has read meanwhile.
LEMMA MarkWindow ==
    ASSUME TInv, Window, MarkLagged, NEW s \in marking
    PROVE  WindowOf(s)'
<1>1. /\ TypeOK /\ WindowOf(s) /\ s \in Subs /\ s \in subscribers /\ s \notin remaining
      /\ Len(log) \in Nat /\ cursor[s] \in Nat
    BY DEF TInv, TypeOK, Window, Walk
<1>2. /\ log' = log /\ subscribers' = subscribers /\ pc' = pc /\ held' = held
      /\ channel' = channel /\ joined' = joined /\ cursor' = cursor
      /\ remaining' = remaining /\ marking' = {} /\ lagged'[s]
    BY <1>1 DEF MarkLagged, findVars, history
<1>3. InHand(s) \in Nat /\ InHand(s)' = InHand(s) /\ Missing(s) = 1 /\ Missing(s)' = 0
    BY <1>1, <1>2 DEF InHand, Missing
<1>4. HeldIsNext(s)'
    BY <1>1, <1>2 DEF WindowOf, HeldIsNext, Matches
<1>5. Contiguous(s)'
    BY <1>2 DEF Contiguous
<1>6. Untold(s)'
    <2>1. CASE lagged[s]
        BY <1>1, <1>2, <2>1 DEF WindowOf, Untold
    <2>2. CASE ~lagged[s]
        <3>1. SUFFICES ASSUME pc[s] \in {"receiving", "sending"}, channel[s] = <<>>
                       PROVE  cursor[s] + InHand(s) + 1 + 0 = Len(log)
            BY <1>2, <1>3 DEF Untold
        <3>2. cursor[s] + InHand(s) + 0 + 1 = Len(log)
            BY <1>1, <1>3, <2>2, <3>1 DEF WindowOf, Contiguous, Watching
        <3>3. QED
            BY <1>1, <1>3, <3>2
    <2>3. QED
        BY <2>1, <2>2
<1>7. QED
    BY <1>1, <1>2, <1>4, <1>5, <1>6 DEF WindowOf

\* Every step keeps the window of a node: it never loses an update without
\* being marked.
LEMMA StepWindow ==
    ASSUME TInv, Stage, Queue, Window, [Next]_vars
    PROVE  Window'
<1> USE FanoutAssumption
<1> SUFFICES ASSUME NEW t \in Subs PROVE WindowOf(t)'
    BY DEF Window
<1>0. /\ TypeOK /\ Hand /\ WindowOf(t)
      /\ Len(log) \in Nat /\ cursor[t] \in Nat /\ joined[t] \in Nat
      /\ channel[t] \in Seq(1 .. Len(log))
    BY DEF TInv, TypeOK, Window
<1>1. ASSUME NEW e \in Events, Broadcast(e) PROVE WindowOf(t)'
    BY <1>0, <1>1, FrameWindow DEF Broadcast, nodeVars, findVars, history
<1>2. CASE StartSendEvent
    BY <1>2, StartWindow
<1>3. ASSUME NEW s \in Subs, ServeNode(s) PROVE WindowOf(t)'
    <2>1. CASE s = t
        BY <1>3, <2>1, ServeWindow
    <2>2. CASE s # t
        BY <1>0, <1>3, <2>2, FrameWindow DEF ServeNode, TypeOK, findVars, history
    <2>3. QED
        BY <2>1, <2>2
<1>4. CASE MarkLagged
    <2>1. CASE t \in marking
        BY <1>4, <2>1, MarkWindow
    <2>2. CASE t \notin marking
        BY <1>0, <1>4, <2>2, FrameWindow DEF MarkLagged, TypeOK, findVars, history
    <2>3. QED
        BY <2>1, <2>2
<1>5. CASE PushBack
    <2>1. jobs # <<>> /\ Head(jobs).type = "push"
        BY <1>5 DEF PushBack, NextJob
    <2>2. Head(jobs).sub \in Subs /\ pc[Head(jobs).sub] = "subscribing"
        BY <1>0, <2>1, HeadStage
    <2>3. CASE Head(jobs).sub = t
        <3>1. channel'[t] = <<>> /\ ~lagged'[t]
            BY <1>0, <1>5, <2>2, <2>3 DEF PushBack, Stage, nodeVars
        <3>2. /\ pc'[t] = "receiving" /\ joined'[t] = Len(log) /\ cursor'[t] = Len(log)
              /\ log' = log /\ remaining' = {} /\ marking' = {}
            BY <1>0, <1>5, <2>2, <2>3 DEF PushBack, NextJob, TypeOK
        <3>3. QED
            BY <1>0, <3>1, <3>2 DEF WindowOf, Contiguous, HeldIsNext, Untold, InHand, Missing
    <2>4. CASE Head(jobs).sub # t
        BY <1>0, <1>5, <2>2, <2>4, FrameWindow DEF PushBack, TypeOK, nodeVars
    <2>5. QED
        BY <2>3, <2>4
<1>6. CASE RemoveClose
    BY <1>0, <1>6, FrameWindow DEF RemoveClose, findVars, history
<1>7. ASSUME NEW s \in Subs, Subscribe(s) PROVE WindowOf(t)'
    <2>1. CASE s = t
        BY <1>0, <1>7, <2>1
        DEF Subscribe, Stage, TypeOK, WindowOf, Contiguous, HeldIsNext, Untold, Watching,
            nodeVars, history
    <2>2. CASE s # t
        BY <1>0, <1>7, <2>2, FrameWindow DEF Subscribe, TypeOK, nodeVars, history
    <2>3. QED
        BY <2>1, <2>2
<1>8. ASSUME NEW s \in Subs, Disconnect(s) PROVE WindowOf(t)'
    BY <1>0, <1>8, FrameWindow DEF Disconnect, executorVars, nodeVars, history
<1>9. ASSUME NEW s \in Subs, Cleanup(s) PROVE WindowOf(t)'
    BY <1>0, <1>9, FrameWindow DEF Cleanup, nodeVars, findVars, history
<1>10. ASSUME NEW s \in Subs, Receive(s) PROVE WindowOf(t)'
    <2>1. CASE s # t
        BY <1>0, <1>10, <2>1, FrameWindow DEF Receive, executorVars, TypeOK, history
    <2>2. CASE s = t
        <3>1. /\ pc[t] = "receiving" /\ pc'[t] = "received" /\ log' = log
              /\ channel[t] # <<>> /\ channel'[t] = Tail(channel[t]) /\ held'[t] = Head(channel[t])
              /\ lagged'[t] = lagged[t] /\ cursor'[t] = cursor[t] /\ joined'[t] = joined[t]
              /\ subscribers' = subscribers /\ remaining' = remaining /\ marking' = marking
            BY <1>0, <1>10, <2>2 DEF Receive, executorVars, TypeOK, history
        <3>2. /\ Len(channel'[t]) = Len(channel[t]) - 1
              /\ \A j \in 1 .. Len(channel'[t]) :
                    j + 1 \in 1 .. Len(channel[t]) /\ channel'[t][j] = channel[t][j + 1]
              /\ 1 \in 1 .. Len(channel[t]) /\ held'[t] = channel[t][1]
              /\ Len(channel[t]) \in Nat
            <4> DEFINE q == channel[t]
            <4>1. q \in Seq(1 .. Len(log)) /\ q # <<>> /\ Len(log) \in Nat
                BY <1>0, <3>1
            <4>2. channel'[t] = Tail(q) /\ held'[t] = Head(q)
                BY <3>1
            <4> HIDE DEF q
            <4>3. /\ Len(q) \in Nat /\ Len(Tail(q)) = Len(q) - 1
                  /\ 1 \in 1 .. Len(q) /\ Head(q) = q[1]
                  /\ \A j \in 1 .. Len(Tail(q)) : j + 1 \in 1 .. Len(q) /\ Tail(q)[j] = q[j + 1]
                BY <4>1, TakeUpdate
            <4>4. QED
                BY <4>2, <4>3 DEF q
        <3>3. ~lagged[t] => \A j \in 1 .. Len(channel[t]) : channel[t][j] = cursor[t] + j
            BY <1>0, <3>1 DEF WindowOf, Contiguous, InHand, Watching
        <3>4. ~lagged[t] /\ t \in subscribers => cursor[t] + Len(channel[t]) + Missing(t) = Len(log)
            BY <1>0, <3>1 DEF WindowOf, Contiguous, InHand, Watching
        <3>5. ~lagged[t] => held'[t] = cursor[t] + 1
            BY <3>2, <3>3
        <3>6. Contiguous(t)'
            <4>1. InHand(t)' = 1 /\ Missing(t)' = Missing(t) /\ Missing(t) \in Nat
                BY <3>1 DEF InHand, Missing
            <4>2. ASSUME ~lagged[t], NEW j \in 1 .. Len(channel'[t])
                  PROVE  channel'[t][j] = cursor[t] + 1 + j
                <5>1. channel'[t][j] = cursor[t] + (j + 1)
                    BY <3>2, <3>3, <4>2
                <5>2. j \in Nat
                    BY <3>2
                <5>3. \A c, i \in Nat : c + (i + 1) = c + 1 + i
                    OBVIOUS
                <5>4. cursor[t] \in Nat
                    BY <1>0
                <5>5. QED
                    BY <5>1, <5>2, <5>3, <5>4
            <4>3. ~lagged[t] /\ t \in subscribers =>
                      cursor[t] + 1 + Len(channel'[t]) + Missing(t) = Len(log)
                <5>1. /\ Len(channel[t]) \in Nat /\ Len(channel'[t]) = Len(channel[t]) - 1
                      /\ cursor[t] \in Nat /\ Missing(t) \in Nat /\ Len(log) \in Nat
                    BY <1>0, <3>2, <4>1
                <5> DEFINE n == Len(channel[t])
                           k == Len(channel'[t])
                <5>2. n \in Nat /\ k = n - 1
                    BY <5>1
                <5>3. ~lagged[t] /\ t \in subscribers => cursor[t] + n + Missing(t) = Len(log)
                    BY <3>4
                <5> HIDE DEF n, k
                <5>4. ~lagged[t] /\ t \in subscribers => cursor[t] + 1 + k + Missing(t) = Len(log)
                    BY <5>1, <5>2, <5>3
                <5>5. QED
                    BY <5>4 DEF k
            <4>4. QED
                BY <3>1, <4>1, <4>2, <4>3 DEF Contiguous
        <3>7. HeldIsNext(t)'
            BY <3>1, <3>5 DEF HeldIsNext
        <3>8. Untold(t)'
            BY <1>0, <3>1 DEF WindowOf, Untold, Watching
        <3>9. QED
            BY <1>0, <3>1, <3>6, <3>7, <3>8 DEF WindowOf
    <2>3. QED
        BY <2>1, <2>2
<1>11. ASSUME NEW s \in Subs, NEW outcome \in Returned, Return(s, outcome),
             UNCHANGED <<executorVars, nodeVars, cleaner, history>>
      PROVE  WindowOf(t)'
    <2>1. CASE s # t
        BY <1>0, <1>11, <2>1, FrameWindow DEF Return, executorVars, TypeOK, nodeVars, history
    <2>2. CASE s = t
        <3>1. pc'[t] \in Returned
            BY <1>0, <1>11, <2>2 DEF Return, executorVars, TypeOK
        <3>2. QED
            BY <1>0, <1>11, <3>1
            DEF Returned, executorVars, WindowOf, Contiguous, HeldIsNext, Untold, Watching,
                nodeVars, history
    <2>3. QED
        BY <2>1, <2>2
<1>12. ASSUME NEW s \in Subs, SkipUpdate(s) \/ SendOk(s) PROVE WindowOf(t)'
    <2>1. CASE s # t
        BY <1>0, <1>12, <2>1, FrameWindow DEF SkipUpdate, SendOk, executorVars, TypeOK, nodeVars
    <2>2. CASE s = t
        <3>1. /\ pc[t] \in {"received", "sending"} /\ (pc[t] = "received" => ~lagged[t])
              /\ pc'[t] = "receiving" /\ log' = log
              /\ channel'[t] = channel[t] /\ lagged'[t] = lagged[t]
              /\ cursor'[t] = held[t] /\ joined'[t] = joined[t] /\ subscribers' = subscribers
              /\ remaining' = remaining /\ marking' = marking
            BY <1>0, <1>12, <2>2 DEF SkipUpdate, SendOk, executorVars, TypeOK, nodeVars
        <3>2. held[t] = cursor[t] + 1 /\ InHand(t) = 1 /\ InHand(t)' = 0
            BY <1>0, <3>1 DEF WindowOf, HeldIsNext, InHand
        <3>3. Missing(t)' = Missing(t) /\ Missing(t) \in Nat
            BY <3>1 DEF Missing
        <3>4. Contiguous(t)'
            <4>1. ~lagged[t] =>
                     /\ \A j \in 1 .. Len(channel[t]) : channel[t][j] = cursor[t] + 1 + j
                     /\ t \in subscribers =>
                           cursor[t] + 1 + Len(channel[t]) + Missing(t) = Len(log)
                BY <1>0, <3>1, <3>2 DEF WindowOf, Contiguous, Watching
            <4>2. cursor'[t] = cursor[t] + 1 /\ cursor'[t] + 0 = cursor[t] + 1
                BY <1>0, <3>1, <3>2
            <4>3. QED
                BY <3>1, <3>2, <3>3, <4>1, <4>2 DEF Contiguous
        <3>5. HeldIsNext(t)'
            BY <3>1 DEF HeldIsNext
        <3>6. Untold(t)'
            BY <1>0, <3>1, <3>2, <3>3 DEF WindowOf, Untold
        <3>7. QED
            BY <1>0, <3>1, <3>2, <3>4, <3>5, <3>6 DEF WindowOf
    <2>3. QED
        BY <2>1, <2>2
<1>13. ASSUME NEW s \in Subs, StartSend(s) PROVE WindowOf(t)'
    <2>1. CASE s # t
        BY <1>0, <1>13, <2>1, FrameWindow DEF StartSend, executorVars, TypeOK, nodeVars, history
    <2>2. CASE s = t
        BY <1>0, <1>13, <2>2
        DEF StartSend, executorVars, TypeOK, WindowOf, Contiguous, HeldIsNext, Untold, InHand,
            Missing, Matches,
            Watching, nodeVars, history
    <2>3. QED
        BY <2>1, <2>2
<1>14. CASE UNCHANGED vars
    BY <1>0, <1>14, FrameWindow DEF vars, executorVars, nodeVars, findVars, history
<1>15. QED
    BY <1>1, <1>2, <1>5, <1>6, <1>7, <1>8, <1>9, <1>10, <1>11, <1>12, <1>13, <1>14, <1>3, <1>4
    DEF Next, Executor, SendEvent, WatchLoop, ReceiveClosed, ReturnExhausted, SendError, Returned
-----------------------------------------------------------------------------
(***************************************************************************)
(* What has been delivered.                                                *)
(***************************************************************************)

\* ExactDelivery for one watcher.
DeliveryOf(s) ==
    /\ \A j, k \in 1 .. Len(delivered[s]) : j < k => delivered[s][j] < delivered[s][k]
    /\ \A k \in 1 .. Len(delivered[s]) :
          /\ delivered[s][k] \in joined[s] + 1 .. cursor[s]
          /\ Matches(s, delivered[s][k])
    /\ \A i \in joined[s] + 1 .. cursor[s] :
          Matches(s, i) => \E k \in 1 .. Len(delivered[s]) : delivered[s][k] = i

\* ExactDelivery speaks of each watcher on its own.
LEMMA DeliveryOfEach == ExactDelivery <=> \A s \in Subs : DeliveryOf(s)
    BY DEF ExactDelivery, DeliveryOf

\* At the start nothing is delivered.
LEMMA InitDelivery == Init => ExactDelivery
    BY DEF Init, ExactDelivery

\* Only a longer log, and nothing else that DeliveryOf reads.
LEMMA FrameDelivery ==
    ASSUME TypeOK, NEW t \in Subs, DeliveryOf(t),
           \A i \in 1 .. Len(log) : log'[i] = log[i],
           delivered'[t] = delivered[t], joined'[t] = joined[t], cursor'[t] = cursor[t]
    PROVE  DeliveryOf(t)'
<1>1. /\ cursor[t] \in 0 .. Len(log) /\ joined[t] \in 0 .. Len(log) /\ Len(log) \in Nat
      /\ Len(delivered[t]) \in Nat
    BY DEF TypeOK
<1>2. \A i \in joined[t] + 1 .. cursor[t] : Matches(t, i)' <=> Matches(t, i)
    <2>1. \A i \in joined[t] + 1 .. cursor[t] : i \in 1 .. Len(log)
        BY <1>1
    <2>2. QED
        BY <2>1 DEF Matches
<1>3. QED
    BY <1>2 DEF DeliveryOf

\* The watcher deals with the next update: by a Send if it matches.
LEMMA NextDelivery ==
    ASSUME TypeOK, NEW t \in Subs, DeliveryOf(t), log' = log, joined'[t] = joined[t],
           joined[t] <= cursor[t], cursor[t] + 1 <= Len(log),
           cursor'[t] = cursor[t] + 1,
           \/ ~Matches(t, cursor[t] + 1) /\ delivered'[t] = delivered[t]
           \/ Matches(t, cursor[t] + 1) /\ delivered'[t] = Append(delivered[t], cursor[t] + 1)
    PROVE  DeliveryOf(t)'
<1>1. /\ cursor[t] \in Nat /\ joined[t] \in Nat /\ Len(log) \in Nat
      /\ delivered[t] \in Seq(1 .. Len(log))
    BY DEF TypeOK
<1> DEFINE d == delivered[t]
           c == cursor[t]
           n == Len(d)
<1>2. \A i : Matches(t, i)' <=> Matches(t, i)
    BY DEF Matches
<1>3. c + 1 \notin joined[t] + 1 .. c /\ joined[t] + 1 .. c + 1 = (joined[t] + 1 .. c) \cup {c + 1}
    BY <1>1
<1>4. CASE ~Matches(t, c + 1) /\ delivered'[t] = d
    BY <1>2, <1>3, <1>4 DEF DeliveryOf
<1>5. CASE Matches(t, c + 1) /\ delivered'[t] = Append(d, c + 1)
    <2>1. /\ n \in Nat
          /\ Len(delivered'[t]) = n + 1
          /\ \A k \in 1 .. n : delivered'[t][k] = d[k]
          /\ delivered'[t][n + 1] = c + 1
        BY <1>1, <1>5, AppendUpdate
    <2>2. 1 .. n + 1 = (1 .. n) \cup {n + 1}
        BY <2>1
    <2>3. \A k \in 1 .. n : d[k] \in joined[t] + 1 .. c /\ d[k] < c + 1 /\ Matches(t, d[k])
        BY <1>1 DEF DeliveryOf
    <2>4. ASSUME NEW j \in 1 .. n + 1, NEW k \in 1 .. n + 1, j < k
          PROVE  delivered'[t][j] < delivered'[t][k]
        <3>1. j \in 1 .. n
            BY <2>1, <2>4
        <3>2. CASE k \in 1 .. n
            <4>1. d[j] < d[k]
                BY <2>4, <3>1, <3>2 DEF DeliveryOf
            <4>2. QED
                BY <2>1, <3>1, <3>2, <4>1
        <3>3. CASE k = n + 1
            <4>1. d[j] < c + 1
                BY <2>3, <3>1
            <4>2. QED
                BY <2>1, <3>1, <3>3, <4>1
        <3>4. QED
            BY <2>2, <3>2, <3>3
    <2>5. ASSUME NEW k \in 1 .. n + 1
          PROVE  delivered'[t][k] \in joined[t] + 1 .. c + 1 /\ Matches(t, delivered'[t][k])
        <3>1. CASE k \in 1 .. n
            BY <1>3, <2>1, <2>3, <3>1
        <3>2. CASE k = n + 1
            BY <1>3, <1>5, <2>1, <3>2
        <3>3. QED
            BY <2>2, <3>1, <3>2
    <2>6. ASSUME NEW i \in joined[t] + 1 .. c + 1, Matches(t, i)
          PROVE  \E k \in 1 .. n + 1 : delivered'[t][k] = i
        <3>1. CASE i = c + 1
            BY <2>1, <2>2, <3>1
        <3>2. CASE i \in joined[t] + 1 .. c
            <4>1. PICK k \in 1 .. n : d[k] = i
                BY <2>6, <3>2 DEF DeliveryOf
            <4>2. QED
                BY <2>1, <2>2, <4>1
        <3>3. QED
            BY <1>3, <3>1, <3>2
    <2>7. QED
        BY <1>2, <2>1, <2>4, <2>5, <2>6 DEF DeliveryOf
<1>6. QED
    BY <1>4, <1>5

\* Every step keeps ExactDelivery: what is sent is the next update.
LEMMA StepDelivery ==
    ASSUME TInv, Stage, Queue, Window, ExactDelivery, [Next]_vars
    PROVE  ExactDelivery'
<1> SUFFICES ASSUME NEW t \in Subs PROVE DeliveryOf(t)'
    BY DEF ExactDelivery, DeliveryOf
<1>0. /\ TypeOK /\ Hand /\ DeliveryOf(t) /\ WindowOf(t)
      /\ Len(log) \in Nat /\ cursor[t] \in Nat /\ joined[t] \in Nat
    BY DeliveryOfEach DEF TInv, TypeOK, Window
<1>1. CASE StartSendEvent
    <2>1. \A i \in 1 .. Len(log) : log'[i] = log[i]
        BY <1>0, <1>1, HeadJob DEF StartSendEvent, NextJob, TypeOK
    <2>2. QED
        BY <1>0, <1>1, <2>1, FrameDelivery DEF StartSendEvent, history
<1>2. CASE PushBack
    <2>1. jobs # <<>> /\ Head(jobs).type = "push" /\ log' = log
        BY <1>2 DEF PushBack, NextJob
    <2>2. Head(jobs).sub \in Subs /\ pc[Head(jobs).sub] = "subscribing"
        BY <1>0, <2>1, HeadStage
    <2>3. CASE Head(jobs).sub = t
        <3>1. delivered'[t] = <<>>
            BY <1>2, <2>2, <2>3 DEF PushBack, Stage
        <3>2. joined'[t] = Len(log) /\ cursor'[t] = Len(log)
            BY <1>0, <1>2, <2>2, <2>3 DEF PushBack, TypeOK
        <3>3. QED
            BY <1>0, <3>1, <3>2 DEF DeliveryOf
    <2>4. CASE Head(jobs).sub # t
        BY <1>0, <1>2, <2>1, <2>2, <2>4, FrameDelivery DEF PushBack, TypeOK
    <2>5. QED
        BY <2>3, <2>4
<1>3. ASSUME NEW s \in Subs, SkipUpdate(s) \/ SendOk(s) PROVE DeliveryOf(t)'
    <2>1. CASE s # t
        BY <1>0, <1>3, <2>1, FrameDelivery DEF SkipUpdate, SendOk, executorVars, TypeOK
    <2>2. CASE s = t
        <3>1. held[t] = cursor[t] + 1 /\ held[t] \in 1 .. Len(log)
            BY <1>0, <1>3, <2>2 DEF SkipUpdate, SendOk, executorVars, WindowOf, HeldIsNext, Hand
        <3>2. /\ log' = log /\ joined'[t] = joined[t] /\ joined[t] <= cursor[t]
              /\ cursor'[t] = cursor[t] + 1 /\ cursor[t] + 1 <= Len(log)
            BY <1>0, <1>3, <2>2, <3>1 DEF SkipUpdate, SendOk, executorVars, TypeOK, WindowOf
        <3>3. \/ ~Matches(t, cursor[t] + 1) /\ delivered'[t] = delivered[t]
              \/ Matches(t, cursor[t] + 1) /\ delivered'[t] = Append(delivered[t], cursor[t] + 1)
            BY <1>0, <1>3, <2>2, <3>1
            DEF SkipUpdate, SendOk, executorVars, TypeOK, WindowOf, HeldIsNext
        <3>4. QED
            BY <1>0, <3>2, <3>3, NextDelivery
    <2>3. QED
        BY <2>1, <2>2
<1>4. ASSUME UNCHANGED <<log, history>> PROVE DeliveryOf(t)'
    BY <1>0, <1>4, FrameDelivery DEF history
<1>5. QED
    BY <1>1, <1>2, <1>3, <1>4
    DEF Next, Executor, SendEvent, ServeNode, MarkLagged, executorVars, Broadcast, RemoveClose,
        Subscribe, Disconnect, Cleanup, WatchLoop, Receive,
        ReceiveClosed, ReturnExhausted, StartSend, SendError, vars
-----------------------------------------------------------------------------
(***************************************************************************)
(* The inductive invariant, and what follows from it.                      *)
(***************************************************************************)
\* Every step keeps the whole of IInv.
LEMMA StepIInv == IInv /\ [Next]_vars => IInv'
    BY StepTInv, StepStage, StepQueue, StepWindow, StepDelivery DEF IInv

\* In every reachable state the list, the queue, the channels and the history
\* fit together as IInv says.
THEOREM Inductive == Spec => []IInv
<1>1. Init => IInv
    BY InitTInv, InitStageQueue, InitWindow, InitDelivery DEF IInv
<1>2. QED
    BY <1>1, StepIInv, PTL DEF Spec

\* No broadcast ever sends on a closed channel, however the jobs of
\* subscribersExecutor interleave: Remove and close are one job.
THEOREM NeverSendsOnClosed == Spec => []NoSendOnClosed
<1>1. IInv => NoSendOnClosed
    BY DEF IInv, TInv, TypeOK, Walk, Stage, NoSendOnClosed
<1>2. QED
    BY <1>1, Inductive, PTL

\* Whatever was dropped because its buffer was full, a watcher is sent the
\* updates that match up to the last one it dealt with, once and in order.
THEOREM DeliversExactly == Spec => []ExactDelivery
<1>1. IInv => ExactDelivery
    BY DEF IInv
<1>2. QED
    BY <1>1, Inductive, PTL

\* A lagged watcher that waits, untold, on an empty channel misses the newest
\* event only; whatever the order of the failed send, the reads and the mark.
THEOREM UntoldBounded == Spec => []UntoldMissesNewest
<1>1. IInv => UntoldMissesNewest
    <2> SUFFICES ASSUME IInv, NEW s \in subscribers,
                        lagged[s], pc[s] = "receiving", channel[s] = <<>>
                 PROVE  Len(log) = cursor[s] + (IF s \in remaining THEN 2 ELSE 1)
        BY DEF UntoldMissesNewest
    <2>1. s \in Subs /\ cursor[s] \in Nat /\ InHand(s) = 0
        BY DEF IInv, TInv, TypeOK, InHand
    <2>2. s \notin marking /\ cursor[s] + 0 + 1 + Missing(s) = Len(log)
        BY <2>1 DEF IInv, Window, WindowOf, Untold
    <2>3. QED
        BY <2>1, <2>2 DEF Missing
<1>2. QED
    BY <1>1, Inductive, PTL
-----------------------------------------------------------------------------
(***************************************************************************)
(* The refinement of EventFeed.                                            *)
(***************************************************************************)

\* The watch of s as EventFeed sees it, the expression NSEFanout substitutes
\* for status.
Status == [s \in Subs |-> IF pc[s] \in {"idle", "subscribing"} THEN "off"
                          ELSE IF pc[s] \notin Watching THEN pc[s]
                          ELSE IF lagged[s] \/ s \in marking THEN "overrun"
                          ELSE "live"]

FeedVars == <<log, Status, cursor, delivered>>

FeedStep == EventFeedRefined!Next \/ UNCHANGED FeedVars

\* Every step is one of EventFeed, or leaves what EventFeed sees alone.
LEMMA StepFeed ==
    ASSUME IInv, [Next]_vars
    PROVE  FeedStep
<1> USE FanoutAssumption
<1>0. TypeOK /\ Hand /\ Stage /\ Queue /\ Window
    BY DEF IInv, TInv
<1>1. CASE StartSendEvent
    <2>1. Head(jobs).event \in Events
        BY <1>0, <1>1, HeadJob DEF StartSendEvent, NextJob
    <2>2. EventFeedRefined!Publish(Head(jobs).event)
        BY <1>1 DEF StartSendEvent, EventFeedRefined!Publish, nodeVars, findVars, history
    <2>3. QED
        BY <2>1, <2>2 DEF FeedStep, EventFeedRefined!Next
<1>2. ASSUME NEW s \in Subs, ServeNode(s) PROVE FeedStep
    <2>1. /\ pc' = pc /\ lagged' = lagged /\ s \in subscribers /\ s \notin marking
          /\ UNCHANGED <<log, cursor, delivered>>
          /\ Missing(s) = 1
        BY <1>2 DEF ServeNode, IInv, TInv, Walk, Missing, findVars, history
    <2>2. CASE marking' = marking
        <3>1. Status' = Status
            BY <2>1, <2>2 DEF Status
        <3>2. QED
            BY <2>1, <3>1 DEF FeedStep, FeedVars
    <2>3. CASE Full(s) /\ marking' = {s} /\ marking = {}
        <3>1. CASE lagged[s] \/ pc[s] \notin Watching
            <4>1. Status' = Status
                BY <2>1, <2>3, <3>1 DEF Status
            <4>2. QED
                BY <2>1, <4>1 DEF FeedStep, FeedVars
        <3>2. CASE ~lagged[s] /\ pc[s] \in Watching
            <4>1. cursor[s] + InHand(s) + Len(channel[s]) + 1 = Len(log)
                BY <1>0, <2>1, <3>2 DEF Window, WindowOf, Contiguous
            <4>2. /\ InHand(s) \in Nat /\ cursor[s] \in Nat /\ Len(log) \in Nat
                  /\ Len(channel[s]) \in Nat /\ Len(channel[s]) >= BufferSize
                BY <1>0, <2>3 DEF InHand, TypeOK, Full
            <4>3. Len(log) > cursor[s] + BufferSize
                BY <4>1, <4>2
            <4>4. Status[s] = "live" /\ Status' = [Status EXCEPT ![s] = "overrun"]
                BY <2>1, <2>3, <3>2 DEF Status, Watching
            <4>5. EventFeedRefined!Overrun(s)
                BY <2>1, <4>3, <4>4 DEF EventFeedRefined!Overrun, Status
            <4>6. QED
                BY <4>5 DEF FeedStep, EventFeedRefined!Next
        <3>3. QED
            BY <3>1, <3>2
    <2>4. QED
        BY <1>2, <2>2, <2>3 DEF ServeNode
<1>3. CASE MarkLagged
    <2>1. Status' = Status
        BY <1>0, <1>3 DEF MarkLagged, Status, TypeOK, findVars
    <2>2. QED
        BY <1>3, <2>1 DEF MarkLagged, FeedStep, FeedVars, history
<1>4. CASE PushBack
    <2>1. PICK s \in Subs : s = Head(jobs).sub /\ pc[s] = "subscribing"
        <3>1. jobs # <<>> /\ Head(jobs).type = "push"
            BY <1>4 DEF PushBack, NextJob
        <3>2. QED
            BY <1>0, <3>1, HeadStage
    <2>2. /\ marking = {} /\ marking' = {} /\ lagged' = lagged /\ ~lagged[s]
          /\ pc' = [pc EXCEPT ![s] = "receiving"]
        BY <1>0, <1>4, <2>1 DEF PushBack, NextJob, Stage, nodeVars
    <2>3. Status[s] = "off" /\ Status' = [Status EXCEPT ![s] = "live"]
        BY <1>0, <2>1, <2>2 DEF Status, TypeOK, Watching
    <2>4. EventFeedRefined!Join(s)
        BY <1>0, <1>4, <2>1, <2>3 DEF PushBack, EventFeedRefined!Join, Status, TypeOK
    <2>5. QED
        BY <2>4 DEF FeedStep, EventFeedRefined!Next
<1>5. ASSUME NEW s \in Subs, NEW outcome \in Returned, pc[s] \in Watching, Return(s, outcome),
             outcome = "exhausted" => lagged[s],
             UNCHANGED <<executorVars, nodeVars, history>>
      PROVE  FeedStep
    <2>1. /\ Status[s] \in {"live", "overrun"}
          /\ outcome = "exhausted" => Status[s] = "overrun"
        BY <1>5 DEF Status, Watching
    <2>2. Status' = [Status EXCEPT ![s] = outcome]
        BY <1>0, <1>5 DEF Return, Status, TypeOK, Watching, Returned, executorVars, nodeVars
    <2>3. EventFeedRefined!End(s, outcome)
        BY <1>5, <2>1, <2>2
        DEF EventFeedRefined!End, EventFeedRefined!Active, Status, executorVars, history
    <2>4. QED
        BY <2>3 DEF FeedStep, EventFeedRefined!Next, EventFeedRefined!Outcomes, Returned
<1>6. ASSUME NEW s \in Subs, ReceiveClosed(s) \/ ReturnExhausted(s) \/ SendError(s)
      PROVE  FeedStep
    <2>1. pc[s] \in Watching
        BY <1>6 DEF ReceiveClosed, ReturnExhausted, SendError, Watching
    <2>2. QED
        BY <1>5, <1>6, <2>1 DEF ReceiveClosed, ReturnExhausted, SendError, Returned
<1>7. ASSUME NEW s \in Subs, SkipUpdate(s) PROVE FeedStep
    <2>1. held[s] = cursor[s] + 1 /\ held[s] \in 1 .. Len(log)
        BY <1>0, <1>7 DEF SkipUpdate, Window, WindowOf, HeldIsNext, Hand
    <2>2. /\ pc[s] \in Watching /\ log[cursor[s] + 1] \notin Interest[s]
          /\ cursor[s] < Len(log)
        BY <1>0, <1>7, <2>1 DEF SkipUpdate, Matches, Watching, TypeOK
    <2>3. Status' = Status
        BY <1>0, <1>7, <2>2 DEF SkipUpdate, Status, TypeOK, Watching, executorVars, nodeVars
    <2>4. EventFeedRefined!Skip(s)
        BY <1>0, <1>7, <2>1, <2>2, <2>3
        DEF SkipUpdate, Status, EventFeedRefined!Skip, EventFeedRefined!Advance,
            EventFeedRefined!Active, executorVars, TypeOK, Watching
    <2>5. QED
        BY <2>4 DEF FeedStep, EventFeedRefined!Next
<1>8. ASSUME NEW s \in Subs, SendOk(s) PROVE FeedStep
    <2>1. held[s] = cursor[s] + 1 /\ held[s] \in 1 .. Len(log) /\ Matches(s, held[s])
        BY <1>0, <1>8 DEF SendOk, Window, WindowOf, HeldIsNext, Hand
    <2>2. /\ pc[s] \in Watching /\ log[cursor[s] + 1] \in Interest[s]
          /\ cursor[s] < Len(log)
        BY <1>0, <1>8, <2>1 DEF SendOk, Matches, Watching, TypeOK
    <2>3. Status' = Status
        BY <1>0, <1>8, <2>2 DEF SendOk, Status, TypeOK, Watching, executorVars, nodeVars
    <2>4. EventFeedRefined!Deliver(s)
        BY <1>0, <1>8, <2>1, <2>2, <2>3
        DEF SendOk, Status, EventFeedRefined!Deliver, EventFeedRefined!Advance,
            EventFeedRefined!Active, executorVars, TypeOK, Watching
    <2>5. QED
        BY <2>4 DEF FeedStep, EventFeedRefined!Next
<1>9. ASSUME NEW s \in Subs, Subscribe(s) \/ Receive(s) \/ StartSend(s) PROVE FeedStep
    <2>1. Status' = Status
        <3>1. CASE Subscribe(s)
            BY <1>0, <3>1 DEF Subscribe, Status, TypeOK, Watching, nodeVars
        <3>2. CASE Receive(s)
            BY <1>0, <3>2 DEF Receive, Status, TypeOK, Watching, executorVars
        <3>3. CASE StartSend(s)
            BY <1>0, <3>3 DEF StartSend, Status, TypeOK, Watching, executorVars, nodeVars
        <3>4. QED
            BY <1>9, <3>1, <3>2, <3>3
    <2>2. QED
        BY <1>9, <2>1 DEF Subscribe, Receive, StartSend, FeedStep, FeedVars, executorVars, history
<1>10. ASSUME UNCHANGED <<log, pc, marking, lagged, history>> PROVE FeedStep
    BY <1>10 DEF FeedStep, FeedVars, Status, history
<1>11. ASSUME NEW e \in Events, Broadcast(e) PROVE FeedStep
    BY <1>10, <1>11 DEF Broadcast, nodeVars, findVars
<1>12. CASE RemoveClose
    BY <1>10, <1>12 DEF RemoveClose, findVars
<1>13. ASSUME NEW s \in Subs, Disconnect(s) \/ Cleanup(s) PROVE FeedStep
    BY <1>10, <1>13 DEF Disconnect, Cleanup, executorVars, nodeVars, findVars
<1>14. CASE UNCHANGED vars
    BY <1>10, <1>14 DEF vars, executorVars, nodeVars, findVars
<1>15. QED
    BY <1>1, <1>4, <1>6, <1>7, <1>8, <1>9, <1>11, <1>12, <1>13, <1>14, <1>2, <1>3
    DEF Next, Executor, SendEvent, WatchLoop

\* The fan-out, with its queue of jobs, its channels and its lagged flags,
\* implements EventFeed: every step is one of the feed or changes nothing of it.
THEOREM Refinement == Spec => ImplementsFeed
<1>1. Init => EventFeedRefined!Init
    BY DEF Init, EventFeedRefined!Init
<1>2. FeedStep => [EventFeedRefined!Next]_(EventFeedRefined!feedVars)
    BY DEF FeedStep, FeedVars, Status, EventFeedRefined!feedVars
<1>3. QED
    BY <1>1, <1>2, StepFeed, Inductive, PTL DEF Spec, ImplementsFeed, EventFeedRefined!Spec
-----------------------------------------------------------------------------
(***************************************************************************)
(* Nobody is forgotten.                                                    *)
(***************************************************************************)

\* The job x waits in the queue q.
In(x, q) == \E i \in 1 .. Len(q) : q[i] = x

\* The first job of a node is in the queue while its Find waits for it, the second
\* from the step of the cleanup goroutine on; a watch that has returned has
\* cancelled its context.
Pending ==
    \A s \in Subs :
        /\ pc[s] = "subscribing" => In(PushJob(s), jobs)
        /\ cleaner[s] = "queued" => In(RemoveJob(s), jobs)
        /\ pc[s] \in Returned => ctxDone[s]

\* A job is in the queue once it was added, and until it is the first one.
LEMMA InQueue ==
    ASSUME NEW q \in Seq(Job), NEW x
    PROVE  /\ \A job \in Job : In(x, Append(q, job)) <=> In(x, q) \/ x = job
           /\ q # <<>> /\ In(x, q) => x = Head(q) \/ In(x, Tail(q))
<1>1. ASSUME NEW job \in Job PROVE In(x, Append(q, job)) <=> In(x, q) \/ x = job
    <2>1. 1 .. Len(q) + 1 = (1 .. Len(q)) \cup {Len(q) + 1}
        BY LenProperties
    <2> DEFINE r == Append(q, job)
    <2>2. /\ Len(r) = Len(q) + 1 /\ \A i \in 1 .. Len(q) : r[i] = q[i]
          /\ r[Len(q) + 1] = job
        BY AppendJob
    <2> HIDE DEF r
    <2>3. In(x, r) <=> In(x, q) \/ x = job
        BY <2>1, <2>2 DEF In
    <2>4. QED
        BY <2>3 DEF r
<1>2. ASSUME q # <<>>, NEW i \in 1 .. Len(q), q[i] = x, x # Head(q) PROVE In(x, Tail(q))
    <2>1. i # 1 /\ i - 1 \in 1 .. Len(Tail(q))
        BY <1>2, TakeJob
    <2>2. Tail(q)[i - 1] = q[i]
        BY <1>2, <2>1, TakeJob
    <2>3. QED
        BY <1>2, <2>1, <2>2 DEF In
<1>3. QED
    BY <1>1, <1>2 DEF In

\* The executor takes a job out of the queue as it does what the job is for.
LEMMA StepPending ==
    ASSUME TInv, Stage, Pending, [Next]_vars
    PROVE  Pending'
<1>0. TypeOK /\ jobs \in Seq(Job)
    BY DEF TInv, TypeOK
<1> USE DEF Pending
<1>1. ASSUME jobs' = jobs, UNCHANGED <<pc, cleaner>>, \A s \in Subs : ctxDone[s] => ctxDone'[s]
      PROVE  Pending'
    BY <1>1
<1>2. ASSUME NEW e \in Events, Broadcast(e) PROVE Pending'
    <2>1. jobs' = Append(jobs, SendJob(e)) /\ UNCHANGED <<pc, ctxDone, cleaner>>
        BY <1>2 DEF Broadcast, AsyncExec, findVars
    <2>2. SendJob(e) \in Job
        BY DEF SendJob, Job
    <2>3. \A x : In(x, jobs) => In(x, jobs')
        BY <1>0, <2>1, <2>2, InQueue
    <2>4. QED
        BY <2>1, <2>3
<1>3. ASSUME NEW type, NextJob(type)
      PROVE  /\ \A s \in Subs : In(PushJob(s), jobs) =>
                    In(PushJob(s), jobs') \/ (type = "push" /\ s = Head(jobs).sub)
             /\ \A s \in Subs : In(RemoveJob(s), jobs) =>
                    In(RemoveJob(s), jobs') \/ (type = "remove" /\ s = Head(jobs).sub)
    <2>1. jobs # <<>> /\ jobs' = Tail(jobs) /\ Head(jobs).type = type
        BY <1>3 DEF NextJob
    <2>2. \A x : In(x, jobs) => x = Head(jobs) \/ In(x, jobs')
        BY <1>0, <2>1, InQueue
    <2>3. QED
        BY <2>1, <2>2 DEF PushJob, RemoveJob
<1>4. CASE StartSendEvent
    <2>1. NextJob("send") /\ UNCHANGED <<pc, ctxDone, cleaner>>
        BY <1>4 DEF StartSendEvent, findVars
    <2>2. QED
        BY <1>3, <2>1
<1>5. CASE PushBack
    <2> DEFINE h == Head(jobs).sub
    <2>1. /\ NextJob("push") /\ pc' = [pc EXCEPT ![h] = "receiving"]
          /\ cleaner' = [cleaner EXCEPT ![h] = "armed"] /\ ctxDone' = ctxDone
        BY <1>5 DEF PushBack
    <2> HIDE DEF h
    <2>2. \A s \in Subs : In(PushJob(s), jobs) => In(PushJob(s), jobs') \/ s = h
        BY <1>3, <2>1 DEF h
    <2>3. \A s \in Subs : In(RemoveJob(s), jobs) => In(RemoveJob(s), jobs')
        BY <1>3, <2>1
    <2>4. \A s \in Subs : s = h => pc'[s] = "receiving" /\ cleaner'[s] = "armed"
        BY <1>0, <2>1 DEF TypeOK
    <2>5. \A s \in Subs : s # h => pc'[s] = pc[s] /\ cleaner'[s] = cleaner[s]
        BY <1>0, <2>1 DEF TypeOK
    <2>6. QED
        BY <2>1, <2>2, <2>3, <2>4, <2>5 DEF Returned
<1>6. CASE RemoveClose
    <2> DEFINE h == Head(jobs).sub
    <2>1. /\ NextJob("remove") /\ UNCHANGED <<pc, ctxDone>>
          /\ cleaner' = [cleaner EXCEPT ![h] = "finished"]
        BY <1>6 DEF RemoveClose, findVars
    <2> HIDE DEF h
    <2>2. \A s \in Subs : In(RemoveJob(s), jobs) => In(RemoveJob(s), jobs') \/ s = h
        BY <1>3, <2>1 DEF h
    <2>3. \A s \in Subs : In(PushJob(s), jobs) => In(PushJob(s), jobs')
        BY <1>3, <2>1
    <2>4. \A s \in Subs : cleaner'[s] = IF s = h THEN "finished" ELSE cleaner[s]
        BY <1>0, <2>1 DEF TypeOK
    <2>5. QED
        BY <2>1, <2>2, <2>3, <2>4
<1>7. ASSUME NEW s \in Subs, Subscribe(s) PROVE Pending'
    <2>1. /\ jobs' = Append(jobs, PushJob(s)) /\ pc' = [pc EXCEPT ![s] = "subscribing"]
          /\ UNCHANGED <<ctxDone, cleaner>>
        BY <1>7 DEF Subscribe, AsyncExec
    <2>2. PushJob(s) \in Job
        BY DEF PushJob, Job
    <2>3. In(PushJob(s), jobs') /\ \A x : In(x, jobs) => In(x, jobs')
        BY <1>0, <2>1, <2>2, InQueue
    <2>4. \A t \in Subs : pc'[t] = IF t = s THEN "subscribing" ELSE pc[t]
        BY <1>0, <2>1 DEF TypeOK
    <2>5. QED
        BY <2>1, <2>3, <2>4 DEF Returned
<1>8. ASSUME NEW s \in Subs, Cleanup(s) PROVE Pending'
    <2>1. /\ jobs' = Append(jobs, RemoveJob(s)) /\ cleaner' = [cleaner EXCEPT ![s] = "queued"]
          /\ UNCHANGED <<pc, ctxDone>>
        BY <1>8 DEF Cleanup, AsyncExec, findVars
    <2>2. RemoveJob(s) \in Job
        BY DEF RemoveJob, Job
    <2>3. In(RemoveJob(s), jobs') /\ \A x : In(x, jobs) => In(x, jobs')
        BY <1>0, <2>1, <2>2, InQueue
    <2>4. \A t \in Subs : cleaner'[t] = IF t = s THEN "queued" ELSE cleaner[t]
        BY <1>0, <2>1 DEF TypeOK
    <2>5. QED
        BY <2>1, <2>3, <2>4
<1>9. ASSUME NEW s \in Subs, Disconnect(s) PROVE Pending'
    <2>1. /\ jobs' = jobs /\ UNCHANGED <<pc, cleaner>>
          /\ ctxDone' = [ctxDone EXCEPT ![s] = TRUE]
        BY <1>9 DEF Disconnect, executorVars
    <2>2. \A t \in Subs : ctxDone[t] => ctxDone'[t]
        BY <1>0, <2>1 DEF TypeOK
    <2>3. QED
        BY <1>1, <2>1, <2>2
<1>10. ASSUME NEW s \in Subs, NEW p \in Watching \cup Returned, jobs' = jobs, cleaner' = cleaner,
              pc' = [pc EXCEPT ![s] = p],
              IF p \in Returned THEN ctxDone' = [ctxDone EXCEPT ![s] = TRUE] ELSE ctxDone' = ctxDone
       PROVE  Pending'
    <2>1. \A t \in Subs : pc'[t] = IF t = s THEN p ELSE pc[t]
        BY <1>0, <1>10 DEF TypeOK
    <2>2. \A t \in Subs : ctxDone[t] => ctxDone'[t]
        BY <1>0, <1>10 DEF TypeOK
    <2>3. p \in Returned => ctxDone'[s]
        BY <1>0, <1>10 DEF TypeOK
    <2>4. p # "subscribing"
        BY DEF Watching, Returned
    <2>5. QED
        BY <1>10, <2>1, <2>2, <2>3, <2>4
<1>11. ASSUME NEW s \in Subs, WatchLoop(s) \/ SendOk(s) \/ SendError(s) PROVE Pending'
    <2>1. \E p \in Watching \cup Returned :
             /\ pc' = [pc EXCEPT ![s] = p]
             /\ IF p \in Returned THEN ctxDone' = [ctxDone EXCEPT ![s] = TRUE]
                ELSE ctxDone' = ctxDone
        <3>1. CASE Receive(s) \/ SkipUpdate(s) \/ StartSend(s) \/ SendOk(s)
            BY <3>1 DEF Receive, SkipUpdate, StartSend, SendOk, Watching, Returned
        <3>2. CASE ReceiveClosed(s) \/ ReturnExhausted(s) \/ SendError(s)
            BY <3>2 DEF ReceiveClosed, ReturnExhausted, SendError, Return, Returned
        <3>3. QED
            BY <1>11, <3>1, <3>2 DEF WatchLoop
    <2>2. jobs' = jobs /\ cleaner' = cleaner
        BY <1>11
        DEF WatchLoop, Receive, ReceiveClosed, ReturnExhausted, SkipUpdate, StartSend, SendOk,
            SendError, executorVars
    <2>3. QED
        BY <1>10, <2>1, <2>2
<1>12. ASSUME NEW s \in Subs, ServeNode(s) PROVE Pending'
    BY <1>1, <1>12 DEF ServeNode, findVars
<1>13. CASE MarkLagged
    BY <1>1, <1>13 DEF MarkLagged, findVars
<1>14. CASE UNCHANGED vars
    BY <1>1, <1>14 DEF vars, executorVars, findVars
<1>15. QED
    BY <1>2, <1>4, <1>5, <1>6, <1>7, <1>8, <1>9, <1>11, <1>12, <1>13, <1>14
    DEF Next, Executor, SendEvent

\* Whatever is queued before it, the job that a Find waits for is in the queue, and
\* no node of a watch that is over stays in the list for want of a job.
THEOREM ForgetsNobody == Spec => []NobodyForgotten
<1>1. Init => Pending
    BY DEF Init, Pending, Returned
<1>2. IInv /\ Pending /\ [Next]_vars => Pending'
    BY StepPending DEF IInv
<1>3. IInv /\ Pending => NobodyForgotten
    BY DEF IInv, Stage, Pending, In, NobodyForgotten
<1>4. QED
    BY <1>1, <1>2, <1>3, Inductive, PTL DEF Spec
=============================================================================
