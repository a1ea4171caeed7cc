------------------------- MODULE DevicePluginProofs -------------------------
(***************************************************************************)
(* Proofs about DevicePlugin, for any set of tokens and any number of      *)
(* Allocate calls and changes of the pool.                                 *)
(***************************************************************************)
EXTENDS DevicePlugin, TLAPS

\* Each Allocate and each change of the pool calls update() once.
UpdatesBounded ==
    updating + (IF handler = "called" THEN 1 ELSE 0) <= allocations + changes

TInv == TypeOK /\ UpdatesBounded
-----------------------------------------------------------------------------
\* Types hold at the start ...
LEMMA InitTInv == Init => TInv
<1> SUFFICES ASSUME Init PROVE TInv
    OBVIOUS
<1>1. UpdatesBounded
    BY DEF Init, UpdatesBounded
<1>2. updating \in 0 .. MaxAllocations + MaxChanges
    BY DevicePluginAssumption DEF Init
<1>3. allocations \in 0 .. MaxAllocations /\ changes \in 0 .. MaxChanges
    BY DevicePluginAssumption DEF Init
<1>4. QED
    BY <1>1, <1>2, <1>3 DEF Init, TInv, TypeOK, Entry, Looping, RespToDeviceIDs, Shown

\* ... and every step keeps them.
LEMMA StepTInv == TInv /\ [Next]_vars => TInv'
<1> SUFFICES ASSUME TInv, [Next]_vars PROVE TInv'
    OBVIOUS
<1> USE DevicePluginAssumption
<1>0. TypeOK /\ UpdatesBounded
    BY DEF TInv
<1>1. ASSUME UNCHANGED <<updating, handler, allocations, changes>> PROVE UpdatesBounded'
    BY <1>0, <1>1 DEF UpdatesBounded
<1>2. ASSUME NEW ids \in SUBSET Tokens, Ask(ids) PROVE TInv'
    <2>1. UpdatesBounded'
        BY <1>0, <1>2 DEF Ask, UpdatesBounded, TypeOK, serverVars, poolVars
    <2>2. TypeOK'
        BY <1>0, <1>2 DEF Ask, TypeOK, serverVars, streamVars, poolVars, history
    <2>3. QED
        BY <2>1, <2>2 DEF TInv
<1>3. ASSUME NEW t \in Tokens, Show(t) \/ PodEnds(t) PROVE TInv'
    <2>1. TypeOK'
        BY <1>0, <1>3
        DEF Show, PodEnds, TypeOK, serverVars, callVars, streamVars, poolVars, history
    <2>2. QED
        BY <1>1, <1>3, <2>1 DEF Show, PodEnds, serverVars, callVars, poolVars, TInv
<1>4. ASSUME NEW t \in Tokens, ChangePool(t) PROVE TInv'
    <2>1. UpdatesBounded' /\ updating' \in 0 .. MaxAllocations + MaxChanges
        BY <1>0, <1>4 DEF ChangePool, UpdatesBounded, TypeOK, callVars
    <2>2. TypeOK'
        BY <1>0, <1>4, <2>1 DEF ChangePool, TypeOK, callVars, streamVars, history
    <2>3. QED
        BY <2>1, <2>2 DEF TInv
<1>5. CASE UseDevices \/ UseDevicesRefused
    <2>1. /\ handler = "called" /\ handler' \in {"granted", "refused"}
          /\ updating' = updating + 1 /\ UNCHANGED <<allocations, changes>>
        BY <1>5 DEF UseDevices, UseDevicesRefused
    <2>2. UpdatesBounded' /\ updating' \in 0 .. MaxAllocations + MaxChanges
        BY <1>0, <2>1 DEF UpdatesBounded, TypeOK
    <2>3. TypeOK'
        BY <1>0, <1>5, <2>2
        DEF UseDevices, UseDevicesRefused, TypeOK, Entry, streamVars, history
    <2>4. QED
        BY <2>2, <2>3 DEF TInv
<1>6. CASE Update
    <2>1. UpdatesBounded' /\ updating' \in 0 .. MaxAllocations + MaxChanges
        BY <1>0, <1>6 DEF Update, UpdatesBounded, TypeOK, callVars, poolVars
    <2>2. TypeOK'
        BY <1>0, <1>6, <2>1 DEF Update, TypeOK, callVars, streamVars, poolVars, history
    <2>3. QED
        BY <2>1, <2>2 DEF TInv
<1>7. CASE Answer
    <2>1. UpdatesBounded'
        BY <1>0, <1>7 DEF Answer, UpdatesBounded, TypeOK, serverVars, poolVars
    <2>2. TypeOK'
        BY <1>0, <1>7 DEF Answer, TypeOK, serverVars, streamVars, poolVars, history
    <2>3. QED
        BY <2>1, <2>2 DEF TInv
<1>8. ASSUME NEW s \in Streams, UpdateDevices(s) PROVE TInv'
    <2>1. \A t \in Tokens : Look(allocatedTokens[t], t \in listed[s]) \in Entry
        BY DEF Look, Entry
    <2>2. allocatedTokens' \in [Tokens -> Entry]
        BY <1>8, <2>1 DEF UpdateDevices
    <2>3. /\ marked' \subseteq Tokens
          /\ \A t \in Tokens : allocatedTokens'[t] # "absent" => t \in marked'
        <3>1. \A t \in Tokens : allocatedTokens'[t] # "absent" => allocatedTokens[t] # "absent"
            BY <1>8 DEF UpdateDevices, Look
        <3>2. marked' = marked \ {t \in Tokens : /\ allocatedTokens[t] # "absent"
                                                /\ allocatedTokens'[t] = "absent"}
            BY <1>8 DEF UpdateDevices
        <3>3. QED
            BY <1>0, <3>1, <3>2 DEF TypeOK
    <2>4. doubted' \subseteq Tokens /\ early' \subseteq Tokens
        BY <1>0, <1>8 DEF UpdateDevices, TypeOK
    <2>5. pc' \in [Streams -> {"closed"} \cup Looping]
        BY <1>0, <1>8 DEF UpdateDevices, Goto, TypeOK, Looping
    <2>6. TypeOK'
        BY <1>0, <1>8, <2>2, <2>3, <2>4, <2>5 DEF UpdateDevices, TypeOK, callVars
    <2>7. QED
        BY <1>1, <1>8, <2>6 DEF UpdateDevices, callVars, TInv
<1>9. ASSUME NEW s \in Streams,
             \/ ListAndWatch(s) \/ List(s) \/ ListAndWatchResponse(s) \/ Send(s)
             \/ TakeSignal(s) \/ Poll(s) \/ ReturnError(s)
      PROVE  TInv'
    <2>1. /\ pc' \in [Streams -> {"closed"} \cup Looping] /\ updateCh' \in BOOLEAN
          /\ listed' \in [Streams -> SUBSET Tokens] /\ view' \in [Streams -> SUBSET Tokens]
          /\ fresh' \in [Streams -> SUBSET Tokens]
        <3>0. /\ pc \in [Streams -> {"closed"} \cup Looping] /\ updateCh \in BOOLEAN
              /\ listed \in [Streams -> SUBSET Tokens] /\ view \in [Streams -> SUBSET Tokens]
              /\ fresh \in [Streams -> SUBSET Tokens] /\ healthy \subseteq Tokens
              /\ Shown \subseteq Tokens
            BY <1>0 DEF TypeOK, Shown
        <3>1. CASE List(s)
            BY <3>0, <3>1 DEF List, Goto, Looping, serverVars
        <3>2. CASE ListAndWatchResponse(s)
            BY <3>0, <3>2 DEF ListAndWatchResponse, Goto, Looping, serverVars, history
        <3>3. CASE TakeSignal(s)
            BY <3>0, <3>3 DEF TakeSignal, Goto, Looping, history
        <3>4. CASE ListAndWatch(s) \/ Send(s) \/ Poll(s) \/ ReturnError(s)
            <4>1. /\ \E p \in {"closed"} \cup Looping : pc' = [pc EXCEPT ![s] = p]
                  /\ UNCHANGED <<updateCh, listed, view, fresh>>
                BY <3>4
                DEF ListAndWatch, Send, Poll, ReturnError, Goto, Looping, serverVars, history
            <4>2. QED
                BY <3>0, <4>1
        <3>5. QED
            BY <1>9, <3>1, <3>2, <3>3, <3>4
    <2>2. UNCHANGED <<allocatedTokens, updating, callVars, poolVars, pod, allocations, doubted,
                      early>>
        BY <1>9
        DEF ListAndWatch, List, ListAndWatchResponse, Send, TakeSignal, Poll, ReturnError,
            serverVars, history
    <2>3. TypeOK'
        BY <1>0, <2>1, <2>2 DEF TypeOK, callVars, poolVars
    <2>4. QED
        BY <1>1, <2>2, <2>3 DEF callVars, poolVars, TInv
<1>10. CASE UNCHANGED vars
    <2>1. TypeOK'
        BY <1>0, <1>10
        DEF TypeOK, vars, serverVars, callVars, streamVars, poolVars, history
    <2>2. QED
        BY <1>1, <1>10, <2>1 DEF vars, serverVars, callVars, poolVars, TInv
<1>11. QED
    BY <1>2, <1>3, <1>4, <1>5, <1>6, <1>7, <1>8, <1>9, <1>10 DEF Next, Allocate, Loop

\* The map, the channel and the streams have the values the code can give them;
\* in particular every token in allocatedTokens is marked in the pool, whatever
\* Allocate calls and looks of several streams come in between.
THEOREM TypeCorrect == Spec => []TypeOK
<1>1. TInv => TypeOK
    BY DEF TInv
<1>2. QED
    BY <1>1, InitTInv, StepTInv, PTL DEF Spec
-----------------------------------------------------------------------------
(***************************************************************************)
(* A token is freed after a fresh look.                                    *)
(***************************************************************************)

\* A token that one look has not shown was not allocated since the List that
\* the next look is about to use: only another stream could have aged it.
AgedBefore ==
    \A s \in Streams : \A t \in Tokens :
        pc[s] = "updating" /\ allocatedTokens[t] = "unseen" => t \in fresh[s]

IInv == TInv /\ AgedBefore /\ FreedAfterFreshLook

\* What UseDevices marks is "seen"; List makes every token fresh; and the one
\* stream that ages tokens leaves "updating" as it does so.
LEMMA StepAged ==
    ASSUME \A r, s \in Streams : r = s, TypeOK, TypeOK', AgedBefore, [Next]_vars
    PROVE  AgedBefore'
<1> USE DEF AgedBefore
<1>1. ASSUME \A s \in Streams : pc'[s] = "updating" => pc[s] = "updating",
             UNCHANGED <<allocatedTokens, fresh>>
      PROVE  AgedBefore'
    BY <1>1
<1>2. CASE UseDevices
    <2>1. \A t \in Tokens : allocatedTokens'[t] = "unseen" =>
             t \notin request /\ allocatedTokens[t] = "unseen"
        BY <1>2 DEF UseDevices
    <2>2. \A s \in Streams : pc'[s] = pc[s] /\ fresh'[s] = fresh[s] \ request
        BY <1>2 DEF UseDevices, streamVars
    <2>3. QED
        BY <2>1, <2>2
<1>3. CASE UseDevicesRefused
    BY <1>3 DEF UseDevicesRefused, streamVars, history
<1>4. ASSUME NEW s \in Streams, List(s) PROVE AgedBefore'
    <2>1. fresh'[s] = Tokens
        BY <1>4 DEF List, TypeOK
    <2>2. QED
        BY <2>1
<1>5. ASSUME NEW s \in Streams, UpdateDevices(s) PROVE AgedBefore'
    <2>1. pc'[s] = "responding"
        BY <1>5 DEF UpdateDevices, Goto, TypeOK
    <2>2. QED
        BY <2>1
<1>6. ASSUME NEW s \in Streams,
             \/ ListAndWatch(s) \/ ListAndWatchResponse(s) \/ Send(s)
             \/ TakeSignal(s) \/ Poll(s) \/ ReturnError(s)
      PROVE  AgedBefore'
    <2>1. pc'[s] # "updating" /\ UNCHANGED <<allocatedTokens, fresh>>
        BY <1>6
        DEF ListAndWatch, ListAndWatchResponse, Send, TakeSignal, Poll, ReturnError, Goto,
            TypeOK, serverVars, history
    <2>2. QED
        BY <1>1, <2>1
<1>7. QED
    BY <1>1, <1>2, <1>3, <1>4, <1>5, <1>6
    DEF Next, Allocate, Loop, Ask, Show, PodEnds, ChangePool, Update, Answer, serverVars,
        streamVars, history, vars

\* Only UpdateDevices frees, and what it frees its own List has not shown.
LEMMA StepFreed ==
    ASSUME TypeOK, AgedBefore, FreedAfterFreshLook, [Next]_vars
    PROVE  FreedAfterFreshLook'
<1> USE DEF FreedAfterFreshLook
<1>1. ASSUME NEW s \in Streams, UpdateDevices(s) PROVE FreedAfterFreshLook'
    <2>1. ASSUME NEW t \in Tokens, allocatedTokens[t] # "absent", allocatedTokens'[t] = "absent"
          PROVE  t \in fresh[s] \ listed[s]
        <3>1. Look(allocatedTokens[t], t \in listed[s]) = "absent"
            BY <1>1, <2>1 DEF UpdateDevices
        <3>2. t \notin listed[s] /\ allocatedTokens[t] = "unseen"
            BY <2>1, <3>1 DEF Look, TypeOK, Entry
        <3>3. QED
            BY <1>1, <3>2 DEF AgedBefore, UpdateDevices, Goto
    <2>2. QED
        BY <1>1, <2>1 DEF UpdateDevices
<1>2. CASE UNCHANGED early
    BY <1>2
<1>3. QED
    BY <1>1, <1>2
    DEF Next, Allocate, Loop, Ask, Show, PodEnds, ChangePool, UseDevices, UseDevicesRefused,
        Update, Answer, ListAndWatch, List, ListAndWatchResponse, Send, TakeSignal, Poll,
        ReturnError, history, vars

\* While there is one ListAndWatch stream, a token is freed only when a List
\* made since its last Allocate has not shown it, however Allocate, the pods and
\* the stream interleave.
THEOREM FreedAfterLook ==
    ASSUME \A r, s \in Streams : r = s
    PROVE  Spec => []FreedAfterFreshLook
<1>1. Init => IInv
    BY InitTInv DEF Init, IInv, AgedBefore, FreedAfterFreshLook
<1>2. IInv /\ [Next]_vars => IInv'
    BY StepTInv, StepAged, StepFreed DEF IInv, TInv
<1>3. IInv => FreedAfterFreshLook
    BY DEF IInv
<1>4. QED
    BY <1>1, <1>2, <1>3, PTL DEF Spec
-----------------------------------------------------------------------------
(***************************************************************************)
(* No change of the tokens is forgotten.                                   *)
(***************************************************************************)

\* Changes add a call of update(), which leaves its signal; the signal is only
\* taken by the stream that then reads the tokens again.
LEMMA StepSignalled ==
    ASSUME \A r, s \in Streams : r = s, TypeOK, StaleViewSignalled, [Next]_vars
    PROVE  StaleViewSignalled'
<1> USE DEF TypeOK, StaleViewSignalled
<1>1. ASSUME UNCHANGED <<pc, view, healthy, updateCh>>, updating > 0 => updating' > 0
      PROVE  StaleViewSignalled'
    BY <1>1
<1>2. CASE UseDevices \/ UseDevicesRefused
    <2>1. updating' > 0
        BY <1>2, DevicePluginAssumption DEF UseDevices, UseDevicesRefused
    <2>2. QED
        BY <1>1, <1>2, <2>1 DEF UseDevices, UseDevicesRefused, streamVars
<1>3. CASE Update
    BY <1>3 DEF Update
<1>4. ASSUME NEW t \in Tokens, ChangePool(t) PROVE StaleViewSignalled'
    <2>1. updating' > 0
        BY <1>4, DevicePluginAssumption DEF ChangePool
    <2>2. QED
        BY <2>1
<1>5. ASSUME NEW s \in Streams, ListAndWatchResponse(s) PROVE StaleViewSignalled'
    <2>1. view'[s] = healthy'
        BY <1>5 DEF ListAndWatchResponse, poolVars
    <2>2. QED
        BY <2>1
<1>6. ASSUME NEW s \in Streams,
             \/ ListAndWatch(s) \/ List(s) \/ UpdateDevices(s) \/ TakeSignal(s) \/ Poll(s)
             \/ ReturnError(s)
      PROVE  StaleViewSignalled'
    <2>1. pc'[s] \notin {"sending", "waiting"}
        BY <1>6
        DEF ListAndWatch, List, UpdateDevices, TakeSignal, Poll, ReturnError, Goto
    <2>2. QED
        BY <2>1
<1>7. ASSUME NEW s \in Streams, Send(s) PROVE StaleViewSignalled'
    <2>1. pc[s] = "sending" /\ UNCHANGED <<view, healthy, updateCh, updating>>
        BY <1>7 DEF Send, Goto, serverVars, poolVars
    <2>2. QED
        BY <2>1
<1>8. ASSUME UNCHANGED <<pc, view, healthy, updateCh, updating>> PROVE StaleViewSignalled'
    BY <1>8
<1>9. QED
    BY <1>2, <1>3, <1>4, <1>5, <1>6, <1>7, <1>8
    DEF Next, Allocate, Loop, Ask, Show, PodEnds, Answer, serverVars, streamVars, poolVars, vars

\* While there is one ListAndWatch stream, no change of the pool's tokens is
\* forgotten, wherever in its loop it meets the stream and however many calls of
\* update() find a signal in updateCh already.
THEOREM StaleSignalled ==
    ASSUME \A r, s \in Streams : r = s
    PROVE  Spec => []StaleViewSignalled
<1>1. Init => StaleViewSignalled
    BY DEF Init, StaleViewSignalled
<1>2. TInv /\ StaleViewSignalled /\ [Next]_vars => TInv' /\ StaleViewSignalled'
    BY StepTInv, StepSignalled DEF TInv
<1>3. QED
    BY <1>1, <1>2, InitTInv, PTL DEF Spec
=============================================================================
