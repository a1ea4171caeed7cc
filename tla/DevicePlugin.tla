---------------------------- MODULE DevicePlugin ----------------------------
(***************************************************************************)
(* The device plugin server of one resource                                *)
(* (pkg/tools/deviceplugin/server.go): Allocate marks tokens as allocated, *)
(* the ListAndWatch streams free those that two looks at the pods of the   *)
(* node did not show, and report the tokens to the kubelet.                *)
(*                                                                         *)
(* Each ListAndWatch call is a goroutine of its own; after a restart of    *)
(* the kubelet the old one is still there until its next Send fails.       *)
(*                                                                         *)
(* External: the kubelet, which assigns unused tokens to pods and shows    *)
(* them in the pod resources some time after Allocate has returned, and    *)
(* the token pool, which marks tokens and calls its listener.              *)
(***************************************************************************)
EXTENDS Naturals, FiniteSets

CONSTANTS Tokens,      \* the tokens of the resource
          Streams,     \* the ListAndWatch calls
          Faults,      \* whether the pool refuses tokens and calls fail
          MaxAllocations,  \* bound: how many Allocate calls there are
          MaxChanges       \* bound: how often the pool changes a token

ASSUME DevicePluginAssumption ==
    /\ Faults \in BOOLEAN
    /\ MaxAllocations \in Nat
    /\ MaxChanges \in Nat

VARIABLES
    allocatedTokens,  \* the map: its three values for a token, see below
    updateCh,         \* whether updateCh holds a signal
    updating,         \* how many calls of update() are on their way
    request,          \* the tokens of the Allocate call in flight
    handler,          \* where that call stands
    pc,               \* pc[s]: where ListAndWatch s stands
    listed,           \* listed[s]: the tokens its last List showed
    view,             \* view[s]: the healthy tokens in its last response
    marked,           \* pool: the tokens marked as allocated
    healthy,          \* pool: the healthy tokens
    pod,              \* pod[t]: what the kubelet does with t
    allocations,      \* how many Allocate calls there were
    changes,          \* how many changes of the pool there were
    fresh,            \* history: tokens not allocated anew since the List of s
    doubted,          \* history: tokens a fresh List has not shown
    early             \* history: tokens freed without a fresh List

serverVars == <<allocatedTokens, updateCh, updating>>
callVars == <<request, handler>>
streamVars == <<pc, listed, view>>
poolVars == <<marked, healthy, changes>>
history == <<fresh, doubted, early>>
vars == <<serverVars, callVars, streamVars, poolVars, pod, allocations, history>>

\* "absent": no entry; "seen" and "unseen": the entry is true and false.
Entry == {"absent", "seen", "unseen"}

Looping == {"listing", "updating", "responding", "sending", "waiting"}

TypeOK ==
    /\ allocatedTokens \in [Tokens -> Entry]
    /\ updateCh \in BOOLEAN
    /\ updating \in 0 .. MaxAllocations + MaxChanges
    /\ request \subseteq Tokens
    /\ handler \in {"idle", "called", "refused", "granted"}
    /\ pc \in [Streams -> {"closed"} \cup Looping]
    /\ listed \in [Streams -> SUBSET Tokens]
    /\ view \in [Streams -> SUBSET Tokens]
    /\ marked \subseteq Tokens
    /\ \A t \in Tokens : allocatedTokens[t] # "absent" => t \in marked
    /\ healthy \subseteq Tokens
    /\ pod \in [Tokens -> {"none", "asked", "granted", "shown"}]
    /\ allocations \in 0 .. MaxAllocations
    /\ changes \in 0 .. MaxChanges
    /\ fresh \in [Streams -> SUBSET Tokens]
    /\ doubted \subseteq Tokens
    /\ early \subseteq Tokens

Shown == {t \in Tokens : pod[t] = "shown"}

\* What StartServers makes of the pod resources: the tokens of every container.
RespToDeviceIDs == Shown

\* StartServers has handed the tokens of the running pods to Restore.
Init ==
    /\ pod \in [Tokens -> {"none", "shown"}]
    /\ marked = RespToDeviceIDs
    /\ allocatedTokens = [t \in Tokens |-> "absent"]
    /\ updateCh = FALSE
    /\ updating = 0
    /\ request = {}
    /\ handler = "idle"
    /\ pc = [s \in Streams |-> "closed"]
    /\ listed = [s \in Streams |-> {}]
    /\ view = [s \in Streams |-> {}]
    /\ healthy = Tokens
    /\ allocations = 0
    /\ changes = 0
    /\ fresh = [s \in Streams |-> {}]
    /\ doubted = {}
    /\ early = {}
-----------------------------------------------------------------------------
(***************************************************************************)
(* The kubelet and the pool.                                               *)
(***************************************************************************)
\* The kubelet calls Allocate for tokens no pod uses.
Ask(ids) ==
    /\ handler = "idle"
    /\ allocations < MaxAllocations
    /\ ids # {} /\ \A t \in ids : pod[t] = "none"
    /\ allocations' = allocations + 1
    /\ request' = ids
    /\ handler' = "called"
    /\ pod' = [t \in Tokens |-> IF t \in ids THEN "asked" ELSE pod[t]]
    /\ UNCHANGED <<serverVars, streamVars, poolVars, history>>

\* The tokens of a granted request appear in the pod resources.
Show(t) ==
    /\ pod[t] = "granted"
    /\ pod' = [pod EXCEPT ![t] = "shown"]
    /\ UNCHANGED <<serverVars, callVars, streamVars, poolVars, allocations, history>>

PodEnds(t) ==
    /\ pod[t] \in {"granted", "shown"}
    /\ pod' = [pod EXCEPT ![t] = "none"]
    /\ UNCHANGED <<serverVars, callVars, streamVars, poolVars, allocations, history>>

\* A token becomes healthy or unhealthy; the pool then calls its listener.
ChangePool(t) ==
    /\ changes < MaxChanges
    /\ changes' = changes + 1
    /\ healthy' = IF t \in healthy THEN healthy \ {t} ELSE healthy \cup {t}
    /\ updating' = updating + 1
    /\ UNCHANGED <<allocatedTokens, updateCh, callVars, streamVars, marked, pod,
                   allocations, history>>
-----------------------------------------------------------------------------
(***************************************************************************)
(* Allocate.                                                               *)
(***************************************************************************)
\* useDevices, under the lock: every token can be marked.
UseDevices ==
    /\ handler = "called"
    /\ marked' = marked \cup request
    /\ allocatedTokens' = [t \in Tokens |-> IF t \in request THEN "seen" ELSE allocatedTokens[t]]
    /\ handler' = "granted"
    /\ updating' = updating + 1
    /\ fresh' = [s \in Streams |-> fresh[s] \ request]
    /\ doubted' = doubted \ request
    /\ UNCHANGED <<updateCh, request, streamVars, healthy, changes, pod, allocations, early>>

\* Mutant of UseDevicesRefused: the entries made so far stay.
UseDevicesForgotten ==
    /\ Faults
    /\ handler = "called"
    /\ marked' = marked \ request
    /\ \E first \in SUBSET request :
        allocatedTokens' = [t \in Tokens |-> IF t \in first THEN "seen" ELSE allocatedTokens[t]]
    /\ handler' = "refused"
    /\ updating' = updating + 1
    /\ UNCHANGED <<updateCh, request, streamVars, healthy, changes, pod, allocations, history>>

\* The pool refuses one of the tokens: all of the request are freed.
UseDevicesRefused ==
    /\ Faults
    /\ handler = "called"
    /\ marked' = marked \ request
    /\ allocatedTokens' = [t \in Tokens |-> IF t \in request THEN "absent" ELSE allocatedTokens[t]]
    /\ handler' = "refused"
    /\ updating' = updating + 1
    /\ UNCHANGED <<updateCh, request, streamVars, healthy, changes, pod, allocations, history>>

\* Mutant of Update: the channel has no buffer, nobody listens but in select.
UpdateUnbuffered ==
    /\ updating > 0
    /\ updating' = updating - 1
    /\ updateCh' = (updateCh \/ \E s \in Streams : pc[s] = "waiting")
    /\ UNCHANGED <<allocatedTokens, callVars, streamVars, poolVars, pod, allocations, history>>

\* update(): the signal goes into the channel unless one is there already.
Update ==
    /\ updating > 0
    /\ updating' = updating - 1
    /\ updateCh' = TRUE
    /\ UNCHANGED <<allocatedTokens, callVars, streamVars, poolVars, pod, allocations, history>>

\* Allocate returns to the kubelet.
Answer ==
    /\ handler \in {"refused", "granted"}
    /\ pod' = [t \in Tokens |-> IF t \notin request THEN pod[t]
                                ELSE IF handler = "granted" THEN "granted" ELSE "none"]
    /\ handler' = "idle"
    /\ request' = {}
    /\ UNCHANGED <<serverVars, streamVars, poolVars, allocations, history>>
-----------------------------------------------------------------------------
(***************************************************************************)
(* ListAndWatch.                                                           *)
(***************************************************************************)
Goto(s, from, to) ==
    /\ pc[s] = from
    /\ pc' = [pc EXCEPT ![s] = to]

\* The kubelet, once registered, opens a stream.
ListAndWatch(s) ==
    /\ Goto(s, "closed", "listing")
    /\ UNCHANGED <<serverVars, callVars, listed, view, poolVars, pod, allocations, history>>

List(s) ==
    /\ Goto(s, "listing", "updating")
    /\ listed' = [listed EXCEPT ![s] = Shown]
    /\ fresh' = [fresh EXCEPT ![s] = Tokens]
    /\ UNCHANGED <<serverVars, callVars, view, poolVars, pod, allocations, doubted, early>>

\* Mutants of Look: a token is freed at once; one once seen is never freed.
LookOnce(entry, shown) ==
    IF entry = "absent" THEN "absent" ELSE IF shown THEN "seen" ELSE "absent"
LookAgain(entry, shown) ==
    IF entry = "absent" THEN "absent" ELSE IF shown THEN "seen" ELSE entry

\* What the switch of updateDevices makes of an entry.
Look(entry, shown) ==
    IF entry = "absent" THEN "absent"
    ELSE IF shown THEN "seen"
    ELSE IF entry = "seen" THEN "unseen"
    ELSE "absent"

\* updateDevices, under the lock, with what List has shown before it.
UpdateDevices(s) ==
    /\ Goto(s, "updating", "responding")
    /\ allocatedTokens' = [t \in Tokens |-> Look(allocatedTokens[t], t \in listed[s])]
    /\ LET freed == {t \in Tokens : allocatedTokens[t] # "absent" /\ allocatedTokens'[t] = "absent"}
           unseen == doubted \cup (fresh[s] \ listed[s])
       IN  /\ marked' = marked \ freed
           /\ early' = early \cup (freed \ unseen)
           /\ doubted' = unseen
    /\ UNCHANGED <<updateCh, updating, callVars, listed, view, healthy, changes, pod,
                   allocations, fresh>>

\* listAndWatchResponse reads the tokens of the pool.
ListAndWatchResponse(s) ==
    /\ Goto(s, "responding", "sending")
    /\ view' = [view EXCEPT ![s] = healthy]
    /\ UNCHANGED <<serverVars, callVars, listed, poolVars, pod, allocations, history>>

\* server.Send passes the response on, which may take a while.
Send(s) ==
    /\ Goto(s, "sending", "waiting")
    /\ UNCHANGED <<serverVars, callVars, listed, view, poolVars, pod, allocations, history>>

\* List fails, or Send as the kubelet has left, or s.ctx is done: the call returns.
ReturnError(s) ==
    /\ Faults
    /\ pc[s] \in {"listing", "sending", "waiting"}
    /\ pc' = [pc EXCEPT ![s] = "closed"]
    /\ UNCHANGED <<serverVars, callVars, listed, view, poolVars, pod, allocations, history>>

\* time.After(resourcePollTimeout).
Poll(s) ==
    /\ Goto(s, "waiting", "listing")
    /\ UNCHANGED <<serverVars, callVars, listed, view, poolVars, pod, allocations, history>>

\* <-updateCh: the signal wakes one of the streams.
TakeSignal(s) ==
    /\ Goto(s, "waiting", "listing")
    /\ updateCh
    /\ updateCh' = FALSE
    /\ UNCHANGED <<allocatedTokens, updating, callVars, listed, view, poolVars, pod,
                   allocations, history>>
-----------------------------------------------------------------------------
Loop(s) ==
    \/ List(s)
    \/ UpdateDevices(s)
    \/ ListAndWatchResponse(s)
    \/ Send(s)
    \/ TakeSignal(s)

Allocate == UseDevices \/ UseDevicesRefused \/ Answer

Next ==
    \/ \E ids \in SUBSET Tokens : Ask(ids)
    \/ Allocate
    \/ Update
    \/ \E t \in Tokens : Show(t) \/ PodEnds(t) \/ ChangePool(t)
    \/ \E s \in Streams : ListAndWatch(s) \/ Loop(s) \/ Poll(s) \/ ReturnError(s)

Spec == Init /\ [][Next]_vars

\* The goroutines run; the kubelet owes nothing.  Nothing is said of the timer:
\* resourcePollTimeout may be as long as one likes.
Fairness ==
    /\ WF_vars(Allocate)
    /\ WF_vars(Update)
    /\ \A s \in Streams : WF_vars(Loop(s))

FairSpec == Spec /\ Fairness
-----------------------------------------------------------------------------
(***************************************************************************)
(* Properties.                                                             *)
(***************************************************************************)
\* With one stream, updateDevices frees a token only after a look at the pods
\* taken since the token was last allocated: a List taken before Allocate and
\* used after it is not enough.
FreedAfterFreshLook == early = {}

\* With one stream, tokens that changed since the stream read them are never
\* forgotten: when its response goes out, or it waits, a signal is in updateCh or
\* a call of update() is about to put one there.  ViewCatchesUp rests on it.
StaleViewSignalled ==
    \A s \in Streams :
        pc[s] \in {"sending", "waiting"} /\ view[s] # healthy => updateCh \/ updating > 0

\* A change of the pool reaches the kubelet by the signal alone, even one that
\* comes while the stream is anywhere in its loop or a signal is pending.
ViewCatchesUp ==
    \A s \in Streams : \A t \in Tokens :
        /\ (t \in healthy /\ pc[s] # "closed")
               ~> (t \notin healthy \/ t \in view[s] \/ pc[s] = "closed")
        /\ (t \notin healthy /\ pc[s] # "closed")
               ~> (t \in healthy \/ t \notin view[s] \/ pc[s] = "closed")

\* Where the timer fires, a token that Allocate has marked, and that no pod has
\* any more, is freed, while there is a stream to look and nobody asks for it anew.
UnusedFreed ==
    (\A s \in Streams : WF_vars(Poll(s))) =>
        \A t \in Tokens :
            (allocatedTokens[t] # "absent" /\ pod[t] = "none")
                ~> (t \notin marked \/ pod[t] # "none" \/ \A s \in Streams : pc[s] = "closed")
=============================================================================
