-------------------------- MODULE NSERegistration --------------------------
(***************************************************************************)
(* Register, Unregister and the collection of expired entries in           *)
(* etcdNSERegistryServer (pkg/registry/etcd/nse_server.go), for several    *)
(* registry replicas that share one Kubernetes API server.                 *)
(*                                                                         *)
(* The API server is external: it holds one object per namespace and name, *)
(* gives every write a resourceVersion of its own, and decides each        *)
(* request in one step.  The answer to a request can be lost on its way,   *)
(* and so can the request.  A replica can be restarted.                    *)
(*                                                                         *)
(* The chain element begin (registry-k8s.go) lets a replica run one call   *)
(* at a time for a name, so a call is identified by a slot                 *)
(* <<replica, name>>; expire, the element after etcd, keeps a timer for    *)
(* each slot.  Endpoints of other domains never get to etcd.               *)
(***************************************************************************)
EXTENDS TypedClient, Sequences, FiniteSets

CONSTANTS Replicas,    \* the registry servers
          Homes,       \* the placements: Replicas -> namespace it registers into
          Names,       \* the names of endpoints
          Times,       \* the expiration times of requests, 0 when it is nil
          ApiFaults,   \* whether requests and answers can be lost
          MaxVersion,  \* bound: how many writes the store ever sees
          MaxTime,     \* bound: the last value of the clock
          MaxJobs,     \* bound: the length of the queue of a deleteExecutor
          MaxRestarts  \* bound: how often a replica is restarted, in all

Chain == INSTANCE RegistryChain WITH Interdomain <- {}, Everyone <- Replicas

ASSUME RegistrationAssumption ==
    /\ \A h \in Homes : DOMAIN h = Replicas
    \* A slot stands for a call, and expire sees the version etcd was given.
    /\ \A n \in Names :
          /\ Chain!Precedes("begin", "etcd", Chain!NSEElements(n, {}))
          /\ Chain!Precedes("etcd", "expire", Chain!NSEElements(n, {}))
    \* An endpoint without a name is given one by the API server: left out.
    /\ NoName \notin Names
    /\ Times \subseteq Nat
    /\ ApiFaults \in BOOLEAN
    /\ MaxVersion \in Nat
    /\ MaxTime \in Nat
    /\ MaxJobs \in Nat
    /\ MaxRestarts \in Nat

VARIABLES
    home,        \* the placement, chosen once
    store,       \* the NetworkServiceEndpoint objects
    revision,    \* the resourceVersion of the last write
    now,         \* the clock, the same everywhere
    call,        \* call[x]: the chain call that runs in slot x
    restarts,    \* how many restarts there were
    timer,       \* timer[x]: the version the expire element watches over
    observed,    \* observed[r]: objects that Find or the watch of r has read
    deleteJobs,  \* deleteJobs[r]: the queue of deleteExecutor
    result,      \* history: how the last Register in a slot ended
    interfered   \* history: somebody else changed the key since Create failed

gcVars  == <<observed, deleteJobs>>
history == <<result, interfered>>
vars == <<home, store, revision, now, call, restarts, timer, gcVars, history>>

Slots == Replicas \X Names
Keys == {h[r] : h \in Homes, r \in Replicas} \X Names
KeyAt(x) == <<home[x[1]], x[2]>>

Object == [version : 1 .. MaxVersion, by : Replicas, expires : Times]
Job == [name : Names, version : 1 .. MaxVersion]

Idle == [pc |-> "idle"]
Call == {Idle}
        \cup [pc : {"create", "get"}, expires : Times]
        \cup [pc : {"update"}, expires : Times, got : 1 .. MaxVersion]
        \cup [pc : {"next"}, version : 1 .. MaxVersion]
        \cup [pc : {"delete"}, cause : {"caller", "timer"}, version : 0 .. MaxVersion]

TypeOK ==
    /\ home \in Homes
    /\ store \in [Keys -> Object \cup {NoObject}]
    /\ revision \in 0 .. MaxVersion
    /\ now \in 0 .. MaxTime
    /\ call \in [Slots -> Call]
    /\ restarts \in 0 .. MaxRestarts
    /\ timer \in [Slots -> 0 .. MaxVersion]
    /\ observed \in [Replicas -> SUBSET [key : Keys, object : Object]]
    /\ deleteJobs \in [Replicas -> Seq(Job)]
    /\ result \in [Slots -> {"none", "ok", "conflict", "fault"}]
    /\ interfered \in [Slots -> BOOLEAN]

Init ==
    /\ home \in Homes
    /\ store = [k \in Keys |-> NoObject]
    /\ revision = 0
    /\ now = 0
    /\ call = [x \in Slots |-> Idle]
    /\ restarts = 0
    /\ timer = [x \in Slots |-> 0]
    /\ observed = [r \in Replicas |-> {}]
    /\ deleteJobs = [r \in Replicas |-> <<>>]
    /\ result = [x \in Slots |-> "none"]
    /\ interfered = [x \in Slots |-> FALSE]
-----------------------------------------------------------------------------
(***************************************************************************)
(* The API server.                                                         *)
(***************************************************************************)
\* Everyone else whose Register works on the key k is interfered with.
Changed(k, x) ==
    interfered' = [y \in Slots |-> interfered[y] \/ (KeyAt(y) = k /\ y # x)]

Write(k, x, expires) ==
    /\ store' = [store EXCEPT ![k] =
                     [version |-> revision + 1, by |-> x[1], expires |-> expires]]
    /\ revision' = revision + 1
    /\ Changed(k, x)

\* A Delete with Preconditions.ResourceVersion is carried out; version 0 is none.
Deletable(k, version) == Accepted(EndpointDelete(k[1], k[2], version), store)

Erase(k, x) ==
    /\ store' = [store EXCEPT ![k] = NoObject]
    /\ Changed(k, x)
    /\ UNCHANGED revision
-----------------------------------------------------------------------------
(***************************************************************************)
(* Register.                                                               *)
(***************************************************************************)
SetCall(x, c) == call' = [call EXCEPT ![x] = c]

End(x, outcome) ==
    /\ SetCall(x, Idle)
    /\ result' = [result EXCEPT ![x] = outcome]

InFlight == {x \in Slots : call[x].pc \in {"create", "get", "update"}}

Register(x, expires) ==
    /\ call[x] = Idle
    /\ revision + Cardinality(InFlight) < MaxVersion
    /\ SetCall(x, [pc |-> "create", expires |-> expires])
    /\ result' = [result EXCEPT ![x] = "none"]
    /\ UNCHANGED <<home, restarts, store, revision, now, timer, gcVars, interfered>>

\* The answer to a write that was made: it arrives, or is lost.
Answered(x) ==
    \/ SetCall(x, [pc |-> "next", version |-> revision']) /\ UNCHANGED result
    \/ ApiFaults /\ End(x, "fault")

CreateRequest(x) == EndpointCreate(home[x[1]], x[2])

Create(x) ==
    /\ call[x].pc = "create"
    /\ Accepted(CreateRequest(x), store)
    /\ Write(KeyAt(x), x, call[x].expires)
    /\ Answered(x)
    /\ UNCHANGED <<home, restarts, now, timer, gcVars>>

AlreadyExists(x) ==
    /\ call[x].pc = "create"
    /\ ~Accepted(CreateRequest(x), store)
    /\ SetCall(x, [pc |-> "get", expires |-> call[x].expires])
    /\ interfered' = [interfered EXCEPT ![x] = FALSE]
    /\ UNCHANGED <<home, restarts, store, revision, now, timer, gcVars, result>>

GetRequest(x) == EndpointGet(home[x[1]], x[2])

\* Mutant of Get: a cache that may not have seen the object is asked.
GetCached(x) ==
    /\ call[x].pc = "get"
    /\ Accepted(GetRequest(x), store)
    /\ \/ /\ [key |-> KeyAt(x), object |-> store[KeyAt(x)]] \in observed[x[1]]
          /\ SetCall(x, [pc |-> "update", expires |-> call[x].expires,
                         got |-> store[KeyAt(x)].version])
          /\ UNCHANGED result
       \/ /\ [key |-> KeyAt(x), object |-> store[KeyAt(x)]] \notin observed[x[1]]
          /\ End(x, "conflict")
    /\ UNCHANGED <<home, restarts, store, revision, now, timer, gcVars, interfered>>

Get(x) ==
    /\ call[x].pc = "get"
    /\ Accepted(GetRequest(x), store)
    /\ SetCall(x, [pc |-> "update", expires |-> call[x].expires,
                   got |-> store[KeyAt(x)].version])
    /\ UNCHANGED <<home, restarts, store, revision, now, timer, gcVars, history>>

\* The object is gone again.  The typed client returns an empty object, never
\* nil, next to the NotFound error; the Update that Register tries with it has
\* no name, and the client refuses it without a request.
GetMissing(x) ==
    /\ call[x].pc = "get"
    /\ ~Accepted(GetRequest(x), store)
    /\ End(x, "conflict")
    /\ UNCHANGED <<home, restarts, store, revision, now, timer, gcVars, interfered>>

\* The object that Get returned is sent back with its version.
UpdateRequest(x) == EndpointUpdate(home[x[1]], [name |-> x[2], version |-> call[x].got])

Update(x) ==
    /\ call[x].pc = "update"
    /\ Accepted(UpdateRequest(x), store)
    /\ Write(KeyAt(x), x, call[x].expires)
    /\ Answered(x)
    /\ UNCHANGED <<home, restarts, now, timer, gcVars>>

\* NotFound or Conflict: Register gives up.
UpdateRefused(x) ==
    /\ call[x].pc = "update"
    /\ ~Accepted(UpdateRequest(x), store)
    /\ End(x, "conflict")
    /\ UNCHANGED <<home, restarts, store, revision, now, timer, gcVars, interfered>>

\* A request of Register is lost: any error but AlreadyExists ends it, that of
\* Get by way of the refused Update of GetMissing.
RegisterFault(x) ==
    /\ ApiFaults
    /\ x \in InFlight
    /\ End(x, "fault")
    /\ UNCHANGED <<home, restarts, store, revision, now, timer, gcVars, interfered>>

\* Mutant of RegisterNext: expire reads the version from the store again.
RegisterNextReread(x) ==
    /\ call[x].pc = "next"
    /\ timer' = [timer EXCEPT ![x] =
                     IF KeyAt(x) \in Stored(store) THEN store[KeyAt(x)].version
                     ELSE call[x].version]
    /\ End(x, "ok")
    /\ UNCHANGED <<home, restarts, store, revision, now, gcVars, interfered>>

\* next.Register: expire watches over the version it finds in the context.
RegisterNext(x) ==
    /\ call[x].pc = "next"
    /\ timer' = [timer EXCEPT ![x] = call[x].version]
    /\ End(x, "ok")
    /\ UNCHANGED <<home, restarts, store, revision, now, gcVars, interfered>>
-----------------------------------------------------------------------------
(***************************************************************************)
(* Unregister: expire first drops its timer, then the object is deleted.   *)
(* A caller's Unregister carries no version; the one of the timer carries  *)
(* the version of the Register that set it.                                *)
(***************************************************************************)
BeginUnregister(x, cause, version) ==
    /\ call[x] = Idle
    /\ SetCall(x, [pc |-> "delete", cause |-> cause, version |-> version])
    /\ timer' = [timer EXCEPT ![x] = 0]
    /\ UNCHANGED <<home, restarts, store, revision, now, gcVars, history>>

Unregister(x) == BeginUnregister(x, "caller", 0)

\* Mutant of TimerFires: the version is not carried over to Unregister.
TimerFiresUnversioned(x) ==
    /\ timer[x] # 0
    /\ BeginUnregister(x, "timer", 0)

TimerFires(x) ==
    /\ timer[x] # 0
    /\ BeginUnregister(x, "timer", timer[x])

\* The Delete is made.
Delete(x) ==
    /\ call[x].pc = "delete"
    /\ Deletable(KeyAt(x), call[x].version)
    /\ Erase(KeyAt(x), x)
    /\ SetCall(x, Idle)
    /\ UNCHANGED <<home, restarts, now, timer, gcVars, result>>

\* NotFound, Conflict or a lost request: Unregister logs it and returns.
DeleteRefused(x) ==
    /\ call[x].pc = "delete"
    /\ ApiFaults \/ ~Deletable(KeyAt(x), call[x].version)
    /\ SetCall(x, Idle)
    /\ UNCHANGED <<home, restarts, store, revision, now, timer, gcVars, history>>
-----------------------------------------------------------------------------
(***************************************************************************)
(* The collection of expired objects.                                      *)
(***************************************************************************)
Expired(expires) == expires # 0 /\ expires < now

\* Replica r reads an object of any namespace: an item of the List of a Find,
\* an event of watchRemoteStorage, or the Added event that the API server
\* sends for each object whenever the watch is opened again.
Observe(r, k) ==
    /\ k \in Selected(EndpointList(AllNamespaces), store)
    /\ observed' = [observed EXCEPT ![r] = @ \cup {[key |-> k, object |-> store[k]]}]
    /\ UNCHANGED <<home, restarts, store, revision, now, call, timer, deleteJobs, history>>

\* Mutant of DeleteJob: the Delete has no Preconditions.
DeleteJobUnversioned(o) == [name |-> o.key[2], version |-> 0]

DeleteJob(o) == [name |-> o.key[2], version |-> o.object.version]

\* Mutant of Examine: a replica collects only what its own timers know of.
ExamineOwn(r, o) ==
    /\ o \in observed[r]
    /\ observed' = [observed EXCEPT ![r] = @ \ {o}]
    /\ IF Expired(o.object.expires) /\ o.object.by = r /\ timer[<<r, o.key[2]>>] # 0
       THEN /\ Len(deleteJobs[r]) < MaxJobs
            /\ deleteJobs' = [deleteJobs EXCEPT ![r] = Append(@, DeleteJob(o))]
       ELSE UNCHANGED deleteJobs
    /\ UNCHANGED <<home, restarts, store, revision, now, call, timer, history>>

\* The loop of Find or of watchRemoteStorage gets to what was read.
Examine(r, o) ==
    /\ o \in observed[r]
    /\ observed' = [observed EXCEPT ![r] = @ \ {o}]
    /\ IF Expired(o.object.expires)
       THEN /\ Len(deleteJobs[r]) < MaxJobs
            /\ deleteJobs' = [deleteJobs EXCEPT ![r] = Append(@, DeleteJob(o))]
       ELSE UNCHANGED deleteJobs
    /\ UNCHANGED <<home, restarts, store, revision, now, call, timer, history>>

\* The jobs delete in the namespace of the replica, whatever namespace the
\* object was read in.
JobKey(r) == <<home[r], Head(deleteJobs[r]).name>>

NextJob(r) ==
    /\ deleteJobs[r] # <<>>
    /\ deleteJobs' = [deleteJobs EXCEPT ![r] = Tail(@)]

Collect(r) ==
    /\ NextJob(r)
    /\ Deletable(JobKey(r), Head(deleteJobs[r]).version)
    /\ Erase(JobKey(r), <<>>)
    /\ UNCHANGED <<home, restarts, now, call, timer, observed, result>>

\* The error of the Delete is dropped.
CollectRefused(r) ==
    /\ NextJob(r)
    /\ ApiFaults \/ ~Deletable(JobKey(r), Head(deleteJobs[r]).version)
    /\ UNCHANGED <<home, restarts, store, revision, now, call, timer, observed, history>>
-----------------------------------------------------------------------------
\* The process of replica r is restarted: its calls, timers and queues are
\* gone, its callers see a broken stream.
Restart(r) ==
    /\ restarts < MaxRestarts
    /\ restarts' = restarts + 1
    /\ call' = [x \in Slots |-> IF x[1] = r THEN Idle ELSE call[x]]
    /\ timer' = [x \in Slots |-> IF x[1] = r THEN 0 ELSE timer[x]]
    /\ observed' = [observed EXCEPT ![r] = {}]
    /\ deleteJobs' = [deleteJobs EXCEPT ![r] = <<>>]
    /\ result' = [x \in Slots |-> IF x[1] = r THEN "none" ELSE result[x]]
    /\ UNCHANGED <<home, store, revision, now, interfered>>

Tick ==
    /\ now < MaxTime
    /\ now' = now + 1
    /\ UNCHANGED <<home, restarts, store, revision, call, timer, gcVars, history>>

RegisterStep(x) ==
    \/ Create(x) \/ AlreadyExists(x)
    \/ Get(x) \/ GetMissing(x)
    \/ Update(x) \/ UpdateRefused(x)
    \/ RegisterNext(x)

Next ==
    \/ \E x \in Slots :
          \/ \E expires \in Times : Register(x, expires)
          \/ RegisterStep(x)
          \/ RegisterFault(x)
          \/ Unregister(x)
          \/ TimerFires(x)
          \/ Delete(x) \/ DeleteRefused(x)
    \/ \E r \in Replicas :
          \/ \E k \in Keys : Observe(r, k)
          \/ \E o \in observed[r] : Examine(r, o)
          \/ Collect(r) \/ CollectRefused(r)
          \/ Restart(r)
    \/ Tick

Spec == Init /\ [][Next]_vars

(***************************************************************************)
(* Time passes, the executors work, and every object is read again and     *)
(* again: the watch ends after timeoutSeconds and is opened anew, without  *)
(* a resourceVersion, which makes the API server send all objects.  What is *)
(* read is examined in order; strong fairness only makes up for the bound  *)
(* MaxJobs, behind which an examination may have to wait.                  *)
(***************************************************************************)
Fairness ==
    /\ WF_vars(Tick)
    /\ \A x \in Slots : WF_vars(Delete(x) \/ DeleteRefused(x))
    /\ \A r \in Replicas :
          /\ WF_vars(Collect(r) \/ CollectRefused(r))
          /\ \A k \in Keys : WF_vars(Observe(r, k))
          /\ \A k \in Keys : SF_vars(\E o \in observed[r] : o.key = k /\ Examine(r, o))

FairSpec == Spec /\ Fairness
-----------------------------------------------------------------------------
(***************************************************************************)
(* Properties.                                                             *)
(***************************************************************************)

\* A queued Delete of deleteExecutor that would still find the version it was
\* queued for finds an expired object: no refresh, and no namesake in another
\* namespace, is deleted in its place, however late the job runs.
JobsNameExpired ==
    \A r \in Replicas : \A i \in 1 .. Len(deleteJobs[r]) :
        LET job == deleteJobs[r][i]
            k == <<home[r], job.name>>
        IN  Deletable(k, job.version) => Expired(store[k].expires)

\* An expiry timer that can still delete something deletes what its own slot
\* registered: never the refresh another replica wrote under the same name.
TimerOwnsVersion ==
    \A x \in Slots :
        timer[x] # 0 /\ Deletable(KeyAt(x), timer[x]) => store[KeyAt(x)].by = x[1]

\* Register tries once: it fails for a reason other than a lost request only
\* when somebody else changed the object between its Create and its Update.
ConflictHasCause ==
    \A x \in Slots : result[x] = "conflict" => interfered[x]

\* The entries as AtomicRegistry knows them.
AbstractCall(c) ==
    CASE c.pc = "idle" -> [op |-> "none"]
      [] c.pc \in {"create", "get", "update"} -> [op |-> "register", expires |-> c.expires]
      [] c.pc = "next" -> [op |-> "registered", version |-> c.version]
      [] c.pc = "delete" -> [op |-> "remove", cause |-> c.cause, version |-> c.version]

AtomicRefined ==
    INSTANCE AtomicRegistry WITH
        NoEntry <- NoObject,
        entry <- store,
        serial <- revision,
        call <- [x \in Slots |-> AbstractCall(call[x])],
        owned <- timer

\* Create, Get and Update of several replicas, their timers and the collection
\* of expired objects together behave as AtomicRegistry promises.
ImplementsAtomicRegistry == AtomicRefined!Spec

\* An expired object in the namespace of a replica is deleted or registered
\* anew in the end, even if the replica that registered it was restarted and
\* lost its timer.
ExpiredCollected ==
    \A k \in Keys :
        (k \in Stored(store) /\ Expired(store[k].expires))
            ~> (k \notin Stored(store) \/ ~Expired(store[k].expires))
=============================================================================
