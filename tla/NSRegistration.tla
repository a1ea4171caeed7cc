--------------------------- MODULE NSRegistration ---------------------------
(***************************************************************************)
(* Services from their Register to the callers of Find:                    *)
(* etcdNSRegistryServer (pkg/registry/etcd/ns_server.go) behind the chain  *)
(* of registryk8s, over the generated client.                              *)
(*                                                                         *)
(* One server is modelled with its watchRemoteStorage and its Finds.       *)
(* Register and Unregister only touch the API server, so their clients may *)
(* use this server or another replica.  The fan-out between                *)
(* watchRemoteStorage and a Find is NSFanout, which drops nothing: here an *)
(* event reaches every subscribed caller at once.                          *)
(***************************************************************************)
EXTENDS TypedClient, RegistryChain, FiniteSets

CONSTANTS Clients,      \* the callers of Register and Unregister
          Homes,        \* the placements: Clients -> namespace of their replica
          Requests,     \* Requests[x]: the services that x registers
          Options,      \* the options of NewServer
          Callers,      \* the Find(Watch) calls, whose queries match every service
          ApiFaults,    \* whether requests and answers can be lost
          MaxSleep,     \* maxSleepTime in units of minSleepTime
          MaxBreaks,    \* bound: how often the connection of the watch breaks
          MaxVersion    \* bound: how many writes the store ever sees

ASSUME NSRegistrationAssumption ==
    /\ \A h \in Homes : DOMAIN h = Clients
    /\ DOMAIN Requests = Clients
    \* A service without a name is given one by the API server: left out.
    /\ \A x \in Clients : NoName \notin Requests[x]
    /\ ApiFaults \in BOOLEAN
    /\ MaxSleep \in Nat \ {0}
    /\ MaxBreaks \in Nat
    /\ MaxVersion \in Nat
    \* Calls for one service may overlap within a replica: no begin holds them.
    /\ \A x \in Clients : \A n \in Requests[x] : ~Precedes("begin", "etcd", NSElements(n))

ASSUME OptionsAssumption == Options \in Seq(Option)

VARIABLES
    home,        \* the placement, chosen once
    store,       \* the NetworkService objects
    revision,    \* the resourceVersion of the last write
    call,        \* call[x]: the chain call of client x
    remote,      \* where watchRemoteStorage stands
    sleep,       \* its sleepTime
    events,      \* the events in its watch that it has not received yet
    breaks,      \* how often the connection of the watch broke
    find,        \* find[c]: where the Find of c stands
    view,        \* view[c][n]: the version of service n that c was sent last, 0 if
                 \* none or if it was sent the deletion
    result,      \* history: how the last Register or Unregister of a client ended
    interfered,  \* history: somebody else changed the key since Create failed
    missed       \* history: missed[c]: services with a change c was not sent

vars == <<home, store, revision, call, remote, sleep, events, breaks, find, view,
          result, interfered, missed>>
clientVars == <<call, result, interfered>>
watchVars  == <<remote, sleep, events, breaks>>
findVars   == <<find, view, missed>>

Names == UNION {Requests[x] : x \in Clients}
Keys == {h[x] : h \in Homes, x \in Clients} \X Names

Versions == 1 .. MaxVersion
Object == [name : Names, version : Versions, by : Clients]
Event == [type : {"added", "modified", "deleted", "error"},
          name : Names \cup {NoName}, version : 0 .. MaxVersion]

\* A free key is told apart from every object.
ASSUME NoObjectAssumption == NoObject \notin Object

Idle == [pc |-> "idle"]
Call == {Idle}
        \cup [pc : {"create", "get", "delete"}, name : Names]
        \cup [pc : {"update"}, name : Names, got : {Empty} \cup Object, lost : BOOLEAN]

TypeOK ==
    /\ home \in Homes
    /\ store \in [Keys -> Object \cup {NoObject}]
    /\ revision \in 0 .. MaxVersion
    /\ call \in [Clients -> Call]
    /\ remote \in {"opening", "open", "ended", "returned"}
    /\ sleep \in 1 .. MaxSleep
    /\ events \in Seq(Event)
    /\ breaks \in 0 .. MaxBreaks
    /\ find \in [Callers -> {"idle", "listed", "watching", "ended", "failed"}]
    /\ view \in [Callers -> [Names -> 0 .. MaxVersion]]
    /\ result \in [Clients -> {"none", "ok", "conflict", "missing", "fault", "denied"}]
    /\ interfered \in [Clients -> BOOLEAN]
    /\ missed \in [Callers -> SUBSET Names]

Init ==
    /\ home \in Homes
    /\ store = [k \in Keys |-> NoObject]
    /\ revision = 0
    /\ call = [x \in Clients |-> Idle]
    /\ remote = "opening"
    /\ sleep = 1
    /\ events = <<>>
    /\ breaks = 0
    /\ find = [c \in Callers |-> "idle"]
    /\ view = [c \in Callers |-> [n \in Names |-> 0]]
    /\ result = [x \in Clients |-> "none"]
    /\ interfered = [x \in Clients |-> FALSE]
    /\ missed = [c \in Callers |-> {}]
-----------------------------------------------------------------------------
(***************************************************************************)
(* The API server: a write or a deletion, and the event of it.             *)
(***************************************************************************)
EventOf(type, object) == [type |-> type, name |-> object.name, version |-> object.version]

Listing(c) == find[c] \in {"listed", "watching"}

\* A change while the watch is closed is missed by every Find under way.
Notify(type, object) ==
    IF remote = "open"
    THEN /\ events' = Append(events, EventOf(type, object))
         /\ missed' = [c \in Callers |-> IF find[c] = "watching" THEN missed[c] \ {object.name}
                                         ELSE missed[c]]
    ELSE /\ missed' = [c \in Callers |-> IF Listing(c) THEN missed[c] \cup {object.name}
                                         ELSE missed[c]]
         /\ UNCHANGED events

\* Every other client whose Register works on the key k is interfered with.
Changed(k, x) ==
    interfered' = [y \in Clients |->
        interfered[y] \/ (y # x /\ call[y] # Idle /\ <<home[y], call[y].name>> = k)]

Write(type, x) ==
    LET k == <<home[x], call[x].name>>
        object == [name |-> call[x].name, version |-> revision + 1, by |-> x]
    IN  /\ store' = [store EXCEPT ![k] = object]
        /\ revision' = revision + 1
        /\ Notify(type, object)
        /\ Changed(k, x)

SetCall(x, c) == call' = [call EXCEPT ![x] = c]

End(x, outcome) ==
    /\ SetCall(x, Idle)
    /\ result' = [result EXCEPT ![x] = outcome]

\* The answer to a request that was carried out arrives, or is lost.
Answered(x) == End(x, "ok") \/ (ApiFaults /\ End(x, "fault"))
-----------------------------------------------------------------------------
(***************************************************************************)
(* Register and Unregister.                                                *)
(***************************************************************************)
Opts == ServerOptions(Options)

InFlight == {x \in Clients : call[x].pc \in {"create", "get", "update"}}

\* The call passes authorize and its branch ends at etcd.
ReachesEtcd(x, n) ==
    /\ call[x] = Idle
    /\ x \in Opts.nsServer
    /\ Precedes("authorize", "etcd", NSElements(n))

Register(x, n) ==
    /\ ReachesEtcd(x, n)
    /\ revision + Cardinality(InFlight) < MaxVersion
    /\ SetCall(x, [pc |-> "create", name |-> n])
    /\ result' = [result EXCEPT ![x] = "none"]
    /\ UNCHANGED <<home, store, revision, watchVars, findVars, interfered>>

Unregister(x, n) ==
    /\ ReachesEtcd(x, n)
    /\ SetCall(x, [pc |-> "delete", name |-> n])
    /\ result' = [result EXCEPT ![x] = "none"]
    /\ UNCHANGED <<home, store, revision, watchVars, findVars, interfered>>

\* authorize refuses the call, or it is answered by the proxy registry.
EndsElsewhere(x, n) ==
    /\ call[x] = Idle
    /\ ~ReachesEtcd(x, n)
    /\ \/ x \notin Opts.nsServer /\ End(x, "denied")
       \/ /\ Precedes("authorize", "connect", NSElements(n))
          /\ x \in Opts.nsServer
          /\ End(x, IF x \in Opts.nsClient THEN "ok" ELSE "denied")
    /\ UNCHANGED <<home, store, revision, watchVars, findVars, interfered>>

CreateRequest(x) == ServiceCreate(home[x], call[x].name)

Create(x) ==
    /\ call[x].pc = "create"
    /\ Accepted(CreateRequest(x), store)
    /\ Write("added", x)
    /\ Answered(x)
    /\ UNCHANGED <<home, remote, sleep, breaks, find, view>>

AlreadyExists(x) ==
    /\ call[x].pc = "create"
    /\ ~Accepted(CreateRequest(x), store)
    /\ SetCall(x, [call[x] EXCEPT !.pc = "get"])
    /\ interfered' = [interfered EXCEPT ![x] = FALSE]
    /\ UNCHANGED <<home, store, revision, watchVars, findVars, result>>

GotObject(x, object, lost) ==
    /\ SetCall(x, [pc |-> "update", name |-> call[x].name, got |-> object, lost |-> lost])
    /\ UNCHANGED <<home, store, revision, watchVars, findVars, result, interfered>>

\* After an error of Get the client's empty object is used: it is not nil.
Get(x) ==
    LET q == ServiceGet(home[x], call[x].name) IN
    /\ call[x].pc = "get"
    /\ \/ Accepted(q, store) /\ GotObject(x, store[KeyIn(q)], FALSE)
       \/ ~Accepted(q, store) /\ GotObject(x, Empty, FALSE)
       \/ ApiFaults /\ GotObject(x, Empty, TRUE)

\* Mutant of UpdateRequest: the object is built anew, without the version.
UpdateRequestFresh(x) ==
    ServiceUpdate(home[x], [name |-> call[x].name, version |-> 0])

UpdateRequest(x) == ServiceUpdate(home[x], call[x].got)

Update(x) ==
    /\ call[x].pc = "update"
    /\ Accepted(UpdateRequest(x), store)
    /\ Write("modified", x)
    /\ Answered(x)
    /\ UNCHANGED <<home, remote, sleep, breaks, find, view>>

\* Conflict, NotFound, or the empty name: Register fails.
UpdateRefused(x) ==
    /\ call[x].pc = "update"
    /\ ~Accepted(UpdateRequest(x), store)
    /\ End(x, IF call[x].lost THEN "fault" ELSE "conflict")
    /\ UNCHANGED <<home, store, revision, watchVars, findVars, interfered>>

\* Unregister deletes whatever version there is.
DeleteRequest(x) == ServiceDelete(home[x], call[x].name, 0)

Delete(x) ==
    LET q == DeleteRequest(x) IN
    /\ call[x].pc = "delete"
    /\ Accepted(q, store)
    /\ Notify("deleted", store[KeyIn(q)])
    /\ Changed(KeyIn(q), x)
    /\ store' = [store EXCEPT ![KeyIn(q)] = NoObject]
    /\ Answered(x)
    /\ UNCHANGED <<home, revision, remote, sleep, breaks, find, view>>

\* NotFound is an error of Unregister, unlike in the server of endpoints.
DeleteRefused(x) ==
    /\ call[x].pc = "delete"
    /\ ~Accepted(DeleteRequest(x), store)
    /\ End(x, "missing")
    /\ UNCHANGED <<home, store, revision, watchVars, findVars, interfered>>

\* A request is lost on its way.
RequestLost(x) ==
    /\ ApiFaults
    /\ call[x].pc \in {"create", "update", "delete"}
    /\ End(x, "fault")
    /\ UNCHANGED <<home, store, revision, watchVars, findVars, interfered>>
-----------------------------------------------------------------------------
(***************************************************************************)
(* watchRemoteStorage.                                                     *)
(***************************************************************************)
\* Mutant of WatchRequest: without timeoutSeconds.
WatchRequestForever == ServiceWatch(AllNamespaces, 0)

WatchRequest == ServiceWatch(AllNamespaces, 60)

NamesIn(es) == {es[i].name : i \in DOMAIN es}

\* Mutant of Replay: the watch starts with what happens from now on.
ReplayNothing(q) == <<>>

\* Without a resourceVersion the watch starts with an event for each object.
Replay(q) ==
    LET keys == SetToSeq(Selected(q, store)) IN
    [i \in DOMAIN keys |-> EventOf("added", store[keys[i]])]

\* A Find that is subscribed by now will be sent what the watch starts with.
OpenWatch ==
    /\ remote = "opening"
    /\ remote' = "open"
    /\ sleep' = 1
    /\ events' = Replay(WatchRequest)
    /\ missed' = [c \in Callers |->
                     IF find[c] = "watching"
                     THEN missed[c] \ {k[2] : k \in Selected(WatchRequest, store)}
                     ELSE missed[c]]
    /\ UNCHANGED <<home, store, revision, clientVars, breaks, find, view>>

Backoff(s) == IF s + 1 > MaxSleep THEN MaxSleep ELSE s + 1

OpenFails ==
    /\ ApiFaults
    /\ remote = "opening"
    /\ sleep' = Backoff(sleep)
    /\ UNCHANGED <<home, store, revision, clientVars, remote, events, breaks, findVars>>

After(e) == IF e.type = "deleted" THEN 0 ELSE e.version

\* The list a caller was sent is as new as the event e.
Reflected(e, v) == IF e.type = "deleted" THEN v = 0 \/ v > e.version ELSE v >= e.version

\* The next event becomes a sendEvent: it reaches those who have subscribed, and
\* is lost for those who have listed but not subscribed yet.
Broadcast ==
    LET e == Head(events) IN
    /\ remote \in {"open", "ended"}
    /\ events # <<>>
    /\ events' = Tail(events)
    /\ IF e.type = "error"
       THEN UNCHANGED <<view, missed>>
       ELSE /\ view' = [c \in Callers |-> IF find[c] = "watching"
                                          THEN [view[c] EXCEPT ![e.name] = After(e)]
                                          ELSE view[c]]
            /\ missed' = [c \in Callers |->
                   IF find[c] = "listed" /\ ~Reflected(e, view[c][e.name])
                   THEN missed[c] \cup {e.name} ELSE missed[c]]
    /\ UNCHANGED <<home, store, revision, clientVars, remote, sleep, breaks, find>>

EndWatch(rest, broken) ==
    /\ remote = "open"
    /\ remote' = "ended"
    /\ breaks' = breaks + broken
    /\ missed' = [c \in Callers |->
                     IF Listing(c)
                     THEN missed[c] \cup NamesIn(SubSeq(events, Len(rest) + 1, Len(events)))
                     ELSE missed[c]]
    /\ UNCHANGED <<home, store, revision, clientVars, sleep, find, view>>

\* The API server ends the watch after the timeoutSeconds of the request.
TimesOut ==
    /\ WatchRequest.timeout # 0
    /\ events' = events
    /\ EndWatch(events, 0)

\* The connection breaks and takes events with it.  An event that holds no
\* object, a Status, may come last.
Breaks ==
    /\ breaks < MaxBreaks
    /\ \E n \in 0 .. Len(events) :
          /\ EndWatch(SubSeq(events, 1, n), 1)
          /\ \/ events' = SubSeq(events, 1, n)
             \/ events' = Append(SubSeq(events, 1, n), EventOf("error", Empty))

\* The channel is closed and drained: around the loop once more.
Reopen ==
    /\ remote = "ended"
    /\ events = <<>>
    /\ remote' = "opening"
    /\ UNCHANGED <<home, store, revision, clientVars, sleep, events, breaks, findVars>>

\* chainContext is done.
Return ==
    /\ remote # "returned"
    /\ remote' = "returned"
    /\ events' = <<>>
    /\ missed' = [c \in Callers |-> IF Listing(c) THEN missed[c] \cup (NamesIn(events) \ {NoName})
                                    ELSE missed[c]]
    /\ UNCHANGED <<home, store, revision, clientVars, sleep, breaks, find, view>>

WatchRemoteStorage == OpenWatch \/ Broadcast \/ Reopen
-----------------------------------------------------------------------------
(***************************************************************************)
(* Find.                                                                   *)
(***************************************************************************)
ListRequest == ServiceList(AllNamespaces)

\* What a List says of a service; of namesakes in two namespaces, either.
ListedVersions(n) ==
    LET ks == {k \in Selected(ListRequest, store) : k[2] = n} IN
    IF ks = {} THEN {0} ELSE {store[k].version : k \in ks}

\* What an ended watch still holds may be older than the list, without the
\* event that would make up for it.
List(c) ==
    /\ find[c] = "idle"
    /\ find' = [find EXCEPT ![c] = "listed"]
    /\ \E v \in [Names -> 0 .. revision] :
          /\ \A n \in Names : v[n] \in ListedVersions(n)
          /\ view' = [view EXCEPT ![c] = v]
    /\ missed' = [missed EXCEPT ![c] = IF remote = "ended" THEN NamesIn(events) \ {NoName}
                                       ELSE {}]
    /\ UNCHANGED <<home, store, revision, clientVars, watchVars>>

\* The request, or a Send, fails.
FindFails(c) ==
    /\ ApiFaults
    /\ find[c] \in {"idle", "listed", "watching"}
    /\ find' = [find EXCEPT ![c] = "failed"]
    /\ UNCHANGED <<home, store, revision, clientVars, watchVars, view, missed>>

\* What the watch still holds for the next Broadcasts, c will be sent.
Subscribe(c) ==
    /\ find[c] = "listed"
    /\ find' = [find EXCEPT ![c] = "watching"]
    /\ missed' = [missed EXCEPT ![c] = IF remote = "open" THEN @ \ NamesIn(events) ELSE @]
    /\ UNCHANGED <<home, store, revision, clientVars, watchVars, view>>

\* The caller leaves.
Leave(c) ==
    /\ find[c] = "watching"
    /\ find' = [find EXCEPT ![c] = "ended"]
    /\ UNCHANGED <<home, store, revision, clientVars, watchVars, view, missed>>
-----------------------------------------------------------------------------
Next ==
    \/ \E x \in Clients :
          \/ \E n \in Requests[x] : Register(x, n) \/ Unregister(x, n) \/ EndsElsewhere(x, n)
          \/ Create(x) \/ AlreadyExists(x)
          \/ Get(x)
          \/ Update(x) \/ UpdateRefused(x)
          \/ Delete(x) \/ DeleteRefused(x)
          \/ RequestLost(x)
    \/ WatchRemoteStorage
    \/ OpenFails
    \/ TimesOut
    \/ Breaks
    \/ Return
    \/ \E c \in Callers : List(c) \/ FindFails(c) \/ Subscribe(c) \/ Leave(c)

Spec == Init /\ [][Next]_vars

(***************************************************************************)
(* The loop of watchRemoteStorage runs; the API server answers a Watch in  *)
(* the end, and ends it after its timeoutSeconds, if the request has them. *)
(***************************************************************************)
Fairness ==
    /\ WF_vars(WatchRemoteStorage)
    /\ WatchRequest.timeout # 0 => WF_vars(TimesOut)

FairSpec == Spec /\ Fairness
-----------------------------------------------------------------------------
(***************************************************************************)
(* Properties.                                                             *)
(***************************************************************************)

\* Register tries once: it fails, no request lost, only when somebody else
\* changed the service between its Create and its Update.
ConflictHasCause ==
    \A x \in Clients : result[x] = "conflict" /\ call[x] = Idle => interfered[x]

\* The event i has the last word on service n.
LastOn(n, i) ==
    events[i].name = n /\ \A j \in i + 1 .. Len(events) : events[j].name # n

\* With the pending events a caller c comes to know service n as it is stored.
Knows(c, n) ==
    IF n \in NamesIn(events)
    THEN \E i \in 1 .. Len(events) : LastOn(n, i) /\ After(events[i]) \in ListedVersions(n)
    ELSE view[c][n] \in ListedVersions(n)

\* Once it has been sent the events in the watch, a subscribed caller knows the
\* version of each service that is stored, and of none that is not, but for
\* services whose last change it missed: the API server had no watch open, the
\* watch broke, the event was broadcast between the List and the subscription of
\* its Find, or an older one was left over from an ended watch.  What is stored is
\* made up for by the next opening of the watch, what was deleted is not.
KnowsUnlessMissed ==
    (\A x, y \in Clients : home[x] = home[y]) =>
        \A c \in Callers : \A n \in Names \ missed[c] :
            find[c] = "watching" => Knows(c, n)

\* Everything stored was registered by a client the last authorize option
\* admits, if there is one, under a name without a domain.
OnlyAdmittedLocal ==
    \A k \in Stored(store) :
        /\ k[2] \notin Interdomain
        /\ \A i \in DOMAIN Options :
              /\ Options[i].field = "nsServer"
              /\ \A j \in i + 1 .. Len(Options) : Options[j].field # "nsServer"
              => store[k].by \in Options[i].admits

\* A service that stays registered becomes known to every caller that goes on
\* watching, whatever it missed and wherever a namesake of it is deleted.
StoredBecomesKnown ==
    \A c \in Callers : \A n \in Names :
        (find[c] = "watching" /\ ListedVersions(n) # {0})
            ~> \/ find[c] # "watching" \/ remote = "returned"
               \/ ListedVersions(n) = {0}
               \/ view[c][n] \in ListedVersions(n)
=============================================================================
