-------------------------- MODULE InformerFactory --------------------------
(***************************************************************************)
(* The generated informer factory (pkg/tools/k8s/client/informers/         *)
(* externalversions) as clients share it: the maps of the factory, the     *)
(* informers it hands out, Start and WaitForCacheSync, and the listers     *)
(* that read what an informer holds.  The shared informer itself, a        *)
(* reflector that lists and watches and a queue of changes per key it      *)
(* fills, is external.                                                     *)
(*                                                                         *)
(* A resource version is a number: 1 is the store at the start, n + 1 the  *)
(* store after the n-th change.  A change of a key is known by the version *)
(* it gave the store, so a cache holds for a key the version of the last   *)
(* change it has taken in, 0 if it has heard nothing of the key.           *)
(***************************************************************************)
EXTENDS TypedClient, FiniteSets, SequencesExt

CONSTANTS
    Clients,     \* goroutines sharing the factory, each with a stopCh of its own
    Nobody,      \* not one of them
    Waiters,     \* the clients that call WaitForCacheSync; none sees another wait
    Keys,        \* pairs <<namespace, name>>; both resources start with all of them
    Uses,        \* uses of a factory: its options, and the types each client asks for
    Changing,    \* the pairs <<type, key>> that change
    MaxChanges   \* bound: changes of the two resources

\* The API types the factory knows, named by their resource.
Types == {"networkservices", "networkserviceendpoints"}

Namespaces == {AllNamespaces} \cup {k[1] : k \in Keys}

ASSUME ClientsAssumption == Nobody \notin Clients /\ MaxChanges \in Nat
ASSUME UsesAssumption ==
    /\ \A use \in Uses : use.options \in Seq(Namespaces) /\ use.wants \in [Clients -> SUBSET Types]
    /\ Changing \subseteq Types \X Keys

VARIABLES
    factory,    \* what the options left: the namespace the factory is limited to
    wants,      \* the types a client ever asks for
    log,        \* the changes of the resources, in order
    informers,  \* number of the informer the factory keeps for a type, 0 if none
    started,    \* startedInformers
    handed,     \* number of the informer of a type a client was handed, 0 if none
    called,     \* types a client had asked for when it last called Start
    closed,     \* clients whose stopCh is closed
    cache,      \* the informers made, pairs <<type, number>>, and the state of each
    waiting,    \* informers a client waits for in WaitForCacheSync, in its order
    answer      \* what WaitForCacheSync has put in a client's result

vars == <<factory, wants, log, informers, started, handed, called, closed, cache,
          waiting, answer>>

\* An informer that was made and not run: Run gives it the stopCh of a client;
\* at is the version it has read up to, queued and held the last change of a key
\* it has read and taken in, initial the keys of its first list still to take in.
NewInformer ==
    [stop |-> Nobody, at |-> 0, initial |-> {},
     queued |-> [k \in Keys |-> 0], held |-> [k \in Keys |-> 0]]
-----------------------------------------------------------------------------
(***************************************************************************)
(* The store.                                                              *)
(***************************************************************************)
Version == Len(log) + 1

\* The last change of a key up to version v; the first is the start's.
Changed(type, k, v) ==
    Max({1} \cup {n \in 2..v : log[n - 1].type = type /\ log[n - 1].key = k})

Object(k, n) ==
    IF n = 0 \/ (n > 1 /\ log[n - 1].gone) THEN NoObject
    ELSE [name |-> k[2], version |-> n]

StoreAt(type, v) == [k \in Keys |-> Object(k, Changed(type, k, v))]

\* Somebody puts an object under a key, or deletes the one there.
Change(type, k) ==
    /\ Len(log) < MaxChanges
    /\ \E gone \in {b \in BOOLEAN : b => StoreAt(type, Version)[k] # NoObject} :
          log' = Append(log, [type |-> type, key |-> k, gone |-> gone])
    /\ UNCHANGED <<factory, wants, informers, started, handed, called, closed,
                   cache, waiting, answer>>
-----------------------------------------------------------------------------
(***************************************************************************)
(* The options, and the two requests of an informer.                       *)
(***************************************************************************)
WithNamespace(f, namespace) == [f EXCEPT !.namespace = namespace]

NewSharedInformerFactoryWithOptions(options) ==
    FoldLeft(WithNamespace, [namespace |-> AllNamespaces], options)

\* The informers of a group and version, by the namespace each is made with.
V1(namespace) == [NetworkServices |-> namespace, NetworkServiceEndpoints |-> namespace]

\* The group is given the namespace of the factory.
Networkservicemesh == V1(factory.namespace)

\* The two requests of the informer of services, and of that of endpoints.  The
\* reflector sets the timeout of a watch; every one is taken to run out.
NewFilteredNetworkServiceInformer(namespace) ==
    [list |-> ServiceList(namespace), watch |-> ServiceWatch(namespace, 0)]

\* Mutant of NewFilteredNetworkServiceEndpointInformer: the watch forgets the namespace.
NewWideNetworkServiceEndpointInformer(namespace) ==
    [list |-> EndpointList(namespace), watch |-> EndpointWatch(AllNamespaces, 0)]

\* Another one: the watch is that of services.
NewMixedNetworkServiceEndpointInformer(namespace) ==
    [list |-> EndpointList(namespace), watch |-> ServiceWatch(namespace, 0)]

NewFilteredNetworkServiceEndpointInformer(namespace) ==
    [list |-> EndpointList(namespace), watch |-> EndpointWatch(namespace, 0)]

\* The newFunc each informer hands to InformerFor.
NewNetworkServices ==
    NewFilteredNetworkServiceInformer(Networkservicemesh.NetworkServices)
NewNetworkServiceEndpoints ==
    NewFilteredNetworkServiceEndpointInformer(Networkservicemesh.NetworkServiceEndpoints)

ListWatch(type) ==
    IF type = "networkservices" THEN NewNetworkServices ELSE NewNetworkServiceEndpoints
-----------------------------------------------------------------------------
(***************************************************************************)
(* The factory.  Each of its methods holds the lock to its return, except  *)
(* WaitForCacheSync, which only copies the map under it.                   *)
(***************************************************************************)
\* Mutant of InformerNumber: a new informer for every call.
InformerNumberAfresh(type) == informers[type] + 1
\* The number of the informer of a type, new if there is none.
InformerNumber(type) == IF informers[type] # 0 THEN informers[type] ELSE 1

InformerFor(c, type) ==
    LET n == InformerNumber(type)
    IN  /\ informers' = [informers EXCEPT ![type] = n]
        /\ cache' = [i \in DOMAIN cache \cup {<<type, n>>} |->
                        IF i \in DOMAIN cache THEN cache[i] ELSE NewInformer]
        /\ handed' = [handed EXCEPT ![c][type] = n]
        /\ UNCHANGED <<factory, wants, log, started, called, closed, waiting, answer>>

\* ForResource looks the type up by its resource; of any other resource it
\* returns an error.
ForResource(c, resource) == resource \in Types /\ InformerFor(c, resource)

\* Mutant of Startable: one flag for the factory in place of one per type.
StartableOnce(type) == informers[type] # 0 /\ \A t \in Types : ~started[t]
Startable(type) == informers[type] # 0 /\ ~started[type]

Start(c) ==
    /\ cache' = [i \in DOMAIN cache |->
                   IF Startable(i[1]) /\ i[2] = informers[i[1]]
                   THEN [cache[i] EXCEPT !.stop = c] ELSE cache[i]]
    /\ started' = [t \in Types |-> started[t] \/ Startable(t)]
    /\ called' = [called EXCEPT ![c] = {t \in Types : handed[c][t] # 0}]
    /\ UNCHANGED <<factory, wants, log, informers, handed, closed, waiting, answer>>

\* Mutant of ToSync: informers nobody has started too.
ToSyncAll == {<<t, informers[t]>> : t \in {u \in Types : informers[u] # 0}}
\* The copy WaitForCacheSync makes of the map.
ToSync == {<<t, informers[t]>> : t \in {u \in Types : started[u]}}

\* The map is ranged over in any order.  Bound: a client has one answer.
WaitForCacheSync(c) ==
    /\ waiting[c] = << >>
    /\ answer[c] = [t \in Types |-> "none"]
    /\ \E order \in SetToSeqs(ToSync) : waiting' = [waiting EXCEPT ![c] = order]
    /\ UNCHANGED <<factory, wants, log, informers, started, handed, called, closed,
                   cache, answer>>

CloseStop(c) ==
    /\ closed' = closed \cup {c}
    /\ UNCHANGED <<factory, wants, log, informers, started, handed, called, cache,
                   waiting, answer>>
-----------------------------------------------------------------------------
(***************************************************************************)
(* The shared informer.  Its list may be answered from a cache of the API  *)
(* server, with any version not older than the last one it saw.  A watch   *)
(* goes on from that version, and is followed by another list when the     *)
(* server no longer has the changes since.  Changes of one key wait        *)
(* together, and are taken in together.                                    *)
(***************************************************************************)
Runs(i) == cache[i].stop \notin closed \cup {Nobody}

Reflect(i, q, v) ==
    LET listed == Selected(q, StoreAt(q.resource, v))
        known == {k \in Keys : cache[i].queued[k] # 0}
    IN  [cache EXCEPT
          ![i].at = v,
          ![i].initial = IF cache[i].at = 0 THEN listed ELSE @,
          ![i].queued = [k \in Keys |->
             IF k \in listed \cup known THEN Changed(q.resource, k, v) ELSE 0]]

Relist(i) ==
    /\ Runs(i)
    /\ \E v \in Max({1, cache[i].at})..Version : cache' = Reflect(i, ListWatch(i[1]).list, v)
    /\ UNCHANGED <<factory, wants, log, informers, started, handed, called, closed,
                   waiting, answer>>

\* The watch reports the next version, if the change is one it selects.
Watched(i) ==
    LET q == ListWatch(i[1]).watch
        v == cache[i].at + 1
        e == log[v - 1]
    IN  /\ Runs(i)
        /\ v \in 2..Version
        /\ cache' = [cache EXCEPT
              ![i].at = v,
              ![i].queued[e.key] =
                IF e.type = q.resource /\ q.namespace \in {AllNamespaces, e.key[1]}
                THEN v ELSE @]
        /\ UNCHANGED <<factory, wants, log, informers, started, handed, called, closed,
                       waiting, answer>>

\* The informer takes in what is queued of a key.
Pop(i, k) ==
    /\ Runs(i)
    /\ cache[i].held[k] # cache[i].queued[k]
    /\ cache' = [cache EXCEPT ![i].held[k] = cache[i].queued[k], ![i].initial = @ \ {k}]
    /\ UNCHANGED <<factory, wants, log, informers, started, handed, called, closed,
                   waiting, answer>>

\* The first list has been taken in.
HasSynced(i) == cache[i].at # 0 /\ cache[i].initial = {}

\* One informer of the result: whether its cache was synced before stopCh closed.
Synced(c) ==
    /\ waiting[c] # << >>
    /\ LET i == Head(waiting[c])
       IN  \E synced \in BOOLEAN :
             /\ IF synced THEN HasSynced(i) ELSE c \in closed
             /\ answer' = [answer EXCEPT ![c][i[1]] = IF synced THEN "synced" ELSE "stopped"]
    /\ waiting' = [waiting EXCEPT ![c] = Tail(@)]
    /\ UNCHANGED <<factory, wants, log, informers, started, handed, called, closed, cache>>
-----------------------------------------------------------------------------
(***************************************************************************)
(* The listers.                                                            *)
(***************************************************************************)
\* The keys a lister lists, in one namespace or in all.
ListerList(i, namespace) ==
    Selected([namespace |-> namespace], [k \in Keys |-> Object(k, cache[i].held[k])])

\* The object under a key, or NoObject for the error NotFound.
ListerGet(i, k) == Object(k, cache[i].held[k])
-----------------------------------------------------------------------------
Init ==
    /\ \E use \in Uses :
          /\ factory = NewSharedInformerFactoryWithOptions(use.options)
          /\ wants = use.wants
    /\ log = << >>
    /\ informers = [t \in Types |-> 0]
    /\ started = [t \in Types |-> FALSE]
    /\ handed = [c \in Clients |-> [t \in Types |-> 0]]
    /\ called = [c \in Clients |-> {}]
    /\ closed = {}
    /\ cache = << >>
    /\ waiting = [c \in Clients |-> << >>]
    /\ answer = [c \in Clients |-> [t \in Types |-> "none"]]

Reflector(i) == Relist(i) \/ Watched(i) \/ \E k \in Keys : Pop(i, k)

Next ==
    \/ \E x \in Changing : Change(x[1], x[2])
    \/ \E c \in Clients :
          \/ \E t \in wants[c] : ForResource(c, t)
          \/ Start(c)
          \/ c \in Waiters /\ WaitForCacheSync(c)
          \/ Synced(c)
          \/ CloseStop(c)
    \/ \E i \in DOMAIN cache : Reflector(i)

(***************************************************************************)
(* Some reflector that can retry its list or its watch, or drain its queue, *)
(* does.  There is an end of that when the store no longer changes, so each *)
(* gets its turn.  An informer that is waited for is polled.                *)
(***************************************************************************)
Fairness ==
    /\ WF_vars(\E i \in DOMAIN cache : Reflector(i))
    /\ \A c \in Waiters : WF_vars(Synced(c))

Spec == Init /\ [][Next]_vars /\ Fairness
-----------------------------------------------------------------------------
(***************************************************************************)
(* Every variable has the values the code can give it.  A factory makes    *)
(* one informer for a type, whoever asks and however often (InformerFor).  *)
(***************************************************************************)
TypeOK ==
    /\ factory \in [namespace : Namespaces]
    /\ wants \in [Clients -> SUBSET Types]
    /\ log \in Seq([type : Types, key : Keys, gone : BOOLEAN])
    /\ informers \in [Types -> {0, 1}]
    /\ started \in [Types -> BOOLEAN]
    /\ handed \in [Clients -> [Types -> {0, 1}]]
    /\ called \in [Clients -> SUBSET Types]
    /\ closed \subseteq Clients
    /\ cache \in [{<<t, 1>> : t \in {u \in Types : informers[u] = 1}} ->
                   [stop : Clients \cup {Nobody}, at : 0..Version, initial : SUBSET Keys,
                    queued : [Keys -> 0..Version], held : [Keys -> 0..Version]]]
    /\ waiting \in [Clients -> Seq(DOMAIN cache)]
    /\ answer \in [Clients -> [Types -> {"none", "synced", "stopped"}]]

(***************************************************************************)
(* A client told that the cache of a type is synced reads, from the lister *)
(* it was handed for that type, of every key of the factory's namespace an *)
(* object the key has held or the absence of one, never a gap the list had *)
(* not filled yet; and of the other namespaces it reads nothing.           *)
(***************************************************************************)
SyncedIsComplete ==
    \A c \in Clients, t \in Types :
       (answer[c][t] = "synced" /\ handed[c][t] # 0) =>
          LET i == <<t, handed[c][t]>>
              mine == {k \in Keys : factory.namespace \in {AllNamespaces, k[1]}}
          IN  /\ ListerList(i, AllNamespaces) \subseteq mine
              /\ \A k \in mine :
                    \E v \in 1..Version : ListerGet(i, k) = StoreAt(t, v)[k]

(***************************************************************************)
(* An informer that has read every change and taken in all it has queued   *)
(* shows the store, as far as it is in the factory's namespace: no change  *)
(* is lost between the list and the watch, or when a list follows a watch, *)
(* however they alternate.  ListersCatchUp rests on it.                    *)
(***************************************************************************)
Drained(i) == cache[i].at = Version /\ cache[i].held = cache[i].queued

DrainedShowsStore ==
    \A i \in DOMAIN cache : Drained(i) =>
       LET store == StoreAt(i[1], Version)
       IN  /\ ListerList(i, AllNamespaces) = Selected(factory, store)
           /\ \A k \in ListerList(i, AllNamespaces) : ListerGet(i, k) = store[k]

(***************************************************************************)
(* A type that a client asked for before it called Start is followed: its  *)
(* lister comes to show the store, in each namespace, unless the stopCh    *)
(* the informer was started with is closed, which may be another client's. *)
(* Once a client has called Start there is a time at which all are.        *)
(***************************************************************************)
Follows(c, t) ==
    LET i == <<t, handed[c][t]>>
    IN  \/ handed[c][t] # 0 /\ cache[i].stop \in closed
        \/ /\ handed[c][t] # 0
           /\ ListerList(i, factory.namespace) = Selected(ListWatch(t).list, StoreAt(t, Version))
           /\ \A k \in ListerList(i, factory.namespace) :
                 ListerGet(i, k) = StoreAt(t, Version)[k]

ListersCatchUp ==
    (\E c \in Clients : called[c] # {}) ~>
       (\A c \in Clients : \A t \in called[c] : Follows(c, t))

(***************************************************************************)
(* WaitForCacheSync returns, unless an informer it waits for was stopped   *)
(* before its first list was taken in.                                     *)
(***************************************************************************)
WaitReturns ==
    \A c \in Waiters :
       (waiting[c] # << >>) ~>
          (\/ waiting[c] = << >>
           \/ cache[Head(waiting[c])].stop \in closed /\ ~HasSynced(Head(waiting[c])))
=============================================================================
