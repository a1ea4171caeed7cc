------------------------ MODULE NSRegistrationProofs ------------------------
(***************************************************************************)
(* Proofs about NSRegistration, for any number of clients, replicas,       *)
(* services and callers, and every list of options.  IInv is inductive; of *)
(* the invariants that TLC checks on a small instance, those it implies    *)
(* follow.                                                                 *)
(***************************************************************************)
EXTENDS NSRegistration, FiniteSetTheorems, SequenceTheorems, WellFoundedInduction, TLAPS

\* The writes that calls in flight may still make fit under the bound.
Room ==
    /\ IsFiniteSet(InFlight)
    /\ revision + Cardinality(InFlight) <= MaxVersion

\* An object bears the name of its key, in a namespace some client writes to.
Named ==
    /\ IsFiniteSet(Stored(store))
    /\ \A k \in Keys : store[k] # NoObject =>
          /\ store[k].name = k[2]
          /\ store[k].version <= revision
          /\ \E x \in Clients : home[x] = k[1]

\* The channel of a watch is empty before Watch and after the end, only an
\* ended one holds an error, and no event is of a version yet to come.
Pending ==
    /\ remote \in {"opening", "returned"} => events = <<>>
    /\ \A i \in 1 .. Len(events) :
          /\ events[i].version <= revision
          /\ events[i].type = "error" => remote = "ended" /\ events[i].name = NoName
          /\ events[i].type # "error" => events[i].name \in Names

\* A call under way passed the authorize element and is for a name without a
\* domain; so it was with the writer and the name of every object.
Admitted ==
    /\ \A x \in Clients :
          call[x] # Idle => x \in Opts.nsServer /\ call[x].name \notin Interdomain
    /\ \A k \in Keys :
          store[k] # NoObject => store[k].by \in Opts.nsServer /\ k[2] \notin Interdomain

\* Register relies on what it has found, unless somebody interfered.
Relies(x) ==
    /\ call[x].pc = "get" => interfered[x] \/ store[<<home[x], call[x].name>>] # NoObject
    /\ call[x].pc = "update" =>
          \/ call[x].lost
          \/ interfered[x]
          \/ /\ store[<<home[x], call[x].name>>] # NoObject
             /\ call[x].got = store[<<home[x], call[x].name>>]

RelyAll == \A x \in Clients : Relies(x)
-----------------------------------------------------------------------------
\* The replicas share a namespace.
Together == \A x, y \in Clients : home[x] = home[y]

\* The last pending event of a service tells what is stored.
Tells(n) == \E i \in 1 .. Len(events) : LastOn(n, i) /\ After(events[i]) \in ListedVersions(n)

\* No caller was shown a version yet to come, nor a list that is newer than the
\* store.
Views ==
    /\ \A c \in Callers : \A n \in Names : view[c][n] <= revision
    /\ \A c \in Callers : \A k \in Keys :
          find[c] = "listed" /\ store[k] # NoObject /\ Together =>
              view[c][k[2]] <= store[k].version

\* The events of an open watch are complete: their last word on a service holds.
Fresh == Together /\ remote = "open" => \A n \in Names \cap NamesIn(events) : Tells(n)

\* What a caller did not miss it has, or will have been sent.
Known ==
    Together => \A c \in Callers : \A n \in Names \ missed[c] : Listing(c) => Knows(c, n)

\* The list of a caller that is not subscribed yet is either up to date, or the
\* last event of the service, still pending, is newer than the list.
Untold(c, n) ==
    \/ view[c][n] \in ListedVersions(n)
    \/ \E i \in 1 .. Len(events) : LastOn(n, i) /\ ~Reflected(events[i], view[c][n])

Lists ==
    Together => \A c \in Callers : \A n \in Names \ missed[c] :
                   find[c] = "listed" => Untold(c, n)

TInv == TypeOK /\ Room /\ Named /\ Pending

IInv == TInv /\ Admitted /\ RelyAll /\ ConflictHasCause /\ Views /\ Fresh /\ Known /\ Lists
-----------------------------------------------------------------------------
(***************************************************************************)
(* Type correctness.                                                       *)
(***************************************************************************)

\* A call that reaches etcd was admitted and is for a name without a domain:
\* the chain of a name with one ends at the proxy.
LEMMA Reaches ==
    ASSUME NEW x \in Clients, NEW n \in Requests[x], ReachesEtcd(x, n)
    PROVE  n \in Names /\ n \notin Interdomain /\ x \in Opts.nsServer /\ call[x] = Idle
<1>1. n \notin Interdomain
    <2> SUFFICES ASSUME n \in Interdomain PROVE FALSE
        OBVIOUS
    <2> DEFINE head == <<"grpcmetadata", "updatepath", "authorize", "metadata", "setpayload">>
               path == head \o <<"connect">>
               Elements == {head[j] : j \in 1 .. 5} \cup {"connect"}
    <2>1. NSElements(n) = path
        BY DEF NSElements
    <2> HIDE DEF Elements
    <2>2. head \in Seq(Elements) /\ Len(head) = 5 /\ \A j \in 1 .. 5 : head[j] # "etcd"
        <3>1. head \in Seq(Elements)
            BY DEF Elements
        <3>2. Len(head) = 5
            OBVIOUS
        <3>3. \A j \in 1 .. 5 : head[j] # "etcd"
            OBVIOUS
        <3>4. QED
            BY <3>1, <3>2, <3>3
    <2>3. <<"connect">> \in Seq(Elements) /\ Len(<<"connect">>) = 1 /\ <<"connect">>[1] # "etcd"
        <3>1. <<"connect">> \in Seq(Elements)
            BY DEF Elements
        <3>2. Len(<<"connect">>) = 1
            OBVIOUS
        <3>3. <<"connect">>[1] # "etcd"
            OBVIOUS
        <3>4. QED
            BY <3>1, <3>2, <3>3
    <2>4. /\ path \in Seq(Elements) /\ Len(path) = 6
          /\ \A j \in 1 .. 6 : path[j] = IF j <= 5 THEN head[j] ELSE <<"connect">>[j - 5]
        BY <2>2, <2>3, ConcatProperties
    <2>5. DOMAIN path = 1 .. 6
        BY <2>4, LenProperties
    <2>6. ASSUME NEW j \in 1 .. 6 PROVE path[j] # "etcd"
        <3>1. CASE j <= 5
            BY <2>2, <2>4, <3>1
        <3>2. CASE j = 6
            BY <2>3, <2>4, <3>2
        <3>3. QED
            BY <3>1, <3>2
    <2>7. ~Precedes("authorize", "etcd", path)
        BY <2>5, <2>6 DEF Precedes
    <2>8. QED
        BY <2>1, <2>7 DEF ReachesEtcd
<1>2. n \in Names
    BY DEF Names
<1>3. QED
    BY <1>1, <1>2 DEF ReachesEtcd

\* What a call in flight carries.
LEMMA CallFields ==
    ASSUME NEW c \in Call
    PROVE  /\ c.pc \in {"idle", "create", "get", "update", "delete"}
           /\ c.pc = "idle" <=> c = Idle
           /\ c.pc # "idle" => c.name \in Names
           /\ c.pc = "update" => c.got \in {Empty} \cup Object /\ c.lost \in BOOLEAN
    BY DEF Call, Idle

\* A client's name stands for a key of the store.
LEMMA ClientKey ==
    ASSUME TypeOK, NEW x \in Clients, NEW n \in Names
    PROVE  <<home[x], n>> \in Keys /\ n # NoName
    BY NSRegistrationAssumption DEF TypeOK, Keys, Names

\* What is stored under a key is an object.
LEMMA StoredObject ==
    ASSUME TypeOK, NEW k \in Keys
    PROVE  /\ store[k] # NoObject => store[k] \in Object
           /\ k \in Stored(store) <=> store[k] # NoObject
    BY DEF TypeOK, Stored

\* When a call's request is accepted, by what the store holds under its key.
LEMMA AcceptedAt ==
    ASSUME TypeOK, NEW x \in Clients, call[x].pc # "idle"
    PROVE  LET k == <<home[x], call[x].name>> IN
           /\ k \in Keys
           /\ Accepted(CreateRequest(x), store) <=> store[k] = NoObject
           /\ Accepted(ServiceGet(home[x], call[x].name), store) <=> store[k] # NoObject
           /\ KeyIn(ServiceGet(home[x], call[x].name)) = k
           /\ Accepted(DeleteRequest(x), store) <=> store[k] # NoObject
           /\ KeyIn(DeleteRequest(x)) = k
<1>1. call[x].name \in Names
    BY CallFields DEF TypeOK
<1>2. call[x].name # NoName /\ <<home[x], call[x].name>> \in Keys
    BY <1>1, ClientKey
<1>3. QED
    BY <1>2
    DEF Accepted, CreateRequest, DeleteRequest, ServiceCreate, ServiceGet, ServiceDelete,
        ServiceRequest, Request, KeyIn

\* An Update goes to the key of the object that was got, of that version.
LEMMA UpdateAccepted ==
    ASSUME NEW x, call[x].got \in {Empty} \cup Object
    PROVE  LET k == <<home[x], call[x].got.name>> IN
           Accepted(UpdateRequest(x), store) <=>
               /\ call[x].got.name # NoName
               /\ store[k] # NoObject
               /\ call[x].got.version = store[k].version
<1>1. UpdateRequest(x) =
          [verb |-> "PUT", resource |-> "networkservices", namespace |-> home[x],
           name |-> call[x].got.name, version |-> call[x].got.version, timeout |-> 0]
    BY DEF UpdateRequest, ServiceUpdate, ServiceRequest, Request
<1>2. QED
    BY <1>1 DEF Accepted, KeyIn

\* A call that is not for a write leaves the room as it is, or makes more.
LEMMA RoomKept ==
    ASSUME TypeOK, Room, revision' = revision, InFlight' \subseteq InFlight
    PROVE  Room'
<1>1. IsFiniteSet(InFlight') /\ Cardinality(InFlight') <= Cardinality(InFlight)
    BY FS_Subset DEF Room
<1>2. Cardinality(InFlight) \in Nat /\ Cardinality(InFlight') \in Nat
    BY <1>1, FS_CardinalityType DEF Room
<1>3. QED
    BY <1>1, <1>2, NSRegistrationAssumption DEF Room, TypeOK

\* A call in flight writes once: it was counted before and is not any more.
LEMMA RoomUsed ==
    ASSUME TypeOK, Room, NEW x \in InFlight,
           revision' = revision + 1, InFlight' = InFlight \ {x}
    PROVE  Room' /\ revision + 1 \in 1 .. MaxVersion
<1>1. IsFiniteSet(InFlight') /\ Cardinality(InFlight') = Cardinality(InFlight) - 1
    BY FS_RemoveElement DEF Room
<1>2. Cardinality(InFlight) \in Nat /\ Cardinality(InFlight') \in Nat
    BY <1>1, FS_CardinalityType DEF Room
<1>3. QED
    BY <1>1, <1>2, NSRegistrationAssumption DEF Room, TypeOK

\* An event of a change is typed, and leaves the watch in order.
LEMMA NotifyTyped ==
    ASSUME TypeOK, Pending, NEW type \in {"added", "modified", "deleted"}, NEW object \in Object,
           Notify(type, object), remote' = remote,
           revision' \in Nat, revision <= revision', object.version <= revision'
    PROVE  /\ events' \in Seq(Event)
           /\ missed' \in [Callers -> SUBSET Names]
           /\ Pending'
<1>1. object.name \in Names /\ object.version \in 0 .. MaxVersion /\ object.version \in Nat
    BY NSRegistrationAssumption DEF Object, Versions
<1>2. missed' \in [Callers -> SUBSET Names]
    BY <1>1 DEF Notify, TypeOK
<1>3. events \in Seq(Event) /\ Len(events) \in Nat /\ revision \in Nat
    BY NSRegistrationAssumption, LenProperties DEF TypeOK
<1>4. ASSUME NEW i \in 1 .. Len(events) PROVE events[i] \in Event /\ events[i].version \in Nat
    <2>1. events[i] \in Event
        BY <1>3, ElementOfSeq
    <2>2. events[i].version \in 0 .. MaxVersion
        BY <2>1 DEF Event
    <2>3. QED
        BY <2>1, <2>2
<1>5. CASE remote = "open"
    <2> DEFINE e == EventOf(type, object)
    <2>1. /\ e \in Event /\ e.version = object.version
          /\ e.type # "error" /\ e.name \in Names
        BY <1>1 DEF EventOf, Event
    <2> HIDE DEF e
    <2>2. events' = Append(events, e)
        BY <1>5 DEF Notify, e
    <2>3. /\ events' \in Seq(Event) /\ Len(events') = Len(events) + 1
          /\ \A i \in 1 .. Len(events) : events'[i] = events[i]
          /\ events'[Len(events) + 1] = e
        BY <1>3, <2>1, <2>2, AppendProperties
    <2>4. ASSUME NEW i \in 1 .. Len(events')
          PROVE  /\ events'[i].version <= revision'
                 /\ events'[i].type = "error" => remote' = "ended" /\ events'[i].name = NoName
                 /\ events'[i].type # "error" => events'[i].name \in Names
        <3>1. CASE i = Len(events) + 1
            BY <2>1, <2>3, <3>1
        <3>2. CASE i \in 1 .. Len(events)
            <4>1. events[i].version <= revision'
                BY <1>3, <1>4, <3>2 DEF Pending
            <4>2. QED
                BY <2>3, <3>2, <4>1 DEF Pending
        <3>3. QED
            BY <1>3, <2>3, <3>1, <3>2
    <2>5. Pending'
        BY <1>5, <2>4 DEF Pending
    <2>6. QED
        BY <1>2, <2>3, <2>5
<1>6. CASE remote # "open"
    <2>1. events' = events
        BY <1>6 DEF Notify
    <2>2. ASSUME NEW i \in 1 .. Len(events) PROVE events[i].version <= revision'
        BY <1>3, <1>4 DEF Pending
    <2>3. Pending'
        BY <2>1, <2>2 DEF Pending
    <2>4. QED
        BY <1>2, <1>3, <2>1, <2>3
<1>7. QED
    BY <1>5, <1>6

\* The store, the watch and the Finds are left alone.
Quiet == UNCHANGED <<home, store, revision, remote, events, find, view, missed>>

\* Then they stay as they should be.
LEMMA QuietKeeps == ASSUME Named, Pending, Quiet PROVE Named' /\ Pending'
<1>1. Named'
    BY DEF Named, Quiet, Stored
<1>2. Pending'
    BY DEF Pending, Quiet
<1>3. QED
    BY <1>1, <1>2

\* The steps of a call that do not change the store.
CallStep(x) ==
    \/ \E n \in Requests[x] : Register(x, n) \/ Unregister(x, n) \/ EndsElsewhere(x, n)
    \/ AlreadyExists(x) \/ Get(x) \/ UpdateRefused(x) \/ DeleteRefused(x) \/ RequestLost(x)

\* They are quiet.
LEMMA CallStepQuiet == ASSUME NEW x \in Clients, CallStep(x) PROVE Quiet
    BY DEF CallStep, Register, Unregister, EndsElsewhere, AlreadyExists, Get, GotObject,
           UpdateRefused, DeleteRefused, RequestLost, Quiet, watchVars, findVars

\* The types hold at the start.
LEMMA InitTInv == Init => TInv
<1> SUFFICES ASSUME Init PROVE TInv
    OBVIOUS
<1>1. InFlight = {}
    BY DEF Init, InFlight, Idle
<1>2. Room
    BY <1>1, FS_EmptySet, NSRegistrationAssumption DEF Room, Init
<1>3. TypeOK
    BY NSRegistrationAssumption DEF Init, TypeOK, Call
<1>4. Stored(store) = {}
    BY DEF Init, Stored
<1>5. Named
    BY <1>4, FS_EmptySet DEF Named, Init
<1>6. Pending
    BY DEF Pending, Init
<1>7. QED
    BY <1>2, <1>3, <1>5, <1>6 DEF TInv

\* A step of a call that does not write keeps them.
LEMMA CallTInv ==
    ASSUME TInv, NEW x \in Clients, CallStep(x)
    PROVE  TInv'
<1> USE NSRegistrationAssumption
<1>0. TypeOK /\ Room /\ Quiet /\ Named' /\ Pending' /\ revision' = revision
    BY CallStepQuiet, QuietKeeps DEF TInv, Quiet
<1>1. PICK c : call' = [call EXCEPT ![x] = c]
    BY DEF CallStep, Register, Unregister, EndsElsewhere, AlreadyExists, Get, GotObject,
           UpdateRefused, DeleteRefused, RequestLost, SetCall, End
<1>2. ASSUME NEW n \in Requests[x], Register(x, n) PROVE TInv'
    <2>1. n \in Names
        BY <1>2, Reaches DEF Register
    <2>2. [pc |-> "create", name |-> n] \in Call
        BY <2>1 DEF Call
    <2>3. TypeOK'
        BY <1>0, <1>2, <2>2 DEF Register, SetCall, TypeOK, watchVars, findVars
    <2>4. x \notin InFlight /\ InFlight' = InFlight \cup {x}
        BY <1>0, <1>2 DEF Register, ReachesEtcd, SetCall, TypeOK, InFlight, Idle
    <2>5. IsFiniteSet(InFlight') /\ Cardinality(InFlight') = Cardinality(InFlight) + 1
        BY <1>0, <2>4, FS_AddElement DEF Room
    <2>6. Cardinality(InFlight) \in Nat
        BY <1>0, FS_CardinalityType DEF Room
    <2>7. Room'
        BY <1>0, <1>2, <2>5, <2>6 DEF Room, Register, TypeOK
    <2>8. QED
        BY <1>0, <2>3, <2>7 DEF TInv
<1>3. ASSUME ~\E n \in Requests[x] : Register(x, n) PROVE TInv'
    <2>1. InFlight' \subseteq InFlight
        BY <1>0, <1>3
        DEF CallStep, Unregister, EndsElsewhere, AlreadyExists, Get, GotObject, UpdateRefused,
            DeleteRefused, RequestLost, SetCall, End, TypeOK, InFlight, Idle
    <2>2. Room'
        BY <1>0, <2>1, RoomKept
    <2>3. call' \in [Clients -> Call]
        <3>1. call[x] \in Call
            BY <1>0 DEF TypeOK
        <3>2. c \in Call \/ c = call'[x]
            BY <1>0, <1>1 DEF TypeOK
        <3>3. ASSUME NEW n \in Requests[x], Unregister(x, n) PROVE call'[x] \in Call
            <4>1. n \in Names
                BY <3>3, Reaches DEF Unregister
            <4>2. call'[x] = [pc |-> "delete", name |-> n]
                BY <1>0, <3>3 DEF Unregister, SetCall, TypeOK
            <4>3. QED
                BY <4>1, <4>2 DEF Call
        <3>4. ASSUME AlreadyExists(x) PROVE call'[x] \in Call
            <4>1. call[x] \in [pc : {"create", "get", "delete"}, name : Names]
                BY <3>1, <3>4 DEF AlreadyExists, Call, Idle
            <4>2. call'[x] = [call[x] EXCEPT !.pc = "get"]
                BY <1>0, <3>4 DEF AlreadyExists, SetCall, TypeOK
            <4>3. call'[x] \in [pc : {"create", "get", "delete"}, name : Names]
                BY <4>1, <4>2
            <4> DEFINE Plain == [pc : {"create", "get", "delete"}, name : Names]
            <4>4. call'[x] \in Plain /\ Plain \subseteq Call
                BY <4>3 DEF Call
            <4> HIDE DEF Plain
            <4>5. QED
                BY <4>4
        <3>5. ASSUME Get(x) PROVE call'[x] \in Call
            <4>1. PICK object, lost : GotObject(x, object, lost) /\ lost \in BOOLEAN
                                      /\ object \in {Empty} \cup Object
                <5>1. call[x].pc = "get" /\ call[x] # Idle
                    BY <3>5 DEF Get, Idle
                <5>2. Accepted(ServiceGet(home[x], call[x].name), store) =>
                          store[KeyIn(ServiceGet(home[x], call[x].name))] \in Object
                    BY <1>0, <5>1, AcceptedAt, StoredObject
                <5>3. QED
                    BY <3>5, <5>2 DEF Get
            <4>2. call'[x] = [pc |-> "update", name |-> call[x].name, got |-> object,
                              lost |-> lost]
                BY <1>0, <4>1 DEF GotObject, SetCall, TypeOK
            <4>3. call[x].name \in Names
                BY <3>1, <3>5, CallFields DEF Get
            <4> DEFINE Updating == [pc : {"update"}, name : Names, got : {Empty} \cup Object,
                                    lost : BOOLEAN]
            <4>4. call'[x] \in Updating /\ Updating \subseteq Call
                BY <4>1, <4>2, <4>3 DEF Call
            <4> HIDE DEF Updating
            <4>5. QED
                BY <4>4
        <3>6. ASSUME \/ \E n \in Requests[x] : EndsElsewhere(x, n)
                     \/ UpdateRefused(x) \/ DeleteRefused(x) \/ RequestLost(x)
              PROVE  call'[x] \in Call
            BY <1>0, <3>6
            DEF EndsElsewhere, UpdateRefused, DeleteRefused, RequestLost, End, SetCall, TypeOK, Call
        <3>7. call'[x] \in Call
            BY <1>3, <3>3, <3>4, <3>5, <3>6 DEF CallStep
        <3>8. QED
            BY <1>0, <1>1, <3>7 DEF TypeOK
    <2>4. /\ result' \in [Clients -> {"none", "ok", "conflict", "missing", "fault", "denied"}]
          /\ interfered' \in [Clients -> BOOLEAN]
          /\ UNCHANGED <<home, store, revision, watchVars, findVars>>
        BY <1>0, <1>3
        DEF CallStep, Unregister, EndsElsewhere, AlreadyExists, Get, GotObject, UpdateRefused,
            DeleteRefused, RequestLost, End, TypeOK
    <2>5. TypeOK'
        BY <1>0, <2>3, <2>4 DEF TypeOK, watchVars, findVars
    <2>6. QED
        BY <1>0, <2>2, <2>5 DEF TInv
<1>4. QED
    BY <1>2, <1>3

\* The object a client x writes.
Written(x) == [name |-> call[x].name, version |-> revision + 1, by |-> x]

\* Create and Update put it under the key of the call, and report it.
LEMMA WriteStep ==
    ASSUME TInv, NEW x \in Clients, Create(x) \/ Update(x)
    PROVE  /\ x \in InFlight /\ x \notin InFlight' /\ InFlight' \subseteq InFlight
           /\ call[x].name \in Names /\ <<home[x], call[x].name>> \in Keys
           /\ Written(x) \in Object
           /\ store' = [store EXCEPT ![<<home[x], call[x].name>>] = Written(x)]
           /\ revision' = revision + 1 /\ revision + 1 \in 1 .. MaxVersion /\ Room'
           /\ \E type \in {"added", "modified"} : Notify(type, Written(x))
           /\ Changed(<<home[x], call[x].name>>, x)
           /\ Answered(x)
           /\ UNCHANGED <<home, remote, sleep, breaks, find, view>>
<1>0. TypeOK /\ Room
    BY DEF TInv
<1>1. call[x].pc \in {"create", "update"}
    BY DEF Create, Update
<1>2. call[x] \in Call /\ call[x].name \in Names
    BY <1>0, <1>1, CallFields DEF TypeOK
<1>3. <<home[x], call[x].name>> \in Keys
    BY <1>0, <1>2, ClientKey
<1>4. /\ \E type \in {"added", "modified"} : Write(type, x)
      /\ Answered(x)
      /\ UNCHANGED <<home, remote, sleep, breaks, find, view>>
    BY DEF Create, Update
<1>5. PICK type \in {"added", "modified"} : Write(type, x)
    BY <1>4
<1>6. x \in InFlight /\ InFlight' = InFlight \ {x}
    BY <1>0, <1>1, <1>4 DEF Answered, End, SetCall, InFlight, TypeOK, Idle
<1>7. revision' = revision + 1
    BY <1>5 DEF Write
<1>8. Room' /\ revision + 1 \in 1 .. MaxVersion
    BY <1>0, <1>6, <1>7, RoomUsed
<1>9. Written(x) \in Object
    BY <1>2, <1>8 DEF Written, Object, Versions
<1>10. /\ store' = [store EXCEPT ![<<home[x], call[x].name>>] = Written(x)]
       /\ Notify(type, Written(x))
       /\ Changed(<<home[x], call[x].name>>, x)
    BY <1>5 DEF Write, Written
<1>11. QED
    BY <1>2, <1>3, <1>4, <1>6, <1>7, <1>8, <1>9, <1>10

\* The types after a write.
LEMMA WriteTInv ==
    ASSUME TInv, NEW x \in Clients, Create(x) \/ Update(x)
    PROVE  TInv'
<1> DEFINE k == <<home[x], call[x].name>>
<1>0. TypeOK /\ Room /\ Named /\ Pending /\ revision \in Nat
    BY NSRegistrationAssumption DEF TInv, TypeOK
<1>1. /\ k \in Keys /\ Written(x) \in Object
      /\ store' = [store EXCEPT ![k] = Written(x)]
      /\ revision' = revision + 1 /\ revision + 1 \in 1 .. MaxVersion /\ Room'
      /\ Changed(k, x)
      /\ Answered(x)
      /\ UNCHANGED <<home, remote, sleep, breaks, find, view>>
    BY WriteStep
<1>2. PICK type \in {"added", "modified"} : Notify(type, Written(x))
    BY WriteStep
<1>3. Written(x).version = revision + 1 /\ Written(x).name = k[2] /\ k[1] = home[x]
    BY DEF Written
<1> HIDE DEF k
<1>4. events' \in Seq(Event) /\ missed' \in [Callers -> SUBSET Names] /\ Pending'
    BY <1>0, <1>1, <1>2, <1>3, NotifyTyped
<1>5. call' \in [Clients -> Call]
    BY <1>0, <1>1 DEF Answered, End, SetCall, TypeOK, Call
<1>6. result' \in [Clients -> {"none", "ok", "conflict", "missing", "fault", "denied"}]
    BY <1>0, <1>1 DEF Answered, End, TypeOK
<1>7. interfered' \in [Clients -> BOOLEAN]
    BY <1>0, <1>1 DEF Changed, TypeOK
<1>8. store' \in [Keys -> Object \cup {NoObject}]
    BY <1>0, <1>1 DEF TypeOK
<1>9. TypeOK'
    BY <1>0, <1>1, <1>4, <1>5, <1>6, <1>7, <1>8 DEF TypeOK
<1>10. Named'
    <2>1. Stored(store') \subseteq Stored(store) \cup {k}
        BY <1>0, <1>1 DEF Stored, TypeOK
    <2>2. IsFiniteSet(Stored(store'))
        BY <1>0, <2>1, FS_AddElement, FS_Subset DEF Named
    <2>3. ASSUME NEW l \in Keys, store'[l] # NoObject
          PROVE  /\ store'[l].name = l[2]
                 /\ store'[l].version <= revision'
                 /\ \E y \in Clients : home'[y] = l[1]
        <3>1. CASE l = k
            BY <1>0, <1>1, <1>3, <3>1 DEF TypeOK
        <3>2. CASE l # k
            <4>1. store'[l] = store[l] /\ store[l] \in Object
                BY <1>0, <1>1, <2>3, <3>2 DEF TypeOK
            <4>2. store[l].version \in Nat
                BY <4>1, NSRegistrationAssumption DEF Object, Versions
            <4>3. QED
                BY <1>0, <1>1, <2>3, <4>1, <4>2 DEF Named
        <3>3. QED
            BY <3>1, <3>2
    <2>4. QED
        BY <2>2, <2>3 DEF Named
<1>11. QED
    BY <1>1, <1>4, <1>9, <1>10 DEF TInv

\* Delete takes the object away, and reports it.
LEMMA DeleteStep ==
    ASSUME TInv, NEW x \in Clients, Delete(x)
    PROVE  LET k == <<home[x], call[x].name>> IN
           /\ call[x].name \in Names /\ k \in Keys /\ store[k] # NoObject /\ store[k] \in Object
           /\ store' = [store EXCEPT ![k] = NoObject]
           /\ Notify("deleted", store[k])
           /\ Changed(k, x)
           /\ Answered(x)
           /\ UNCHANGED <<home, revision, remote, sleep, breaks, find, view>>
<1>0. TypeOK /\ call[x].pc = "delete"
    BY DEF TInv, Delete
<1>1. call[x].name \in Names
    BY <1>0, CallFields DEF TypeOK
<1>2. <<home[x], call[x].name>> \in Keys
    BY <1>0, <1>1, ClientKey
<1>3. /\ KeyIn(DeleteRequest(x)) = <<home[x], call[x].name>>
      /\ Accepted(DeleteRequest(x), store) <=> store[<<home[x], call[x].name>>] # NoObject
    BY <1>0, AcceptedAt
<1>4. store[<<home[x], call[x].name>>] # NoObject /\ store[<<home[x], call[x].name>>] \in Object
    BY <1>0, <1>2, <1>3, StoredObject DEF Delete
<1>5. QED
    BY <1>1, <1>2, <1>3, <1>4 DEF Delete

\* The types after it.
LEMMA DeleteTInv ==
    ASSUME TInv, NEW x \in Clients, Delete(x)
    PROVE  TInv'
<1> DEFINE k == <<home[x], call[x].name>>
<1>0. TypeOK /\ Room /\ Named /\ Pending /\ revision \in Nat /\ call[x].pc = "delete"
    BY NSRegistrationAssumption DEF TInv, TypeOK, Delete
<1>1. /\ k \in Keys /\ store[k] # NoObject /\ store[k] \in Object
      /\ store' = [store EXCEPT ![k] = NoObject]
      /\ Notify("deleted", store[k])
      /\ Changed(k, x)
      /\ Answered(x)
      /\ UNCHANGED <<home, revision, remote, sleep, breaks, find, view>>
    BY DeleteStep
<1> HIDE DEF k
<1>2. store[k].version <= revision
    BY <1>0, <1>1 DEF Named
<1>3. events' \in Seq(Event) /\ missed' \in [Callers -> SUBSET Names] /\ Pending'
    <2>1. revision' \in Nat /\ revision <= revision' /\ store[k].version <= revision'
        BY <1>0, <1>1, <1>2
    <2>2. QED
        BY <1>0, <1>1, <2>1, NotifyTyped
<1>4. call' \in [Clients -> Call]
    BY <1>0, <1>1 DEF Answered, End, SetCall, TypeOK, Call
<1>5. result' \in [Clients -> {"none", "ok", "conflict", "missing", "fault", "denied"}]
    BY <1>0, <1>1 DEF Answered, End, TypeOK
<1>6. interfered' \in [Clients -> BOOLEAN]
    BY <1>0, <1>1 DEF Changed, TypeOK
<1>7. store' \in [Keys -> Object \cup {NoObject}]
    BY <1>0, <1>1 DEF TypeOK
<1>8. TypeOK'
    BY <1>0, <1>1, <1>3, <1>4, <1>5, <1>6, <1>7 DEF TypeOK
<1>9. Named'
    <2>1. Stored(store') \subseteq Stored(store)
        BY <1>0, <1>1 DEF Stored, TypeOK
    <2>2. IsFiniteSet(Stored(store'))
        BY <1>0, <2>1, FS_Subset DEF Named
    <2>3. ASSUME NEW l \in Keys, store'[l] # NoObject
          PROVE  store'[l] = store[l]
        BY <1>0, <1>1, <2>3 DEF TypeOK
    <2>4. QED
        BY <1>0, <1>1, <2>2, <2>3 DEF Named
<1>10. Room'
    <2>1. call' = [call EXCEPT ![x] = Idle] /\ call \in [Clients -> Call]
        BY <1>0, <1>1 DEF Answered, End, SetCall, TypeOK
    <2>2. InFlight' \subseteq InFlight
        BY <2>1 DEF InFlight, Idle
    <2>3. QED
        BY <1>0, <1>1, <2>2, RoomKept
<1>11. QED
    BY <1>3, <1>8, <1>9, <1>10 DEF TInv

\* SetToSeq lists a finite set, each element once.
LEMMA SetToSeqLists ==
    ASSUME NEW S, IsFiniteSet(S)
    PROVE  /\ Cardinality(S) \in Nat
           /\ SetToSeq(S) \in [1 .. Cardinality(S) -> S]
           /\ \A i, j \in 1 .. Cardinality(S) : SetToSeq(S)[i] = SetToSeq(S)[j] => i = j
           /\ \A s \in S : \E i \in 1 .. Cardinality(S) : SetToSeq(S)[i] = s
<1> DEFINE n == Cardinality(S)
<1>1. n \in Nat /\ ExistsBijection(1 .. n, S)
    BY FS_CardinalityType
<1>2. PICK g \in [1 .. n -> S] : IsInjective(g)
    BY <1>1 DEF ExistsBijection, Bijection, Injection, IsInjective
<1>3. SetToSeq(S) \in [1 .. n -> S] /\ IsInjective(SetToSeq(S))
    BY <1>2 DEF SetToSeq
<1>4. SetToSeq(S) \in Injection(1 .. n, S)
    BY <1>3 DEF Injection, IsInjective
<1>5. IsFiniteSet(1 .. n) /\ Cardinality(1 .. n) = n
    BY <1>1, FS_Interval
<1>6. SetToSeq(S) \in Surjection(1 .. n, S)
    BY <1>4, <1>5, FS_Injection
<1>7. QED
    BY <1>1, <1>3, <1>6 DEF IsInjective, Surjection

\* es holds one event for each object that q selects.
EachOnce(es, q) ==
    \E keys \in [1 .. Len(es) -> Selected(q, store)] :
        /\ \A i \in 1 .. Len(es) : es[i] = EventOf("added", store[keys[i]])
        /\ \A i, j \in 1 .. Len(es) : keys[i] = keys[j] => i = j
        /\ \A k \in Selected(q, store) : \E i \in 1 .. Len(es) : keys[i] = k

\* What a new watch starts with: an event for each object that it selects.
LEMMA Replayed ==
    ASSUME TypeOK, Named, NEW q
    PROVE  /\ Replay(q) \in Seq(Event)
           /\ \A i \in 1 .. Len(Replay(q)) : \E k \in Selected(q, store) :
                 Replay(q)[i] = EventOf("added", store[k])
           /\ EachOnce(Replay(q), q)
           /\ \A k \in Selected(q, store) : k \in Keys /\ store[k] # NoObject
<1> DEFINE S == Selected(q, store)
           n == Cardinality(S)
           keys == SetToSeq(S)
<1>1. S \subseteq Stored(store) /\ S \subseteq Keys /\ \A k \in S : store[k] # NoObject
    BY DEF Selected, Stored, TypeOK
<1>2. IsFiniteSet(S)
    BY <1>1, FS_Subset DEF Named
<1>3. /\ n \in Nat
      /\ keys \in [1 .. n -> S]
      /\ \A s \in S : \E i \in 1 .. n : keys[i] = s
      /\ \A i, j \in 1 .. n : keys[i] = keys[j] => i = j
    BY <1>2, SetToSeqLists
<1>4. Replay(q) = [i \in 1 .. n |-> EventOf("added", store[keys[i]])]
    BY <1>3 DEF Replay
<1> HIDE DEF keys, n, S
<1>5. ASSUME NEW k \in S PROVE EventOf("added", store[k]) \in Event
    <2>1. store[k] \in Object
        BY <1>1 DEF TypeOK
    <2>2. QED
        BY <2>1, NSRegistrationAssumption DEF Object, Versions, EventOf, Event
<1>6. \A i \in 1 .. n : keys[i] \in S /\ EventOf("added", store[keys[i]]) \in Event
    BY <1>3, <1>5
<1>7. /\ Replay(q) \in [1 .. n -> Event]
      /\ \A i \in 1 .. n : Replay(q)[i] = EventOf("added", store[keys[i]])
    BY <1>4, <1>6
<1>8. Replay(q) \in Seq(Event) /\ Len(Replay(q)) = n
    BY <1>3, <1>7
<1>9. EachOnce(Replay(q), q)
    BY <1>3, <1>7, <1>8 DEF S, EachOnce
<1>10. QED
    BY <1>1, <1>3, <1>6, <1>7, <1>8, <1>9 DEF S

\* The names in a channel are those of its events.
LEMMA NamesOf ==
    ASSUME NEW es \in Seq(Event)
    PROVE  \A n : n \in NamesIn(es) <=> \E i \in 1 .. Len(es) : es[i].name = n
<1>1. DOMAIN es = 1 .. Len(es)
    BY LenProperties
<1>2. QED
    BY <1>1 DEF NamesIn

\* The names of typed events, without that of an error, are services.
LEMMA NamesOfEvents ==
    ASSUME TypeOK, Pending
    PROVE  /\ \A i \in 1 .. Len(events) : events[i] \in Event /\ i \in DOMAIN events
           /\ \A n : n \in NamesIn(events) <=> \E i \in 1 .. Len(events) : events[i].name = n
           /\ NamesIn(events) \ {NoName} \subseteq Names
           /\ remote = "open" => NamesIn(events) \subseteq Names
<1>1. DOMAIN events = 1 .. Len(events) /\ \A i \in 1 .. Len(events) : events[i] \in Event
    BY LenProperties, ElementOfSeq DEF TypeOK
<1>2. \A i \in 1 .. Len(events) : events[i].name # NoName => events[i].name \in Names
    BY <1>1 DEF Pending
<1>3. remote = "open" => \A i \in 1 .. Len(events) : events[i].name \in Names
    BY <1>1 DEF Pending
<1>4. QED
    BY <1>1, <1>2, <1>3 DEF NamesIn

\* The loop of watchRemoteStorage, the end of a watch, and the steps of a Find:
\* none of them changes the store or a call.
WatchStep == OpenWatch \/ Broadcast \/ Reopen \/ OpenFails \/ TimesOut \/ Breaks \/ Return
FindStep == \E c \in Callers : List(c) \/ FindFails(c) \/ Subscribe(c) \/ Leave(c)

\* What an ended watch still holds: a prefix, an error may come last.
LEMMA EndStep ==
    ASSUME TypeOK, TimesOut \/ Breaks
    PROVE  \E n \in 0 .. Len(events), b \in {0, 1} :
              /\ EndWatch(SubSeq(events, 1, n), b)
              /\ b = 1 => breaks < MaxBreaks
              /\ events' \in {SubSeq(events, 1, n),
                              Append(SubSeq(events, 1, n), EventOf("error", Empty))}
<1>1. CASE TimesOut
    <2>1. events = SubSeq(events, 1, Len(events)) /\ Len(events) \in 0 .. Len(events)
        BY SubSeqFull, LenProperties DEF TypeOK
    <2>2. EndWatch(SubSeq(events, 1, Len(events)), 0) /\ events' = SubSeq(events, 1, Len(events))
        BY <1>1, <2>1 DEF TimesOut
    <2>3. Len(events) \in 0 .. Len(events) /\ 0 \in {0, 1} /\ 0 # 1
        BY <2>1
    <2> WITNESS Len(events) \in 0 .. Len(events), 0 \in {0, 1}
    <2>4. QED
        BY <2>2, <2>3
<1>2. CASE Breaks
    BY <1>2 DEF Breaks
<1>3. QED
    BY <1>1, <1>2

\* A prefix of the events, as it is left in the watch.
LEMMA Prefix ==
    ASSUME TypeOK, NEW n \in 0 .. Len(events)
    PROVE  /\ SubSeq(events, 1, n) \in Seq(Event)
           /\ Len(SubSeq(events, 1, n)) = n
           /\ \A i \in 1 .. n : SubSeq(events, 1, n)[i] = events[i]
<1>1. Len(events) \in Nat /\ n \in Int
    BY LenProperties DEF TypeOK
<1>2. \A i \in 1 .. n : events[i] \in Event
    BY <1>1, ElementOfSeq DEF TypeOK
<1>3. QED
    BY <1>1, <1>2, SubSeqProperties

\* The watch stays typed.
LEMMA WatchEvents ==
    ASSUME TInv, WatchStep
    PROVE  /\ events' \in Seq(Event)
           /\ Pending'
<1>0. TypeOK /\ Named /\ Pending /\ revision \in Nat
    BY NSRegistrationAssumption DEF TInv, TypeOK
<1>1. CASE OpenWatch
    <2>1. events' = Replay(WatchRequest) /\ remote' = "open" /\ revision' = revision
        BY <1>1 DEF OpenWatch
    <2>2. ASSUME NEW i \in 1 .. Len(events')
          PROVE  /\ events'[i].version <= revision'
                 /\ events'[i].type = "added" /\ events'[i].name \in Names
        <3>1. PICK k \in Selected(WatchRequest, store) : events'[i] = EventOf("added", store[k])
            BY <1>0, <2>1, Replayed
        <3>2. k \in Keys /\ store[k] # NoObject
            BY <1>0, Replayed
        <3>3. store[k] \in Object /\ store[k].version <= revision
            BY <1>0, <3>2 DEF TypeOK, Named
        <3>4. QED
            BY <2>1, <3>1, <3>3 DEF EventOf, Object
    <2>3. QED
        BY <1>0, <2>1, <2>2, Replayed DEF Pending
<1>2. CASE Broadcast
    <2>1. events # <<>> /\ events' = Tail(events) /\ UNCHANGED <<remote, revision>>
          /\ remote \in {"open", "ended"}
        BY <1>2 DEF Broadcast
    <2>2. /\ events' \in Seq(Event) /\ Len(events') = Len(events) - 1
          /\ \A i \in 1 .. Len(events') : events'[i] = events[i + 1]
        BY <1>0, <2>1, HeadTailProperties DEF TypeOK
    <2>3. Len(events) \in Nat
        BY <1>0, LenProperties DEF TypeOK
    <2>4. \A i \in 1 .. Len(events') : i + 1 \in 1 .. Len(events)
        BY <2>2, <2>3
    <2>5. QED
        BY <1>0, <2>1, <2>2, <2>4 DEF Pending
<1>3. CASE Reopen \/ OpenFails \/ Return
    <2>1. /\ events' \in {events, <<>>} /\ UNCHANGED revision
          /\ remote' \in {"opening", "returned"} => events' = <<>>
          /\ events' = <<>> \/ remote' = remote
        BY <1>0, <1>3 DEF Reopen, OpenFails, Return, Pending
    <2>2. events' \in Seq(Event)
        <3>1. events \in Seq(Event) /\ <<>> \in Seq(Event)
            BY <1>0, EmptySeq DEF TypeOK
        <3>2. QED
            BY <2>1, <3>1
    <2>3. CASE events' = <<>>
        BY <2>2, <2>3 DEF Pending
    <2>4. CASE remote' = remote /\ events' = events
        <3>1. UNCHANGED <<remote, events, revision>>
            BY <2>1, <2>4
        <3>2. Pending'
            BY <1>0, <3>1 DEF Pending
        <3>3. QED
            BY <2>2, <3>2
    <2>5. QED
        BY <2>1, <2>2, <2>3, <2>4
<1>4. CASE TimesOut \/ Breaks
    <2>1. PICK n \in 0 .. Len(events), b \in {0, 1} :
              /\ EndWatch(SubSeq(events, 1, n), b)
              /\ events' \in {SubSeq(events, 1, n),
                              Append(SubSeq(events, 1, n), EventOf("error", Empty))}
        BY <1>0, <1>4, EndStep
    <2> DEFINE rest == SubSeq(events, 1, n)
               error == EventOf("error", Empty)
    <2>2. remote' = "ended" /\ revision' = revision
        BY <2>1 DEF EndWatch
    <2>3. Len(events) \in Nat /\ n \in Nat
        BY <1>0, LenProperties DEF TypeOK
    <2>4. /\ rest \in Seq(Event) /\ Len(rest) = n
          /\ \A i \in 1 .. n : rest[i] = events[i] /\ i \in 1 .. Len(events)
        BY <1>0, <2>3, Prefix
    <2>5. error \in Event /\ error.version = 0 /\ error.type = "error" /\ error.name = NoName
        BY NSRegistrationAssumption DEF EventOf, Empty, Event
    <2>6. events' \in {rest, Append(rest, error)}
        BY <2>1
    <2> HIDE DEF rest, error
    <2>7. CASE events' = rest
        BY <1>0, <2>2, <2>4, <2>7 DEF Pending
    <2>8. CASE events' = Append(rest, error)
        <3>1. /\ events' \in Seq(Event) /\ Len(events') = n + 1
              /\ \A i \in 1 .. n : events'[i] = rest[i]
              /\ events'[n + 1] = error
            BY <2>4, <2>5, <2>8, AppendProperties
        <3>2. ASSUME NEW i \in 1 .. n + 1
              PROVE  /\ events'[i].version <= revision'
                     /\ events'[i].type = "error" => events'[i].name = NoName
                     /\ events'[i].type # "error" => events'[i].name \in Names
            <4>1. CASE i = n + 1
                BY <1>0, <2>2, <2>5, <3>1, <4>1
            <4>2. CASE i \in 1 .. n
                BY <1>0, <2>2, <2>4, <3>1, <4>2 DEF Pending
            <4>3. QED
                BY <2>3, <4>1, <4>2
        <3>3. QED
            BY <2>2, <3>1, <3>2 DEF Pending
    <2>9. QED
        BY <2>6, <2>7, <2>8
<1>5. QED
    BY <1>1, <1>2, <1>3, <1>4 DEF WatchStep

\* The names of the events a breaking connection takes with it.
LEMMA CutNames ==
    ASSUME TypeOK, NEW n \in 0 .. Len(events)
    PROVE  LET cut == NamesIn(SubSeq(events, n + 1, Len(events))) IN
           \A m : m \in cut <=> \E i \in n + 1 .. Len(events) : events[i].name = m
<1> DEFINE rest == SubSeq(events, n + 1, Len(events))
           l == Len(events)
<1>1. l \in Nat /\ n \in 0 .. l /\ n + 1 \in Int
    BY LenProperties DEF TypeOK
<1>2. \A i \in n + 1 .. l : events[i] \in Event
    BY <1>1, ElementOfSeq DEF TypeOK
<1>3. /\ rest \in Seq(Event) /\ Len(rest) = l - n
      /\ \A i \in 1 .. l - n : rest[i] = events[n + i]
    <2>1. /\ rest \in Seq(Event)
          /\ Len(rest) = IF n + 1 <= l THEN l - (n + 1) + 1 ELSE 0
          /\ \A i \in 1 .. l - (n + 1) + 1 : rest[i] = events[(n + 1) + i - 1]
        BY <1>1, <1>2, SubSeqProperties
    <2>2. QED
        BY <1>1, <2>1
<1>4. DOMAIN rest = 1 .. l - n
    BY <1>3, LenProperties
<1>5. \A i \in 1 .. l - n : n + i \in n + 1 .. l
    BY <1>1
<1>6. \A i \in n + 1 .. l : i - n \in 1 .. l - n /\ n + (i - n) = i
    BY <1>1
<1> HIDE DEF l
<1>7. \A i \in n + 1 .. l : rest[i - n] = events[i]
    BY <1>3, <1>6
<1> HIDE DEF rest
<1>8. \A m : (\E i \in 1 .. l - n : rest[i].name = m) => \E i \in n + 1 .. l : events[i].name = m
    BY <1>3, <1>5
<1>9. \A m : (\E i \in n + 1 .. l : events[i].name = m) => \E i \in 1 .. l - n : rest[i].name = m
    BY <1>6, <1>7
<1>10. \A m : m \in NamesIn(rest) <=> \E i \in 1 .. l - n : rest[i].name = m
    BY <1>4 DEF NamesIn
<1>11. QED
    BY <1>8, <1>9, <1>10 DEF rest, l

\* The types after a step of the watch ...
LEMMA WatchTInv == ASSUME TInv, WatchStep PROVE TInv'
<1> USE NSRegistrationAssumption
<1>0. TypeOK /\ Room /\ Named /\ Pending
    BY DEF TInv
<1>1. events' \in Seq(Event) /\ Pending'
    BY WatchEvents
<1>2. UNCHANGED <<home, store, revision, call, result, interfered, find>>
    BY DEF WatchStep, OpenWatch, Broadcast, Reopen, OpenFails, TimesOut, Breaks, Return, EndWatch,
           clientVars, findVars
<1>3. Named' /\ Room'
    BY <1>0, <1>2 DEF Named, Room, Stored, InFlight
<1>4. /\ remote' \in {"opening", "open", "ended", "returned"}
      /\ sleep' \in 1 .. MaxSleep
      /\ breaks' \in 0 .. MaxBreaks
    <2>1. CASE OpenWatch \/ Broadcast \/ Reopen \/ Return
        BY <1>0, <2>1 DEF OpenWatch, Broadcast, Reopen, Return, TypeOK
    <2>2. CASE OpenFails
        BY <1>0, <2>2 DEF OpenFails, Backoff, TypeOK
    <2>3. CASE TimesOut \/ Breaks
        <3>1. PICK n \in 0 .. Len(events), b \in {0, 1} :
                  EndWatch(SubSeq(events, 1, n), b) /\ (b = 1 => breaks < MaxBreaks)
            BY <1>0, <2>3, EndStep
        <3>2. remote' = "ended" /\ sleep' = sleep /\ breaks' = breaks + b
            BY <3>1 DEF EndWatch
        <3>3. breaks' \in 0 .. MaxBreaks
            BY <1>0, <3>1, <3>2 DEF TypeOK
        <3>4. QED
            BY <1>0, <3>2, <3>3 DEF TypeOK
    <2>4. QED
        BY <2>1, <2>2, <2>3 DEF WatchStep
<1>5. /\ view' \in [Callers -> [Names -> 0 .. MaxVersion]]
      /\ missed' \in [Callers -> SUBSET Names]
    <2>0. /\ view \in [Callers -> [Names -> 0 .. MaxVersion]]
          /\ missed \in [Callers -> SUBSET Names]
        BY <1>0 DEF TypeOK
    <2>1. CASE OpenWatch \/ Reopen \/ OpenFails
        <3> DEFINE told == {k[2] : k \in Selected(WatchRequest, store)}
        <3>1. CASE OpenWatch
            <4>1. /\ view' = view
                  /\ missed' = [c \in Callers |-> IF find[c] = "watching" THEN missed[c] \ told
                                                 ELSE missed[c]]
                BY <3>1 DEF OpenWatch
            <4> HIDE DEF told
            <4>2. QED
                BY <2>0, <4>1
        <3>2. CASE Reopen
            <4>1. UNCHANGED <<view, missed>>
                BY <3>2 DEF Reopen, findVars
            <4>2. QED
                BY <2>0, <4>1
        <3>3. CASE OpenFails
            <4>1. UNCHANGED <<view, missed>>
                BY <3>3 DEF OpenFails, findVars
            <4>2. QED
                BY <2>0, <4>1
        <3>4. QED
            BY <2>1, <3>1, <3>2, <3>3
    <2>2. CASE Broadcast
        <3> DEFINE e == Head(events)
        <3>1. events # <<>> /\ events \in Seq(Event)
            BY <1>0, <2>2 DEF Broadcast, TypeOK
        <3>2. e \in Event /\ e = events[1] /\ 1 \in 1 .. Len(events)
            BY <3>1, HeadTailProperties, EmptySeq
        <3>3. e.type # "error" => e.name \in Names
            BY <1>0, <3>2 DEF Pending
        <3>4. After(e) \in 0 .. MaxVersion
            BY <3>2 DEF After, Event
        <3>5. \/ UNCHANGED <<view, missed>>
              \/ /\ e.name \in Names
                 /\ view' = [c \in Callers |-> IF find[c] = "watching"
                                               THEN [view[c] EXCEPT ![e.name] = After(e)]
                                               ELSE view[c]]
                 /\ missed' = [c \in Callers |->
                        IF find[c] = "listed" /\ ~Reflected(e, view[c][e.name])
                        THEN missed[c] \cup {e.name} ELSE missed[c]]
            BY <2>2, <3>3 DEF Broadcast
        <3> HIDE DEF e
        <3>6. /\ view \in [Callers -> [Names -> 0 .. MaxVersion]]
              /\ missed \in [Callers -> SUBSET Names]
            BY <1>0 DEF TypeOK
        <3>7. view' \in [Callers -> [Names -> 0 .. MaxVersion]]
            <4> DEFINE sent(c) == [view[c] EXCEPT ![e.name] = After(e)]
            <4>1. ASSUME NEW c \in Callers PROVE sent(c) \in [Names -> 0 .. MaxVersion]
                BY <3>4, <3>6
            <4> HIDE DEF sent
            <4>2. \/ view' = view
                  \/ view' = [c \in Callers |-> IF find[c] = "watching" THEN sent(c) ELSE view[c]]
                BY <3>5 DEF sent
            <4>3. QED
                BY <3>6, <4>1, <4>2
        <3>8. missed' \in [Callers -> SUBSET Names]
            <4> DEFINE untold(c) == find[c] = "listed" /\ ~Reflected(e, view[c][e.name])
            <4>1. \/ missed' = missed
                  \/ /\ e.name \in Names
                     /\ missed' = [c \in Callers |-> IF untold(c) THEN missed[c] \cup {e.name}
                                                      ELSE missed[c]]
                BY <3>5
            <4> HIDE DEF untold
            <4>2. QED
                BY <3>6, <4>1
        <3>9. QED
            BY <3>7, <3>8
    <2>3. CASE TimesOut \/ Breaks
        <3>1. PICK n \in 0 .. Len(events), b \in {0, 1} : EndWatch(SubSeq(events, 1, n), b)
            BY <1>0, <2>3, EndStep
        <3>2. Len(SubSeq(events, 1, n)) = n
            BY <1>0, Prefix
        <3> DEFINE cut == NamesIn(SubSeq(events, n + 1, Len(events)))
        <3>3. cut \subseteq NamesIn(events)
            <4>1. \A i \in n + 1 .. Len(events) : i \in 1 .. Len(events)
                BY <1>0, LenProperties DEF TypeOK
            <4>2. QED
                BY <1>0, <4>1, CutNames, NamesOfEvents
        <3>4. cut \subseteq Names
            BY <1>0, <3>1, <3>3, NamesOfEvents DEF EndWatch
        <3>5. /\ view' = view
              /\ missed' = [c \in Callers |-> IF Listing(c) THEN missed[c] \cup cut ELSE missed[c]]
            BY <3>1, <3>2 DEF EndWatch
        <3> HIDE DEF cut
        <3>6. QED
            BY <1>0, <3>4, <3>5 DEF TypeOK
    <2>4. CASE Return
        BY <1>0, <2>4, NamesOfEvents DEF Return, TypeOK
    <2>5. QED
        BY <2>1, <2>2, <2>3, <2>4 DEF WatchStep
<1>6. TypeOK'
    BY <1>0, <1>1, <1>2, <1>4, <1>5 DEF TypeOK
<1>7. QED
    BY <1>1, <1>3, <1>6 DEF TInv

\* ... and after one of a Find.
LEMMA FindTInv ==
    ASSUME TInv, NEW c \in Callers, List(c) \/ FindFails(c) \/ Subscribe(c) \/ Leave(c)
    PROVE  TInv'
<1> USE NSRegistrationAssumption
<1>0. TypeOK /\ Room /\ Named /\ Pending
    BY DEF TInv
<1>1. UNCHANGED <<home, store, revision, clientVars, watchVars>>
    BY DEF List, FindFails, Subscribe, Leave
<1>2. Named' /\ Room' /\ Pending'
    BY <1>0, <1>1 DEF Named, Room, Pending, Stored, InFlight, clientVars, watchVars
<1>3. find' \in [Callers -> {"idle", "listed", "watching", "ended", "failed"}]
    BY <1>0 DEF List, FindFails, Subscribe, Leave, TypeOK
<1>4. view' \in [Callers -> [Names -> 0 .. MaxVersion]]
    <2>1. CASE List(c)
        <3>1. PICK v \in [Names -> 0 .. revision] : view' = [view EXCEPT ![c] = v]
            BY <2>1 DEF List
        <3>2. 0 .. revision \subseteq 0 .. MaxVersion
            BY <1>0 DEF TypeOK
        <3>3. v \in [Names -> 0 .. MaxVersion]
            BY <3>2
        <3>4. QED
            BY <1>0, <3>1, <3>3 DEF TypeOK
    <2>2. CASE ~List(c)
        BY <1>0, <2>2 DEF FindFails, Subscribe, Leave, TypeOK
    <2>3. QED
        BY <2>1, <2>2
<1>5. missed' \in [Callers -> SUBSET Names]
    BY <1>0, NamesOfEvents DEF List, FindFails, Subscribe, Leave, TypeOK
<1>6. TypeOK'
    BY <1>0, <1>1, <1>3, <1>4, <1>5 DEF TypeOK, clientVars, watchVars
<1>7. QED
    BY <1>2, <1>6 DEF TInv

\* Every step is one of these.
LEMMA NextCases ==
    ASSUME [Next]_vars
    PROVE  \/ \E x \in Clients : CallStep(x) \/ Create(x) \/ Update(x) \/ Delete(x)
           \/ WatchStep
           \/ FindStep
           \/ UNCHANGED vars
    BY DEF Next, CallStep, WatchStep, FindStep, WatchRemoteStorage

\* The types hold after every step.
LEMMA StepTInv == TInv /\ [Next]_vars => TInv'
<1> SUFFICES ASSUME TInv, [Next]_vars PROVE TInv'
    OBVIOUS
<1>1. CASE UNCHANGED vars
    BY <1>1 DEF vars, TInv, TypeOK, Room, Named, Pending, Stored, InFlight
<1>2. QED
    BY <1>1, NextCases, CallTInv, WriteTInv, DeleteTInv, WatchTInv, FindTInv DEF FindStep

\* The store, the calls, the watch and the callers' views have the values the
\* code can give them; the back-off of watchRemoteStorage stays in its limits.
THEOREM TypeCorrect == Spec => []TypeOK
<1>1. TInv => TypeOK
    BY DEF TInv
<1>2. QED
    BY <1>1, InitTInv, StepTInv, PTL DEF Spec
-----------------------------------------------------------------------------
(***************************************************************************)
(* Admission and conflicts.                                                *)
(***************************************************************************)

\* A step of a call that does not write leaves the other calls alone.
LEMMA CallFrame ==
    ASSUME TypeOK, NEW x \in Clients, CallStep(x)
    PROVE  \A y \in Clients : y # x => call'[y] = call[y] /\ result'[y] = result[y]
                                       /\ interfered'[y] = interfered[y]
    BY DEF CallStep, Register, Unregister, EndsElsewhere, AlreadyExists, Get, GotObject,
           UpdateRefused, DeleteRefused, RequestLost, SetCall, End, TypeOK

\* A call is taken on by a client that is admitted, or goes on with its name.
LEMMA CallNamed ==
    ASSUME TypeOK, NEW x \in Clients, CallStep(x), call'[x] # Idle
    PROVE  \/ call[x] # Idle /\ call'[x].name = call[x].name
           \/ x \in Opts.nsServer /\ call'[x].name \notin Interdomain
<1>1. call \in [Clients -> Call]
    BY DEF TypeOK
<1>2. ASSUME NEW n \in Requests[x], Register(x, n) \/ Unregister(x, n)
      PROVE  x \in Opts.nsServer /\ call'[x].name \notin Interdomain
    <2>1. ReachesEtcd(x, n) /\ call'[x].name = n
        BY <1>1, <1>2 DEF Register, Unregister, SetCall
    <2>2. QED
        BY <2>1, Reaches
<1>3. ASSUME AlreadyExists(x) \/ Get(x)
      PROVE  call[x] # Idle /\ call'[x].name = call[x].name
    <2>1. call[x].pc # "idle"
        BY <1>3 DEF AlreadyExists, Get
    <2>2. CASE AlreadyExists(x)
        <3>1. call'[x] = [call[x] EXCEPT !.pc = "get"]
            BY <1>1, <2>2 DEF AlreadyExists, SetCall
        <3>2. QED
            BY <2>1, <3>1 DEF Idle
    <2>3. CASE Get(x)
        <3>1. PICK object, lost : GotObject(x, object, lost)
            BY <2>3 DEF Get
        <3>2. QED
            BY <1>1, <2>1, <3>1 DEF GotObject, SetCall, Idle
    <2>4. QED
        BY <1>3, <2>2, <2>3
<1>4. ASSUME \/ \E n \in Requests[x] : EndsElsewhere(x, n)
             \/ UpdateRefused(x) \/ DeleteRefused(x) \/ RequestLost(x)
      PROVE  FALSE
    BY <1>1, <1>4 DEF EndsElsewhere, UpdateRefused, DeleteRefused, RequestLost, End, SetCall
<1>5. QED
    BY <1>2, <1>3, <1>4 DEF CallStep

\* Only admitted clients write, and only names without a domain.
LEMMA StepAdmitted == ASSUME TInv, Admitted, [Next]_vars PROVE Admitted'
<1> DEFINE Opens(x) == x \in Opts.nsServer /\ call[x].name \notin Interdomain
           Holds(k) == store[k].by \in Opts.nsServer /\ k[2] \notin Interdomain
<1>0. /\ TypeOK
      /\ \A x \in Clients : call[x] # Idle => Opens(x)
      /\ \A k \in Keys : store[k] # NoObject => Holds(k)
    BY DEF TInv, Admitted
<1>1. ASSUME NEW x \in Clients, CallStep(x) PROVE Admitted'
    <2>1. store' = store
        BY <1>1, CallStepQuiet DEF Quiet
    <2>2. ASSUME NEW y \in Clients, call'[y] # Idle PROVE Opens(y)'
        BY <1>0, <1>1, <2>2, CallFrame, CallNamed
    <2>3. QED
        BY <1>0, <2>1, <2>2 DEF Admitted
<1>2. ASSUME NEW x \in Clients, Create(x) \/ Update(x) PROVE Admitted'
    <2> DEFINE l == <<home[x], call[x].name>>
    <2>1. l \in Keys /\ store' = [store EXCEPT ![l] = Written(x)] /\ Answered(x)
        BY <1>2, WriteStep
    <2>2. call[x] # Idle
        BY <1>2 DEF Create, Update, Idle
    <2>3. x \in Opts.nsServer /\ l[2] \notin Interdomain /\ Written(x).by = x
        BY <1>0, <2>2 DEF Written
    <2> HIDE DEF l
    <2>4. ASSUME NEW k \in Keys, store'[k] # NoObject PROVE Holds(k)'
        <3>1. CASE k = l
            BY <1>0, <2>1, <2>3, <3>1 DEF TypeOK
        <3>2. CASE k # l
            BY <1>0, <2>1, <2>4, <3>2 DEF TypeOK
        <3>3. QED
            BY <3>1, <3>2
    <2>5. call' = [call EXCEPT ![x] = Idle] /\ call \in [Clients -> Call]
        BY <1>0, <2>1 DEF Answered, End, SetCall, TypeOK
    <2>6. ASSUME NEW y \in Clients, call'[y] # Idle PROVE Opens(y)'
        BY <1>0, <2>5, <2>6
    <2>7. QED
        BY <2>4, <2>6 DEF Admitted
<1>3. ASSUME NEW x \in Clients, Delete(x) PROVE Admitted'
    <2> DEFINE l == <<home[x], call[x].name>>
    <2>1. l \in Keys /\ store' = [store EXCEPT ![l] = NoObject] /\ Answered(x)
        BY <1>3, DeleteStep
    <2> HIDE DEF l
    <2>2. ASSUME NEW k \in Keys, store'[k] # NoObject PROVE Holds(k)'
        BY <1>0, <2>1, <2>2 DEF TypeOK
    <2>3. call' = [call EXCEPT ![x] = Idle] /\ call \in [Clients -> Call]
        BY <1>0, <2>1 DEF Answered, End, SetCall, TypeOK
    <2>4. ASSUME NEW y \in Clients, call'[y] # Idle PROVE Opens(y)'
        BY <1>0, <2>3, <2>4
    <2>5. QED
        BY <2>2, <2>4 DEF Admitted
<1>4. CASE WatchStep \/ FindStep \/ UNCHANGED vars
    <2>1. UNCHANGED <<store, call>>
        BY <1>4
        DEF WatchStep, OpenWatch, Broadcast, Reopen, OpenFails, TimesOut, Breaks, Return, EndWatch,
            FindStep, List, FindFails, Subscribe, Leave, clientVars, vars
    <2>2. QED
        BY <1>0, <2>1 DEF Admitted
<1>5. QED
    BY <1>1, <1>2, <1>3, <1>4, NextCases

\* What a call relies on is told by its own record, the store under its key and
\* whether it was interfered with.
LEMMA ReliesKept ==
    ASSUME NEW y \in Clients, Relies(y), home' = home, call'[y] = call[y],
           \/ interfered'[y]
           \/ /\ interfered'[y] = interfered[y]
              /\ \/ call[y].pc \notin {"get", "update"}
                 \/ store'[<<home[y], call[y].name>>] = store[<<home[y], call[y].name>>]
    PROVE  Relies(y)'
    BY DEF Relies

\* A step of a call that does not write.
LEMMA CallRelies ==
    ASSUME TInv, RelyAll, ConflictHasCause, NEW x \in Clients, CallStep(x)
    PROVE  RelyAll' /\ ConflictHasCause'
<1> DEFINE k == <<home[x], call[x].name>>
<1>0. TypeOK /\ Named /\ Relies(x) /\ call \in [Clients -> Call]
    BY DEF TInv, RelyAll, TypeOK
<1>1. UNCHANGED <<home, store>>
    BY CallStepQuiet DEF Quiet
<1>2. \A y \in Clients : y # x => call'[y] = call[y] /\ result'[y] = result[y]
                                  /\ interfered'[y] = interfered[y]
    BY <1>0, CallFrame
<1>3. ASSUME NEW y \in Clients, y # x PROVE Relies(y)'
    BY <1>1, <1>2, <1>3, ReliesKept DEF RelyAll
<1>4. ASSUME AlreadyExists(x) PROVE Relies(x)' /\ call'[x] # Idle
    <2>1. call'[x] = [call[x] EXCEPT !.pc = "get"] /\ call[x].pc = "create"
        BY <1>0, <1>4 DEF AlreadyExists, SetCall
    <2>2. call[x] \in [pc : {"create", "get", "delete"}, name : Names]
        BY <1>0, <2>1 DEF Call, Idle
    <2>3. call'[x].pc = "get" /\ call'[x].name = call[x].name
        BY <2>1, <2>2
    <2>4. store[k] # NoObject
        BY <1>0, <1>4, <2>1, AcceptedAt DEF AlreadyExists
    <2>5. QED
        BY <1>1, <2>3, <2>4 DEF Relies, Idle
<1>5. ASSUME Get(x) PROVE Relies(x)' /\ call'[x] # Idle
    <2>1. call[x].pc = "get" /\ interfered'[x] = interfered[x]
        BY <1>5 DEF Get, GotObject
    <2>2. PICK object, lost :
              /\ GotObject(x, object, lost)
              /\ lost \/ object = store[k] \/ store[k] = NoObject
        BY <1>0, <1>5, <2>1, AcceptedAt DEF Get
    <2>3. call'[x] = [pc |-> "update", name |-> call[x].name, got |-> object, lost |-> lost]
        BY <1>0, <2>2 DEF GotObject, SetCall
    <2>4. interfered[x] \/ store[k] # NoObject
        BY <1>0, <2>1 DEF Relies
    <2>5. lost \/ interfered'[x] \/ (store[k] # NoObject /\ object = store[k])
        BY <2>1, <2>2, <2>4
    <2>6. QED
        BY <1>1, <2>3, <2>5 DEF Relies, Idle
<1>6. ASSUME UpdateRefused(x)
      PROVE  interfered'[x] \/ result'[x] # "conflict"
    <2>1. call[x].pc = "update" /\ interfered' = interfered
          /\ result'[x] = IF call[x].lost THEN "fault" ELSE "conflict"
        BY <1>0, <1>6 DEF UpdateRefused, End, TypeOK
    <2>2. ASSUME ~call[x].lost, ~interfered[x] PROVE FALSE
        <3>1. store[k] # NoObject /\ call[x].got = store[k]
            BY <1>0, <2>1, <2>2 DEF Relies
        <3>2. call[x].name \in Names /\ call[x].got \in {Empty} \cup Object
            BY <1>0, <2>1, CallFields
        <3>3. k \in Keys /\ k[2] # NoName
            BY <1>0, <3>2, ClientKey
        <3>4. call[x].got.name = call[x].name
            BY <1>0, <3>1, <3>3 DEF Named
        <3>5. Accepted(UpdateRequest(x), store)
            BY <3>1, <3>2, <3>3, <3>4, UpdateAccepted
        <3>6. QED
            BY <1>6, <3>5 DEF UpdateRefused
    <2>3. QED
        BY <2>1, <2>2
<1>7. ASSUME \/ \E n \in Requests[x] : Register(x, n) \/ Unregister(x, n) \/ EndsElsewhere(x, n)
             \/ UpdateRefused(x) \/ DeleteRefused(x) \/ RequestLost(x)
      PROVE  call'[x].pc \in {"idle", "create", "delete"} /\ Relies(x)'
    <2>1. call'[x].pc \in {"idle", "create", "delete"}
        BY <1>0, <1>7
        DEF Register, Unregister, EndsElsewhere, UpdateRefused, DeleteRefused, RequestLost,
            SetCall, End, Idle
    <2>2. QED
        BY <2>1 DEF Relies
<1>8. ASSUME \/ \E n \in Requests[x] : Register(x, n) \/ Unregister(x, n) \/ EndsElsewhere(x, n)
             \/ DeleteRefused(x) \/ RequestLost(x)
      PROVE  result'[x] # "conflict"
    BY <1>0, <1>8
    DEF Register, Unregister, EndsElsewhere, DeleteRefused, RequestLost, SetCall, End, TypeOK
<1>9. Relies(x)' /\ (result'[x] = "conflict" /\ call'[x] = Idle => interfered'[x])
    BY <1>4, <1>5, <1>6, <1>7, <1>8 DEF CallStep
<1>10. RelyAll'
    BY <1>3, <1>9 DEF RelyAll
<1>11. ConflictHasCause'
    BY <1>2, <1>9 DEF ConflictHasCause
<1>12. QED
    BY <1>10, <1>11

\* A change of the store interferes with the calls for its key.
LEMMA ChangeRelies ==
    ASSUME TInv, RelyAll, ConflictHasCause, NEW x \in Clients, NEW k, NEW value,
           store' = [store EXCEPT ![k] = value], home' = home, Changed(k, x), Answered(x)
    PROVE  RelyAll' /\ ConflictHasCause'
<1>0. TypeOK /\ call \in [Clients -> Call]
    BY DEF TInv, TypeOK
<1>1. /\ call' = [call EXCEPT ![x] = Idle]
      /\ result'[x] # "conflict" /\ \A y \in Clients : y # x => result'[y] = result[y]
    BY <1>0 DEF Answered, End, SetCall, TypeOK
<1>2. \A y \in Clients : interfered'[y] <=>
          interfered[y] \/ (y # x /\ call[y] # Idle /\ <<home[y], call[y].name>> = k)
    BY DEF Changed
<1>3. Relies(x)'
    BY <1>0, <1>1 DEF Relies, Idle
<1>4. ASSUME NEW y \in Clients, y # x PROVE Relies(y)'
    <2>1. call'[y] = call[y] /\ Relies(y) /\ call[y] \in Call
        BY <1>0, <1>1, <1>4 DEF RelyAll
    <2>2. CASE call[y] = Idle
        BY <2>1, <2>2 DEF Relies, Idle
    <2>3. CASE call[y] # Idle
        <3>1. <<home[y], call[y].name>> \in Keys
            BY <1>0, <2>1, <2>3, CallFields, ClientKey
        <3>2. CASE interfered'[y]
            BY <2>1, <3>2, ReliesKept
        <3>3. CASE ~interfered'[y]
            <4>1. <<home[y], call[y].name>> # k /\ interfered'[y] = interfered[y]
                <5>1. interfered[y] \in BOOLEAN /\ interfered'[y] \in BOOLEAN
                    BY <1>0 DEF TypeOK, Changed
                <5>2. QED
                    BY <1>2, <1>4, <2>3, <3>3, <5>1
            <4>2. store'[<<home[y], call[y].name>>] = store[<<home[y], call[y].name>>]
                BY <1>0, <3>1, <4>1 DEF TypeOK
            <4>3. QED
                BY <2>1, <4>1, <4>2, ReliesKept
        <3>4. QED
            BY <3>2, <3>3
    <2>4. QED
        BY <2>2, <2>3
<1>5. RelyAll'
    BY <1>3, <1>4 DEF RelyAll
<1>6. ConflictHasCause'
    <2>1. \A y \in Clients : y # x => call'[y] = call[y]
        BY <1>0, <1>1
    <2>2. QED
        BY <1>1, <1>2, <2>1 DEF ConflictHasCause
<1>7. QED
    BY <1>5, <1>6

\* The two hold after every step.
LEMMA StepRelies ==
    ASSUME TInv, RelyAll, ConflictHasCause, [Next]_vars
    PROVE  RelyAll' /\ ConflictHasCause'
<1>1. ASSUME NEW x \in Clients, Create(x) \/ Update(x) PROVE RelyAll' /\ ConflictHasCause'
    <2>1. /\ store' = [store EXCEPT ![<<home[x], call[x].name>>] = Written(x)]
          /\ home' = home /\ Changed(<<home[x], call[x].name>>, x) /\ Answered(x)
        BY <1>1, WriteStep
    <2>2. QED
        BY <2>1, ChangeRelies
<1>2. ASSUME NEW x \in Clients, Delete(x) PROVE RelyAll' /\ ConflictHasCause'
    <2>1. /\ store' = [store EXCEPT ![<<home[x], call[x].name>>] = NoObject]
          /\ home' = home /\ Changed(<<home[x], call[x].name>>, x) /\ Answered(x)
        BY <1>2, DeleteStep
    <2>2. QED
        BY <2>1, ChangeRelies
<1>3. CASE WatchStep \/ FindStep \/ UNCHANGED vars
    <2>1. UNCHANGED <<home, store, call, result, interfered>>
        BY <1>3
        DEF WatchStep, OpenWatch, Broadcast, Reopen, OpenFails, TimesOut, Breaks, Return, EndWatch,
            FindStep, List, FindFails, Subscribe, Leave, clientVars, vars
    <2>2. QED
        BY <2>1 DEF RelyAll, Relies, ConflictHasCause
<1>4. QED
    BY <1>1, <1>2, <1>3, CallRelies, NextCases
-----------------------------------------------------------------------------
(***************************************************************************)
(* What callers know.                                                      *)
(***************************************************************************)

\* Replicas that share a namespace store a service under one key.
LEMMA OneKey ==
    ASSUME TypeOK, Named, Together, NEW k \in Keys, NEW l \in Keys,
           store[k] # NoObject, store[l] # NoObject, k[2] = l[2]
    PROVE  k = l
<1>1. k[1] = l[1]
    BY DEF Named, Together
<1>2. k = <<k[1], k[2]>> /\ l = <<l[1], l[2]>>
    BY DEF Keys
<1>3. QED
    BY <1>1, <1>2

\* A List says of a service the version of it that is stored, or nothing.
ListsStored ==
    \A n : /\ \A k \in Keys : k[2] = n /\ store[k] # NoObject =>
                    ListedVersions(n) = {store[k].version}
           /\ (\A k \in Keys : k[2] = n => store[k] = NoObject) => ListedVersions(n) = {0}

\* That is so when replicas share a namespace, ...
LEMMA ListedIs == TypeOK /\ Named /\ Together => ListsStored
<1> SUFFICES ASSUME TypeOK, Named, Together, NEW n
             PROVE  /\ \A k \in Keys : k[2] = n /\ store[k] # NoObject =>
                           ListedVersions(n) = {store[k].version}
                    /\ (\A k \in Keys : k[2] = n => store[k] = NoObject) =>
                           ListedVersions(n) = {0}
    BY DEF ListsStored
<1> DEFINE ks == {k \in Selected(ListRequest, store) : k[2] = n}
<1>1. ks = {k \in Keys : store[k] # NoObject /\ k[2] = n}
    BY DEF Selected, Stored, ListRequest, ServiceList, ServiceRequest, Request, TypeOK
<1>2. ListedVersions(n) = IF ks = {} THEN {0} ELSE {store[k].version : k \in ks}
    BY DEF ListedVersions
<1> HIDE DEF ks
<1>3. ASSUME NEW k \in Keys, k[2] = n, store[k] # NoObject
      PROVE  ListedVersions(n) = {store[k].version}
    <2>1. ks = {k}
        BY <1>1, <1>3, OneKey
    <2>2. QED
        BY <1>2, <2>1
<1>4. (\A k \in Keys : k[2] = n => store[k] = NoObject) => ListedVersions(n) = {0}
    BY <1>1, <1>2
<1>5. QED
    BY <1>3, <1>4

\* ... now and after a step.
LEMMA ListedIsNext == TypeOK' /\ Named' /\ Together' => ListsStored'
    BY ListedIs, PTL

\* The last word on a service is one event's.
LEMMA LastIsOne ==
    ASSUME TypeOK, NEW n, NEW i \in 1 .. Len(events), NEW j \in 1 .. Len(events),
           LastOn(n, i), LastOn(n, j)
    PROVE  i = j
<1>1. Len(events) \in Nat
    BY LenProperties DEF TypeOK
<1>2. ~(i < j) /\ ~(j < i)
    BY <1>1 DEF LastOn
<1>3. QED
    BY <1>1, <1>2

\* It has a word when it has an event.
LEMMA LastNames ==
    ASSUME TypeOK, NEW n, NEW i \in 1 .. Len(events), LastOn(n, i)
    PROVE  n \in NamesIn(events)
    BY NamesOf DEF LastOn, TypeOK

\* An event of a change is the last word on its service, and no other's.
LEMMA Appended ==
    ASSUME TypeOK, NEW e \in Event, events' = Append(events, e)
    PROVE  /\ \E i \in 1 .. Len(events') : events'[i] = e /\ LastOn(e.name, i)'
           /\ e.name \in NamesIn(events')
           /\ \A n : n # e.name =>
                 /\ n \in NamesIn(events') <=> n \in NamesIn(events)
                 /\ \A i \in 1 .. Len(events) :
                       /\ i \in 1 .. Len(events') /\ events'[i] = events[i]
                       /\ LastOn(n, i) => LastOn(n, i)'
<1>1. /\ events \in Seq(Event) /\ Len(events) \in Nat
    BY LenProperties DEF TypeOK
<1> DEFINE l == Len(events)
<1>2. /\ events' \in Seq(Event) /\ Len(events') = l + 1 /\ l \in Nat
      /\ \A i \in 1 .. l : events'[i] = events[i]
      /\ events'[l + 1] = e
    BY <1>1, AppendProperties
<1> HIDE DEF l
<1>3. l + 1 \in 1 .. Len(events') /\ events'[l + 1] = e
    BY <1>2
<1>4. \E i \in 1 .. Len(events') : events'[i] = e /\ LastOn(e.name, i)'
    <2>1. \A j \in l + 1 + 1 .. Len(events') : FALSE
        BY <1>2
    <2>2. PICK i \in 1 .. Len(events') : i = l + 1
        BY <1>3
    <2>3. events'[i].name = e.name /\ \A j \in i + 1 .. Len(events') : events'[j].name # e.name
        BY <1>3, <2>1, <2>2
    <2>4. QED
        BY <1>3, <2>2, <2>3 DEF LastOn
<1>5. \A n : n \in NamesIn(events') <=> \E i \in 1 .. Len(events') : events'[i].name = n
    BY <1>2, NamesOf
<1>6. \A n : n \in NamesIn(events) <=> \E i \in 1 .. l : events[i].name = n
    BY <1>1, NamesOf DEF l
<1>7. ASSUME NEW n, n # e.name
      PROVE  /\ n \in NamesIn(events') <=> n \in NamesIn(events)
             /\ \A i \in 1 .. l :
                   /\ i \in 1 .. Len(events') /\ events'[i] = events[i]
                   /\ LastOn(n, i) => LastOn(n, i)'
    <2>1. \A i \in 1 .. l : i \in 1 .. Len(events')
        BY <1>2
    <2>2. \A i \in 1 .. Len(events') : i \in 1 .. l \/ i = l + 1
        BY <1>2
    <2>3. n \in NamesIn(events') <=> n \in NamesIn(events)
        BY <1>2, <1>5, <1>6, <1>7, <2>1, <2>2
    <2>4. ASSUME NEW i \in 1 .. l, LastOn(n, i) PROVE LastOn(n, i)'
        <3>1. \A j \in i + 1 .. Len(events') : j \in i + 1 .. l \/ j = l + 1
            BY <1>2
        <3>2. \A j \in i + 1 .. l : j \in 1 .. l
            BY <1>2
        <3>3. events[i].name = n /\ \A j \in i + 1 .. l : events[j].name # n
            BY <2>4 DEF LastOn, l
        <3>4. events'[i].name = n
            BY <1>2, <3>3
        <3>5. \A j \in i + 1 .. Len(events') : events'[j].name # n
            BY <1>2, <1>7, <3>1, <3>2, <3>3
        <3>6. QED
            BY <3>4, <3>5 DEF LastOn
    <2>5. QED
        BY <1>2, <2>1, <2>3, <2>4
<1>8. QED
    BY <1>3, <1>4, <1>5, <1>7 DEF l

\* A change of a service is no news of the others.
LEMMA OtherListed ==
    ASSUME TypeOK, TypeOK', NEW k \in Keys, NEW value, store' = [store EXCEPT ![k] = value],
           NEW n, n # k[2]
    PROVE  ListedVersions(n)' = ListedVersions(n)
<1>1. \A l \in Keys : l[2] = n => store'[l] = store[l]
    BY DEF TypeOK
<1> DEFINE ks == {l \in Selected(ListRequest, store) : l[2] = n}
           ls == {l \in Selected(ListRequest, store') : l[2] = n}
<1>2. ks = {l \in Keys : store[l] # NoObject /\ l[2] = n}
    BY DEF Selected, Stored, ListRequest, ServiceList, ServiceRequest, Request, TypeOK
<1>3. ls = {l \in Keys : store'[l] # NoObject /\ l[2] = n}
    BY DEF Selected, Stored, ListRequest, ServiceList, ServiceRequest, Request, TypeOK
<1>4. ListedVersions(n) = IF ks = {} THEN {0} ELSE {store[l].version : l \in ks}
    BY DEF ListedVersions
<1>5. ListedVersions(n)' = IF ls = {} THEN {0} ELSE {store'[l].version : l \in ls}
    BY DEF ListedVersions, ListRequest, ServiceList, ServiceRequest, Request
<1> HIDE DEF ks, ls
<1>6. ks = ls /\ \A l \in ks : store'[l] = store[l]
    BY <1>1, <1>2, <1>3
<1>7. {store[l].version : l \in ks} = {store'[l].version : l \in ls}
    BY <1>6
<1>8. QED
    BY <1>4, <1>5, <1>6, <1>7

\* A change of the store is reported by an open watch, and missed by all who
\* list or watch without one.  The list of a caller is not newer than the event.
LEMMA ChangeKnown ==
    ASSUME TInv, TInv', Together, Fresh, Known, Lists,
           NEW k \in Keys, NEW value, NEW type \in {"added", "modified", "deleted"},
           NEW object \in Object, object.name = k[2],
           store' = [store EXCEPT ![k] = value],
           UNCHANGED <<home, remote, find, view>>,
           Notify(type, object),
           After(EventOf(type, object)) \in ListedVersions(k[2])',
           \A c \in Callers : find[c] = "listed" =>
              \/ view[c][k[2]] \in ListedVersions(k[2])'
              \/ ~Reflected(EventOf(type, object), view[c][k[2]])
    PROVE  Fresh' /\ Known' /\ Lists'
<1> DEFINE e == EventOf(type, object)
           m == k[2]
<1>0. TypeOK /\ Named /\ Pending /\ TypeOK' /\ Named' /\ Pending' /\ Together' /\ m \in Names
    BY DEF TInv, Together, Keys
<1>1. \A n : n # m => ListedVersions(n)' = ListedVersions(n)
    BY <1>0, OtherListed
<1>2. e \in Event /\ e.name = m
    BY NSRegistrationAssumption DEF EventOf, Event, Object, Versions
<1>3. After(e) \in ListedVersions(m)'
    OBVIOUS
<1>4. \A c \in Callers : find[c] = "listed" =>
          view[c][m] \in ListedVersions(m)' \/ ~Reflected(e, view[c][m])
    OBVIOUS
<1>5. CASE remote = "open"
    <2>1. events' = Append(events, e)
        BY <1>5 DEF Notify
    <2>2. \A c \in Callers : \A n \in Names : n # m => (n \in missed'[c] <=> n \in missed[c])
        <3>1. missed' = [c \in Callers |-> IF find[c] = "watching" THEN missed[c] \ {m}
                                           ELSE missed[c]]
            BY <1>5 DEF Notify
        <3> HIDE DEF m
        <3>2. QED
            BY <3>1
    <2> HIDE DEF e, m
    <2>3. /\ \E i \in 1 .. Len(events') : events'[i] = e /\ LastOn(m, i)'
          /\ m \in NamesIn(events')
          /\ \A n : n # m =>
                /\ n \in NamesIn(events') <=> n \in NamesIn(events)
                /\ \A i \in 1 .. Len(events) :
                      /\ i \in 1 .. Len(events') /\ events'[i] = events[i]
                      /\ LastOn(n, i) => LastOn(n, i)'
        BY <1>0, <1>2, <2>1, Appended
    <2>4. Tells(m)'
        BY <1>3, <2>3 DEF Tells
    <2>5. \A n : n # m /\ Tells(n) => Tells(n)'
        BY <1>1, <2>3 DEF Tells
    <2>6. Fresh'
        BY <1>0, <2>3, <2>4, <2>5, <1>5 DEF Fresh
    <2>7. ASSUME NEW c \in Callers, NEW n \in Names \ missed'[c], Listing(c)' PROVE Knows(c, n)'
        <3>1. Listing(c)
            BY <2>7 DEF Listing
        <3>2. CASE n = m
            BY <1>3, <2>3, <3>2 DEF Knows
        <3>3. CASE n # m
            <4>1. Knows(c, n)
                BY <2>2, <2>7, <3>1, <3>3 DEF Known
            <4>2. QED
                BY <1>1, <2>3, <3>3, <4>1 DEF Knows
        <3>4. QED
            BY <3>2, <3>3
    <2>8. ASSUME NEW c \in Callers, NEW n \in Names \ missed'[c], find'[c] = "listed"
          PROVE  Untold(c, n)'
        <3>1. CASE n = m
            BY <1>4, <2>3, <2>8, <3>1 DEF Untold
        <3>2. CASE n # m
            <4>1. Untold(c, n)
                BY <2>2, <2>8, <3>2 DEF Lists
            <4>2. QED
                BY <1>1, <2>3, <3>2, <4>1 DEF Untold
        <3>3. QED
            BY <3>1, <3>2
    <2>9. QED
        BY <2>6, <2>7, <2>8 DEF Known, Lists
<1>6. CASE remote # "open"
    <2>1. events' = events /\ remote' # "open"
        BY <1>6 DEF Notify
    <2>2. \A c \in Callers : \A n \in Names : Listing(c) /\ n \notin missed'[c] =>
              n # m /\ n \notin missed[c]
        BY <1>0, <1>6 DEF Notify, TypeOK
    <2>3. \A c : Listing(c)' <=> Listing(c)
        BY DEF Listing
    <2>4. \A n, i : LastOn(n, i)' <=> LastOn(n, i)
        BY <2>1 DEF LastOn
    <2>5. Fresh'
        BY <2>1 DEF Fresh
    <2> HIDE DEF e, m
    <2>6. ASSUME NEW c \in Callers, NEW n \in Names \ missed'[c], Listing(c)' PROVE Knows(c, n)'
        <3>1. n # m /\ Knows(c, n)
            BY <2>2, <2>3, <2>6 DEF Known
        <3>2. QED
            BY <1>1, <2>1, <2>4, <3>1 DEF Knows
    <2>7. ASSUME NEW c \in Callers, NEW n \in Names \ missed'[c], find'[c] = "listed"
          PROVE  Untold(c, n)'
        <3>1. n # m /\ Untold(c, n)
            BY <2>2, <2>7 DEF Lists, Listing
        <3>2. QED
            BY <1>1, <2>1, <2>4, <3>1 DEF Untold
    <2>8. QED
        BY <2>5, <2>6, <2>7 DEF Known, Lists
<1>7. QED
    BY <1>5, <1>6

\* The four about the callers.
CallersInv == Views /\ Fresh /\ Known /\ Lists

\* Nothing is stated of the views of replicas that do not share a namespace.
LEMMA Apart ==
    ASSUME ~Together, home' = home
    PROVE  Fresh' /\ Known' /\ Lists'
    BY DEF Together, Fresh, Known, Lists

\* Views are numbers.
LEMMA ViewNumbers ==
    ASSUME TypeOK
    PROVE  /\ revision \in Nat
           /\ \A c \in Callers : \A n \in Names : view[c][n] \in Nat
           /\ \A k \in Keys : k[2] \in Names /\ (store[k] # NoObject => store[k].version \in Nat)
<1>1. revision \in Nat
    BY NSRegistrationAssumption DEF TypeOK
<1>2. ASSUME NEW c \in Callers, NEW n \in Names PROVE view[c][n] \in Nat
    BY NSRegistrationAssumption DEF TypeOK
<1>3. ASSUME NEW k \in Keys
      PROVE  k[2] \in Names /\ (store[k] # NoObject => store[k].version \in Nat)
    BY NSRegistrationAssumption DEF TypeOK, Object, Versions, Keys
<1>4. QED
    BY <1>1, <1>2, <1>3

\* A write is news to whoever has listed before it.
LEMMA WriteKnown ==
    ASSUME TInv, TInv', CallersInv, NEW x \in Clients, Create(x) \/ Update(x)
    PROVE  CallersInv'
<1> DEFINE o == Written(x)
<1>k. PICK k : k = <<home[x], call[x].name>>
    OBVIOUS
<1>0. /\ TypeOK /\ Named /\ TypeOK' /\ Named' /\ Views
      /\ revision \in Nat
      /\ \A c \in Callers : \A n \in Names : view[c][n] \in Nat /\ view[c][n] <= revision
    BY ViewNumbers DEF TInv, CallersInv, Views
<1>1. /\ k \in Keys /\ o \in Object
      /\ store' = [store EXCEPT ![k] = o]
      /\ revision' = revision + 1
      /\ UNCHANGED <<home, remote, find, view>>
    BY <1>k, WriteStep
<1>2. PICK type \in {"added", "modified"} : Notify(type, o)
    BY WriteStep
<1>3. o.version = revision + 1 /\ o.name = k[2] /\ k[2] \in Names
    BY <1>1, <1>k DEF Written, Keys
<1>4. store'[k] = o /\ o # NoObject /\ \A l \in Keys : l # k => store'[l] = store[l]
    BY <1>0, <1>1, NoObjectAssumption DEF TypeOK
<1> HIDE DEF o
<1>5. Views'
    <2>1. ASSUME NEW c \in Callers, NEW n \in Names PROVE view'[c][n] <= revision'
        BY <1>0, <1>1
    <2>2. ASSUME NEW c \in Callers, NEW l \in Keys,
                 find'[c] = "listed", store'[l] # NoObject, Together'
          PROVE  view'[c][l[2]] <= store'[l].version
        <3>1. CASE l = k
            BY <1>0, <1>1, <1>3, <1>4, <3>1
        <3>2. CASE l # k
            <4>1. Together
                BY <1>1, <2>2 DEF Together
            <4>2. QED
                BY <1>0, <1>1, <1>4, <2>2, <3>2, <4>1 DEF Views
        <3>3. QED
            BY <3>1, <3>2
    <2>3. QED
        BY <2>1, <2>2 DEF Views
<1>6. CASE Together
    <2>1. EventOf(type, o).version = revision + 1 /\ EventOf(type, o).type # "deleted"
        BY <1>3 DEF EventOf
    <2>2. ListedVersions(k[2])' = {revision + 1}
        <3>1. Together'
            BY <1>1, <1>6 DEF Together
        <3>2. ListsStored'
            BY <1>0, <3>1, ListedIsNext
        <3>3. QED
            BY <1>1, <1>3, <1>4, <3>2 DEF ListsStored
    <2>3. After(EventOf(type, o)) \in ListedVersions(k[2])'
        BY <2>1, <2>2 DEF After
    <2>4. \A c \in Callers : find[c] = "listed" =>
              \/ view[c][k[2]] \in ListedVersions(k[2])'
              \/ ~Reflected(EventOf(type, o), view[c][k[2]])
        BY <1>0, <1>3, <2>1 DEF Reflected
    <2>5. type \in {"added", "modified", "deleted"}
        OBVIOUS
    <2>6. Fresh /\ Known /\ Lists
        BY DEF CallersInv
    <2>7. Fresh' /\ Known' /\ Lists'
        BY <1>1, <1>2, <1>3, <1>6, <2>3, <2>4, <2>5, <2>6, ChangeKnown
    <2>8. QED
        BY <1>5, <2>7 DEF CallersInv
<1>7. CASE ~Together
    BY <1>1, <1>5, <1>7, Apart DEF CallersInv
<1>8. QED
    BY <1>6, <1>7

\* So is a deletion, unless the list did not show the service anyway.
LEMMA DeleteKnown ==
    ASSUME TInv, TInv', CallersInv, NEW x \in Clients, Delete(x)
    PROVE  CallersInv'
<1>k. PICK k : k = <<home[x], call[x].name>>
    OBVIOUS
<1> DEFINE o == store[k]
<1>0. /\ TypeOK /\ Named /\ TypeOK' /\ Named' /\ Views
      /\ revision \in Nat
      /\ \A c \in Callers : \A n \in Names : view[c][n] \in Nat
    BY ViewNumbers DEF TInv, CallersInv
<1>1. /\ k \in Keys /\ o \in Object /\ o # NoObject
      /\ store' = [store EXCEPT ![k] = NoObject]
      /\ Notify("deleted", o)
      /\ UNCHANGED <<home, revision, remote, find, view>>
    BY <1>k, DeleteStep
<1>2. o.name = k[2] /\ o.version \in Nat /\ k[2] \in Names
    BY <1>0, <1>1, ViewNumbers DEF Named
<1>3. \A l \in Keys : store'[l] # NoObject => l # k /\ store'[l] = store[l]
    BY <1>0, <1>1 DEF TypeOK
<1>4. Views'
    BY <1>0, <1>1, <1>3 DEF Views, Together
<1>5. CASE Together
    <2>1. EventOf("deleted", o).version = o.version /\ EventOf("deleted", o).type = "deleted"
        BY DEF EventOf
    <2>2. ListedVersions(k[2])' = {0}
        <3>1. Together'
            BY <1>1, <1>5 DEF Together
        <3>2. ListsStored'
            BY <1>0, <3>1, ListedIsNext
        <3>3. \A l \in Keys : l[2] = k[2] => store'[l] = NoObject
            BY <1>0, <1>1, <1>3, <1>5, OneKey
        <3>4. QED
            BY <3>2, <3>3 DEF ListsStored
    <2>3. After(EventOf("deleted", o)) \in ListedVersions(k[2])'
        BY <2>1, <2>2 DEF After
    <2>4. ASSUME NEW c \in Callers, find[c] = "listed"
          PROVE  \/ view[c][k[2]] \in ListedVersions(k[2])'
                 \/ ~Reflected(EventOf("deleted", o), view[c][k[2]])
        <3>1. view[c][k[2]] <= o.version
            BY <1>0, <1>1, <1>5, <2>4 DEF Views
        <3>2. QED
            BY <1>0, <1>2, <2>1, <2>2, <3>1 DEF Reflected
    <2> HIDE DEF o
    <2>5. "deleted" \in {"added", "modified", "deleted"}
        OBVIOUS
    <2>6. Fresh /\ Known /\ Lists
        BY DEF CallersInv
    <2>7. Fresh' /\ Known' /\ Lists'
        BY <1>1, <1>2, <1>5, <2>3, <2>4, <2>5, <2>6, ChangeKnown
    <2>8. QED
        BY <1>4, <2>7 DEF CallersInv
<1>6. CASE ~Together
    BY <1>1, <1>4, <1>6, Apart DEF CallersInv
<1>7. QED
    BY <1>5, <1>6

\* Steps that change nothing a caller could know or be sent.
LEMMA QuietKnown ==
    ASSUME CallersInv, Quiet
    PROVE  CallersInv'
<1>1. Together' <=> Together
    BY DEF Together, Quiet
<1>2. \A n : ListedVersions(n)' = ListedVersions(n)
    BY DEF ListedVersions, Quiet
<1>3. \A n, i : LastOn(n, i)' <=> LastOn(n, i)
    BY DEF LastOn, Quiet
<1>4. Views'
    BY <1>1 DEF CallersInv, Views, Quiet
<1>5. Fresh'
    BY <1>1, <1>2, <1>3 DEF CallersInv, Fresh, Tells, Quiet
<1>6. Known'
    BY <1>1, <1>2, <1>3 DEF CallersInv, Known, Knows, Listing, Quiet
<1>7. Lists'
    BY <1>1, <1>2, <1>3 DEF CallersInv, Lists, Untold, Quiet
<1>8. QED
    BY <1>4, <1>5, <1>6, <1>7 DEF CallersInv

\* In these steps the store stays, and so does what a List would say.
LEMMA StoreStays ==
    ASSUME UNCHANGED <<home, store>>
    PROVE  /\ Together' <=> Together
           /\ \A n : ListedVersions(n)' = ListedVersions(n)
    BY DEF Together, ListedVersions

\* An opening watch tells what is stored, and each service once.
LEMMA OpenKnown ==
    ASSUME TInv, TInv', CallersInv, OpenWatch
    PROVE  CallersInv'
<1>0. TypeOK /\ Named /\ Pending /\ Views /\ Fresh /\ Known /\ Lists
    BY DEF TInv, CallersInv
<1>1. /\ remote = "opening" /\ events' = Replay(WatchRequest)
      /\ UNCHANGED <<home, store, revision, find, view>>
      /\ missed' = [c \in Callers |->
                       IF find[c] = "watching"
                       THEN missed[c] \ {k[2] : k \in Selected(WatchRequest, store)}
                       ELSE missed[c]]
    BY DEF OpenWatch, clientVars
<1>2. Together' <=> Together
    BY <1>1, StoreStays
<1>3. \A n : ListedVersions(n)' = ListedVersions(n)
    BY <1>1, StoreStays
<1>4. Views'
    BY <1>0, <1>1, <1>2 DEF Views
<1>5. CASE Together
    <2>1. ListsStored
        BY <1>0, <1>5, ListedIs
    <2>2. Selected(WatchRequest, store) = {k \in Keys : store[k] # NoObject}
        BY <1>0
        DEF Selected, Stored, WatchRequest, ServiceWatch, ServiceRequest, Request, TypeOK
    <2>3. events' \in Seq(Event)
        BY <1>0, <1>1, Replayed
    <2>4. PICK keys \in [1 .. Len(events') -> Selected(WatchRequest, store)] :
              /\ \A i \in 1 .. Len(events') : events'[i] = EventOf("added", store[keys[i]])
              /\ \A i, j \in 1 .. Len(events') : keys[i] = keys[j] => i = j
              /\ \A k \in Selected(WatchRequest, store) :
                    \E i \in 1 .. Len(events') : keys[i] = k
        <3>1. EachOnce(events', WatchRequest)
            BY <1>0, <1>1, Replayed
        <3>2. QED
            BY <3>1 DEF EachOnce
    <2>5. ASSUME NEW i \in 1 .. Len(events')
          PROVE  /\ keys[i] \in Keys /\ store[keys[i]] # NoObject
                 /\ events'[i].name = keys[i][2]
                 /\ After(events'[i]) = store[keys[i]].version
        <3>1. keys[i] \in Keys /\ store[keys[i]] # NoObject
            BY <2>2, <2>4
        <3>2. events'[i] = [type |-> "added", name |-> keys[i][2],
                            version |-> store[keys[i]].version]
            BY <1>0, <2>4, <3>1 DEF EventOf, Named
        <3>3. QED
            BY <3>1, <3>2 DEF After
    <2>6. ASSUME NEW i \in 1 .. Len(events')
          PROVE  LastOn(keys[i][2], i)'
        <3>1. ASSUME NEW j \in 1 .. Len(events'), events'[j].name = keys[i][2] PROVE j = i
            BY <1>0, <1>5, <2>4, <2>5, <3>1, OneKey
        <3>2. \A j \in i + 1 .. Len(events') : j \in 1 .. Len(events') /\ j # i
            BY <2>3, LenProperties
        <3>3. \A j \in i + 1 .. Len(events') : events'[j].name # keys[i][2]
            BY <3>1, <3>2
        <3>4. events'[i].name = keys[i][2]
            BY <2>5
        <3>5. QED
            BY <3>3, <3>4 DEF LastOn
    <2>7. ASSUME NEW n, n \in NamesIn(events') PROVE Tells(n)'
        <3>1. PICK i \in 1 .. Len(events') : events'[i].name = n
            BY <2>3, <2>7, NamesOf
        <3>2. keys[i][2] = n /\ ListedVersions(n)' = {store[keys[i]].version}
            BY <1>3, <2>1, <2>5, <3>1 DEF ListsStored
        <3>3. LastOn(n, i)' /\ After(events'[i]) \in ListedVersions(n)'
            BY <2>5, <2>6, <3>2
        <3>4. QED
            BY <3>3 DEF Tells
    <2>8. Fresh'
        BY <2>7 DEF Fresh
    <2>9. events = <<>> /\ \A n : n \notin NamesIn(events)
        BY <1>0, <1>1 DEF Pending, NamesIn
    <2>10. ASSUME NEW c \in Callers, NEW n \in Names \ missed'[c], Listing(c)' PROVE Knows(c, n)'
        <3>1. CASE n \in NamesIn(events')
            BY <2>7, <3>1 DEF Knows, Tells
        <3>2. CASE n \notin NamesIn(events')
            <4>1. ASSUME NEW k \in Selected(WatchRequest, store), k[2] = n PROVE FALSE
                <5>1. PICK i \in 1 .. Len(events') : keys[i] = k
                    BY <2>4
                <5>2. events'[i].name = n
                    BY <2>5, <4>1, <5>1
                <5>3. QED
                    BY <2>3, <3>2, <5>2, NamesOf
            <4>2. n \notin missed[c] /\ Listing(c)
                BY <1>1, <2>10, <4>1 DEF Listing
            <4>3. view[c][n] \in ListedVersions(n)
                BY <1>0, <1>5, <2>9, <4>2 DEF Known, Knows
            <4>4. QED
                BY <1>1, <1>3, <3>2, <4>3 DEF Knows
        <3>3. QED
            BY <3>1, <3>2
    <2>11. ASSUME NEW c \in Callers, NEW n \in Names \ missed'[c], find'[c] = "listed"
           PROVE  Untold(c, n)'
        <3>1. n \notin missed[c] /\ find[c] = "listed"
            BY <1>1, <2>11
        <3>2. view[c][n] \in ListedVersions(n)
            BY <1>0, <1>5, <2>9, <3>1 DEF Known, Knows, Listing
        <3>3. QED
            BY <1>1, <1>3, <3>2 DEF Untold
    <2>12. QED
        BY <1>4, <2>8, <2>10, <2>11 DEF CallersInv, Known, Lists
<1>6. CASE ~Together
    BY <1>1, <1>4, <1>6, Apart DEF CallersInv
<1>7. QED
    BY <1>5, <1>6

\* The first event is taken out of the watch: the last words of the others stay.
LEMMA Popped ==
    ASSUME TypeOK, events # <<>>, events' = Tail(events)
    PROVE  /\ Head(events) = events[1] /\ 1 \in 1 .. Len(events)
           /\ \A n : n \in NamesIn(events') => n \in NamesIn(events)
           /\ \A n : n \in NamesIn(events) => n \in NamesIn(events') \/ LastOn(n, 1)
           /\ \A n : LastOn(n, 1) => n \notin NamesIn(events')
           /\ \A n : \A i \in 1 .. Len(events) : LastOn(n, i) =>
                 \/ i = 1
                 \/ \E j \in 1 .. Len(events') : events'[j] = events[i] /\ LastOn(n, j)'
<1> DEFINE l == Len(events)
<1>1. events \in Seq(Event) /\ l \in Nat \ {0}
    BY EmptySeq DEF TypeOK
<1>2. /\ events' \in Seq(Event) /\ Len(events') = l - 1 /\ Head(events) = events[1]
      /\ \A i \in 1 .. l - 1 : events'[i] = events[i + 1]
    BY <1>1, HeadTailProperties
<1>3. \A n : n \in NamesIn(events) <=> \E i \in 1 .. l : events[i].name = n
    BY <1>1, NamesOf
<1>4. \A n : n \in NamesIn(events') <=> \E i \in 1 .. l - 1 : events'[i].name = n
    <2>1. events' \in Seq(Event)
        BY <1>2
    <2>2. \A n : n \in NamesIn(events') <=> \E i \in 1 .. Len(events') : events'[i].name = n
        BY <2>1, NamesOf
    <2>3. Len(events') = l - 1
        BY <1>2
    <2>4. QED
        BY <2>2, <2>3
<1> HIDE DEF l
<1>5. /\ \A i \in 1 .. l - 1 : i + 1 \in 1 .. l
      /\ \A i \in 1 .. l : i = 1 \/ (i - 1 \in 1 .. l - 1 /\ (i - 1) + 1 = i)
    BY <1>1
<1>6. \A n : n \in NamesIn(events') => n \in NamesIn(events)
    BY <1>2, <1>3, <1>4, <1>5
<1>7. ASSUME NEW n, n \notin NamesIn(events'), n \in NamesIn(events) PROVE LastOn(n, 1)
    <2>1. \A i \in 2 .. l : i - 1 \in 1 .. l - 1 /\ (i - 1) + 1 = i
        BY <1>1
    <2>2. \A i \in 2 .. l : events[i].name # n
        BY <1>2, <1>4, <1>7, <2>1
    <2>3. \A i \in 1 .. l : i = 1 \/ i \in 2 .. l
        BY <1>1
    <2>4. events[1].name = n
        BY <1>3, <1>7, <2>2, <2>3
    <2>5. QED
        BY <2>2, <2>4 DEF LastOn, l
<1>8. ASSUME NEW n, LastOn(n, 1) PROVE n \notin NamesIn(events')
    <2>1. \A i \in 1 .. l - 1 : i + 1 \in 1 + 1 .. l
        BY <1>1
    <2>2. \A i \in 1 + 1 .. l : events[i].name # n
        BY <1>8 DEF LastOn, l
    <2>3. QED
        BY <1>2, <1>4, <2>1, <2>2
<1>9. ASSUME NEW n, NEW i \in 1 .. l, LastOn(n, i), i # 1
      PROVE  \E j \in 1 .. Len(events') : events'[j] = events[i] /\ LastOn(n, j)'
    <2>1. PICK j \in 1 .. l - 1 : j + 1 = i
        BY <1>5, <1>9
    <2>2. events'[j] = events[i] /\ events[i].name = n
        BY <1>2, <1>9, <2>1 DEF LastOn
    <2>3. \A h \in j + 1 .. l - 1 : h \in 1 .. l - 1 /\ h + 1 \in i + 1 .. l
        BY <1>1, <2>1
    <2>4. \A h \in i + 1 .. l : events[h].name # n
        BY <1>9 DEF LastOn, l
    <2>5. \A h \in j + 1 .. Len(events') : events'[h].name # n
        BY <1>2, <2>3, <2>4
    <2>6. LastOn(n, j)'
        BY <2>2, <2>5 DEF LastOn
    <2>7. QED
        BY <1>2, <2>2, <2>6
<1>10. 1 \in 1 .. l
    BY <1>1
<1>11. QED
    BY <1>2, <1>6, <1>7, <1>8, <1>9, <1>10 DEF l

\* Broadcast sends the first event: who is subscribed is up to date with it, and
\* who is not has listed the change already, or misses it.
LEMMA BroadcastKnown ==
    ASSUME TInv, TInv', CallersInv, Broadcast
    PROVE  CallersInv'
<1> DEFINE e == Head(events)
<1>0. TypeOK /\ Named /\ Pending /\ TypeOK' /\ Views /\ Fresh /\ Known /\ Lists
    BY DEF TInv, CallersInv
<1>1. /\ events # <<>> /\ events' = Tail(events)
      /\ UNCHANGED <<home, store, revision, remote, find>>
    BY DEF Broadcast
<1>2. /\ e = events[1] /\ 1 \in 1 .. Len(events)
      /\ \A n : n \in NamesIn(events') => n \in NamesIn(events)
      /\ \A n : n \in NamesIn(events) => n \in NamesIn(events') \/ LastOn(n, 1)
      /\ \A n : LastOn(n, 1) => n \notin NamesIn(events')
      /\ \A n : \A i \in 1 .. Len(events) : LastOn(n, i) =>
            \/ i = 1
            \/ \E j \in 1 .. Len(events') : events'[j] = events[i] /\ LastOn(n, j)'
    BY <1>0, <1>1, Popped
<1>3. \A n : ListedVersions(n)' = ListedVersions(n)
    BY <1>1, StoreStays
<1>4. NoName \notin Names
    BY NSRegistrationAssumption DEF Names
<1>5. ASSUME NEW c \in Callers, NEW n \in Names, e.name # n
      PROVE  /\ view'[c][n] = view[c][n]
             /\ n \in missed[c] => n \in missed'[c]
    <2>m. PICK m : m = e.name
        OBVIOUS
    <2>1. CASE e.type = "error"
        BY <2>1 DEF Broadcast
    <2>2. CASE e.type # "error"
        <3>1. /\ view' = [d \in Callers |-> IF find[d] = "watching"
                                            THEN [view[d] EXCEPT ![m] = After(e)] ELSE view[d]]
              /\ missed' = [d \in Callers |->
                    IF find[d] = "listed" /\ ~Reflected(e, view[d][m])
                    THEN missed[d] \cup {m} ELSE missed[d]]
            BY <2>m, <2>2 DEF Broadcast
        <3>2. n # m /\ view[c] \in [Names -> 0 .. MaxVersion]
            BY <1>0, <1>5, <2>m DEF TypeOK
        <3> HIDE DEF e
        <3>3. QED
            BY <3>1, <3>2
    <2>3. QED
        BY <2>1, <2>2
<1>6. ASSUME NEW c \in Callers, NEW n \in Names, e.name = n
      PROVE  /\ e.type # "error" /\ n \in missed[c] => n \in missed'[c]
             /\ find[c] = "watching" => view'[c][n] = After(e)
             /\ find[c] # "watching" => view'[c][n] = view[c][n]
             /\ find[c] = "listed" /\ n \notin missed'[c] => Reflected(e, view[c][n])
    <2>1. e.type # "error"
        BY <1>0, <1>2, <1>4, <1>6 DEF Pending
    <2>2. /\ view' = [d \in Callers |-> IF find[d] = "watching"
                                        THEN [view[d] EXCEPT ![n] = After(e)] ELSE view[d]]
          /\ missed' = [d \in Callers |->
                IF find[d] = "listed" /\ ~Reflected(e, view[d][n])
                THEN missed[d] \cup {n} ELSE missed[d]]
        BY <1>6, <2>1 DEF Broadcast
    <2> HIDE DEF e
    <2>3. QED
        BY <1>0, <2>1, <2>2 DEF TypeOK
<1>7. ASSUME NEW c \in Callers, NEW n \in Names, n \notin missed'[c] PROVE n \notin missed[c]
    <2>1. e.name = n => e.type # "error"
        BY <1>0, <1>2, <1>4 DEF Pending
    <2>2. QED
        BY <1>5, <1>6, <1>7, <2>1
<1>8. After(e) <= revision
    BY <1>0, <1>2, ViewNumbers DEF Pending, After
<1> HIDE DEF e
<1>9. Views'
    <2>1. ASSUME NEW c \in Callers, NEW n \in Names PROVE view'[c][n] <= revision'
        BY <1>0, <1>1, <1>5, <1>6, <1>8 DEF Views
    <2>2. ASSUME NEW c \in Callers, NEW k \in Keys,
                 find'[c] = "listed", store'[k] # NoObject, Together'
          PROVE  view'[c][k[2]] <= store'[k].version
        <3>1. k[2] \in Names /\ find[c] = "listed" /\ Together
            BY <1>1, <2>2 DEF Keys, Together
        <3>2. view'[c][k[2]] = view[c][k[2]]
            BY <1>5, <1>6, <3>1
        <3>3. QED
            BY <1>0, <1>1, <2>2, <3>1, <3>2 DEF Views
    <2>3. QED
        BY <2>1, <2>2 DEF Views
<1>10. CASE Together
    <2>1. ASSUME NEW n \in Names, n \in NamesIn(events'), Tells(n) PROVE Tells(n)'
        BY <1>2, <1>3, <2>1 DEF Tells
    <2>2. Fresh'
        BY <1>0, <1>1, <1>2, <1>10, <2>1 DEF Fresh
    <2>3. ASSUME NEW c \in Callers, NEW n \in Names \ missed'[c], Listing(c)' PROVE Knows(c, n)'
        <3>1. Listing(c) /\ n \in Names \ missed[c]
            BY <1>1, <1>7, <2>3 DEF Listing
        <3>2. Knows(c, n)
            BY <1>0, <1>10, <3>1 DEF Known
        <3>3. CASE n \in NamesIn(events')
            <4>1. Tells(n)
                BY <1>2, <3>2, <3>3 DEF Knows, Tells
            <4>2. Tells(n)'
                BY <2>1, <3>3, <4>1
            <4>3. QED
                BY <3>3, <4>2 DEF Tells, Knows
        <3>4. CASE n \notin NamesIn(events') /\ n \in NamesIn(events)
            <4>1. LastOn(n, 1) /\ e.name = n
                BY <1>2, <3>4 DEF LastOn
            <4>2. After(e) \in ListedVersions(n)
                BY <1>0, <1>2, <3>2, <3>4, <4>1, LastIsOne DEF Knows
            <4>3. CASE find[c] = "watching"
                BY <1>3, <1>6, <3>4, <4>1, <4>2, <4>3 DEF Knows
            <4>4. CASE find[c] = "listed"
                <5>1. Untold(c, n)
                    BY <1>0, <1>10, <3>1, <4>4 DEF Lists
                <5>2. Reflected(e, view[c][n])
                    BY <1>6, <2>3, <4>1, <4>4
                <5>3. view[c][n] \in ListedVersions(n)
                    BY <1>0, <1>2, <4>1, <5>1, <5>2, LastIsOne DEF Untold
                <5>4. view'[c][n] = view[c][n]
                    BY <1>6, <4>1, <4>4
                <5>5. QED
                    BY <1>3, <3>4, <5>3, <5>4 DEF Knows
            <4>5. QED
                BY <3>1, <4>3, <4>4 DEF Listing
        <3>5. CASE n \notin NamesIn(events)
            <4>1. e.name # n
                BY <1>0, <1>2, <3>5, NamesOfEvents
            <4>2. view'[c][n] = view[c][n]
                BY <1>5, <4>1
            <4>3. QED
                BY <1>2, <1>3, <3>2, <3>5, <4>2 DEF Knows
        <3>6. QED
            BY <3>3, <3>4, <3>5
    <2>4. ASSUME NEW c \in Callers, NEW n \in Names \ missed'[c], find'[c] = "listed"
          PROVE  Untold(c, n)'
        <3>1. find[c] = "listed" /\ n \in Names \ missed[c]
            BY <1>1, <1>7, <2>4
        <3>2. Untold(c, n)
            BY <1>0, <1>10, <3>1 DEF Lists
        <3>3. view'[c][n] = view[c][n]
            BY <1>5, <1>6, <3>1
        <3>4. ASSUME NEW i \in 1 .. Len(events), LastOn(n, i), ~Reflected(events[i], view[c][n])
              PROVE  i # 1
            <4>1. CASE i = 1
                <5>1. e.name = n /\ ~Reflected(e, view[c][n])
                    BY <1>2, <3>4, <4>1 DEF LastOn
                <5>2. QED
                    BY <1>6, <2>4, <3>1, <5>1
            <4>2. QED
                BY <4>1
        <3>5. QED
            BY <1>2, <1>3, <3>2, <3>3, <3>4 DEF Untold
    <2>5. QED
        BY <1>9, <2>2, <2>3, <2>4 DEF CallersInv, Known, Lists
<1>11. CASE ~Together
    BY <1>1, <1>9, <1>11, Apart DEF CallersInv
<1>12. QED
    BY <1>10, <1>11

\* The last word on service n is the same after the step.
Stays(n) ==
    /\ n \in NamesIn(events') <=> n \in NamesIn(events)
    /\ \A i \in 1 .. Len(events) : LastOn(n, i) =>
          \E j \in 1 .. Len(events') : events'[j] = events[i] /\ LastOn(n, j)'

\* A watch that is not open owes nothing: callers keep what they know as long as
\* the events they count on stay.
LEMMA NotOpenKnown ==
    ASSUME CallersInv, remote' # "open",
           UNCHANGED <<home, store, revision, find, view>>,
           \A c \in Callers : \A n \in Names \ missed'[c] : Listing(c) =>
              n \notin missed[c] /\ Stays(n)
    PROVE  CallersInv'
<1>1. Views /\ Known /\ Lists
    BY DEF CallersInv
<1>2. /\ Together' <=> Together
      /\ \A n : ListedVersions(n)' = ListedVersions(n)
    BY StoreStays
<1>3. Views' /\ Fresh'
    BY <1>1, <1>2 DEF Views, Fresh
<1>4. ASSUME Together, NEW c \in Callers, NEW n \in Names \ missed'[c], Listing(c)'
      PROVE  Knows(c, n)'
    <2>1. Listing(c) /\ n \in Names \ missed[c] /\ Stays(n)
        BY <1>4 DEF Listing
    <2>2. Knows(c, n)
        BY <1>1, <1>4, <2>1 DEF Known
    <2>3. QED
        BY <1>2, <2>1, <2>2 DEF Knows, Stays
<1>5. ASSUME Together, NEW c \in Callers, NEW n \in Names \ missed'[c], find'[c] = "listed"
      PROVE  Untold(c, n)'
    <2>1. find[c] = "listed" /\ n \in Names \ missed[c] /\ Stays(n)
        BY <1>5 DEF Listing
    <2>2. Untold(c, n)
        BY <1>1, <1>5, <2>1 DEF Lists
    <2>3. QED
        BY <1>2, <2>1, <2>2 DEF Untold, Stays
<1>6. QED
    BY <1>2, <1>3, <1>4, <1>5 DEF CallersInv, Known, Lists

\* When a watch ends, what its connection takes with it is missed.
LEMMA EndKnown ==
    ASSUME TInv, TInv', CallersInv, TimesOut \/ Breaks
    PROVE  CallersInv'
<1>0. TypeOK /\ TypeOK'
    BY DEF TInv
<1>1. PICK m \in 0 .. Len(events), b \in {0, 1} :
          /\ EndWatch(SubSeq(events, 1, m), b)
          /\ events' \in {SubSeq(events, 1, m),
                          Append(SubSeq(events, 1, m), EventOf("error", Empty))}
    BY <1>0, EndStep
<1> DEFINE rest == SubSeq(events, 1, m)
           error == EventOf("error", Empty)
           cut == NamesIn(SubSeq(events, m + 1, Len(events)))
<1>2. /\ rest \in Seq(Event) /\ Len(rest) = m
      /\ \A i \in 1 .. m : rest[i] = events[i]
    BY <1>0, Prefix
<1>3. /\ remote' = "ended"
      /\ UNCHANGED <<home, store, revision, find, view>>
      /\ missed' = [c \in Callers |-> IF Listing(c) THEN missed[c] \cup cut ELSE missed[c]]
    BY <1>1, <1>2 DEF EndWatch
<1>4. \A n : n \in cut <=> \E i \in m + 1 .. Len(events) : events[i].name = n
    BY <1>0, CutNames
<1>5. error \in Event /\ error.name = NoName /\ NoName \notin Names
    BY NSRegistrationAssumption DEF EventOf, Empty, Event, Names
<1>6. Len(events) \in Nat /\ m \in 0 .. Len(events)
    BY <1>0, LenProperties DEF TypeOK
<1>7. events' \in {rest, Append(rest, error)}
    BY <1>1
<1> HIDE DEF rest, error, cut
<1>8. /\ Len(events') \in {m, m + 1}
      /\ \A i \in 1 .. m : events'[i] = events[i]
      /\ \A i \in 1 .. Len(events') : i \in 1 .. m \/ events'[i].name \notin Names
    <2>1. CASE events' = rest
        BY <1>2, <1>6, <2>1
    <2>2. CASE events' = Append(rest, error)
        <3>1. Len(events') = m + 1 /\ events'[m + 1] = error
              /\ \A i \in 1 .. m : events'[i] = rest[i]
            BY <1>2, <1>5, <1>6, <2>2, AppendProperties
        <3>2. \A i \in 1 .. m + 1 : i \in 1 .. m \/ i = m + 1
            BY <1>6
        <3>3. QED
            BY <1>2, <1>5, <3>1, <3>2
    <2>3. QED
        BY <1>7, <2>1, <2>2
<1>9. /\ \A i \in 1 .. Len(events) : i \in 1 .. m \/ i \in m + 1 .. Len(events)
      /\ \A i \in 1 .. m : i \in 1 .. Len(events) /\ i \in 1 .. Len(events')
      /\ \A i \in 1 .. m : \A j \in i + 1 .. Len(events') :
            j \in 1 .. Len(events') /\ (j \in 1 .. m => j \in i + 1 .. Len(events))
    BY <1>6, <1>8
<1>10. ASSUME NEW n \in Names, n \notin cut PROVE Stays(n)
    <2>1. n \in NamesIn(events) <=> \E i \in 1 .. Len(events) : events[i].name = n
        BY <1>0, NamesOf DEF TypeOK
    <2>2. n \in NamesIn(events') <=> \E i \in 1 .. Len(events') : events'[i].name = n
        BY <1>0, NamesOf DEF TypeOK
    <2>3. \A i \in 1 .. Len(events) : events[i].name = n => i \in 1 .. m
        BY <1>4, <1>9, <1>10
    <2>4. n \in NamesIn(events') <=> n \in NamesIn(events)
        BY <1>8, <1>9, <2>1, <2>2, <2>3
    <2>5. ASSUME NEW i \in 1 .. Len(events), LastOn(n, i)
          PROVE  \E j \in 1 .. Len(events') : events'[j] = events[i] /\ LastOn(n, j)'
        <3>1. /\ i \in 1 .. m /\ events'[i] = events[i] /\ events'[i].name = n
              /\ i \in 1 .. Len(events')
            BY <1>8, <1>9, <2>3, <2>5 DEF LastOn
        <3>2. \A j \in i + 1 .. Len(events) : events[j].name # n
            BY <2>5 DEF LastOn
        <3>3. \A j \in i + 1 .. Len(events') : events'[j].name # n
            BY <1>8, <1>9, <3>1, <3>2
        <3>4. LastOn(n, i)'
            BY <3>1, <3>3 DEF LastOn
        <3>5. QED
            BY <3>1, <3>4
    <2>6. QED
        BY <2>4, <2>5 DEF Stays
<1>11. \A c \in Callers : \A n \in Names \ missed'[c] : Listing(c) =>
          n \notin missed[c] /\ n \notin cut
    BY <1>0, <1>3 DEF TypeOK
<1>12. QED
    BY <1>3, <1>10, <1>11, NotOpenKnown

\* Around the loop nothing is pending; at the return all that is pending is missed.
LEMMA ReopenKnown ==
    ASSUME TInv, CallersInv, Reopen \/ Return
    PROVE  CallersInv'
<1>0. TypeOK
    BY DEF TInv
<1>1. /\ remote' # "open" /\ events' = <<>>
      /\ UNCHANGED <<home, store, revision, find, view>>
    BY DEF Reopen, Return, clientVars, findVars
<1>2. \A n : n \notin NamesIn(events')
    BY <1>1 DEF NamesIn
<1>3. NoName \notin Names
    BY NSRegistrationAssumption DEF Names
<1>4. ASSUME NEW c \in Callers, NEW n \in Names \ missed'[c], Listing(c)
      PROVE  n \notin missed[c] /\ n \notin NamesIn(events)
    <2>1. CASE Reopen
        BY <1>1, <1>2, <1>4, <2>1 DEF Reopen, findVars
    <2>2. CASE Return
        BY <1>0, <1>3, <1>4, <2>2 DEF Return, TypeOK
    <2>3. QED
        BY <2>1, <2>2
<1>5. \A n : n \notin NamesIn(events) => Stays(n)
    BY <1>0, <1>2, LastNames DEF Stays
<1>6. QED
    BY <1>1, <1>4, <1>5, NotOpenKnown

\* A step of one Find leaves the other callers alone.
LEMMA OneCaller ==
    ASSUME CallersInv, NEW c \in Callers,
           UNCHANGED <<home, store, revision, remote, events>>,
           \A d \in Callers \ {c} : /\ find'[d] = find[d] /\ view'[d] = view[d]
                                    /\ missed'[d] = missed[d],
           \A n \in Names : view'[c][n] <= revision,
           Together => \A k \in Keys : find'[c] = "listed" /\ store[k] # NoObject =>
                          view'[c][k[2]] <= store[k].version,
           Together => \A n \in Names \ missed'[c] :
                          /\ Listing(c)' => Knows(c, n)'
                          /\ find'[c] = "listed" => Untold(c, n)'
    PROVE  CallersInv'
<1>1. Views /\ Fresh /\ Known /\ Lists
    BY DEF CallersInv
<1>2. /\ Together' <=> Together
      /\ \A n : ListedVersions(n)' = ListedVersions(n)
    BY StoreStays
<1>3. \A n, i : LastOn(n, i)' <=> LastOn(n, i)
    BY DEF LastOn
<1>4. Views'
    <2>1. ASSUME NEW d \in Callers, NEW n \in Names PROVE view'[d][n] <= revision'
        BY <1>1 DEF Views
    <2>2. ASSUME NEW d \in Callers, NEW k \in Keys,
                 find'[d] = "listed", store'[k] # NoObject, Together'
          PROVE  view'[d][k[2]] <= store'[k].version
        BY <1>1, <1>2, <2>2 DEF Views
    <2>3. QED
        BY <2>1, <2>2 DEF Views
<1>5. Fresh'
    BY <1>1, <1>2, <1>3 DEF Fresh, Tells
<1>6. ASSUME Together, NEW d \in Callers \ {c}, NEW n \in Names \ missed'[d]
      PROVE  /\ Listing(d)' => Knows(d, n)'
             /\ find'[d] = "listed" => Untold(d, n)'
    <2>1. find'[d] = find[d] /\ view'[d] = view[d] /\ n \in Names \ missed[d]
        BY <1>6
    <2>2. Listing(d)' => Knows(d, n)
        BY <1>1, <1>6, <2>1 DEF Known, Listing
    <2>3. find'[d] = "listed" => Untold(d, n)
        BY <1>1, <1>6, <2>1 DEF Lists
    <2>4. QED
        BY <1>2, <1>3, <2>1, <2>2, <2>3 DEF Knows, Untold
<1>7. Known'
    BY <1>2, <1>6 DEF Known
<1>8. Lists'
    BY <1>2, <1>6 DEF Lists
<1>9. QED
    BY <1>4, <1>5, <1>7, <1>8 DEF CallersInv

\* A List shows what is stored, an open watch what is pending; a leftover of an
\* ended one would take it back.
LEMMA ListKnown ==
    ASSUME TInv, CallersInv, NEW c \in Callers, List(c)
    PROVE  CallersInv'
<1>0. TypeOK /\ Named /\ Pending /\ Views /\ Fresh /\ revision \in Nat
    BY ViewNumbers DEF TInv, CallersInv
<1>1. /\ UNCHANGED <<home, store, revision, remote, events>>
      /\ find' = [find EXCEPT ![c] = "listed"]
      /\ missed' = [missed EXCEPT ![c] = IF remote = "ended" THEN NamesIn(events) \ {NoName}
                                         ELSE {}]
    BY DEF List, watchVars
<1>2. PICK v \in [Names -> 0 .. revision] :
          /\ \A n \in Names : v[n] \in ListedVersions(n)
          /\ view' = [view EXCEPT ![c] = v]
    BY DEF List
<1>3. \A d \in Callers \ {c} : /\ find'[d] = find[d] /\ view'[d] = view[d]
                               /\ missed'[d] = missed[d]
    BY <1>0, <1>1, <1>2 DEF TypeOK
<1>4. /\ find'[c] = "listed" /\ view'[c] = v
      /\ missed'[c] = IF remote = "ended" THEN NamesIn(events) \ {NoName} ELSE {}
    BY <1>0, <1>1, <1>2 DEF TypeOK
<1>5. \A n \in Names : v[n] \in 0 .. revision
    BY <1>2
<1>6. \A n \in Names : view'[c][n] <= revision
    BY <1>0, <1>4, <1>5
<1>7. ASSUME Together, NEW k \in Keys, store[k] # NoObject
      PROVE  view'[c][k[2]] <= store[k].version
    <2>1. ListsStored
        BY <1>0, <1>7, ListedIs
    <2>2. k[2] \in Names /\ store[k].version \in Nat
        BY <1>0, <1>7, ViewNumbers
    <2>3. view'[c][k[2]] = store[k].version
        BY <1>2, <1>4, <1>7, <2>1, <2>2 DEF ListsStored
    <2>4. QED
        BY <2>2, <2>3
<1>8. /\ \A n : ListedVersions(n)' = ListedVersions(n)
      /\ \A n, i : LastOn(n, i)' <=> LastOn(n, i)
    BY <1>1, StoreStays DEF LastOn
<1>9. ASSUME Together, NEW n \in Names \ missed'[c]
      PROVE  Knows(c, n)' /\ Untold(c, n)'
    <2>1. view'[c][n] \in ListedVersions(n)'
        BY <1>2, <1>4, <1>8
    <2>2. ASSUME n \in NamesIn(events) PROVE Tells(n)
        <3>1. n # NoName /\ remote # "ended"
            BY <1>4, <1>9, <2>2, NSRegistrationAssumption DEF Names
        <3>2. events # <<>>
            BY <2>2 DEF NamesIn
        <3>3. remote = "open"
            BY <1>0, <3>1, <3>2 DEF Pending, TypeOK
        <3>4. QED
            BY <1>0, <1>9, <2>2, <3>3 DEF Fresh
    <2>3. Knows(c, n)'
        BY <1>1, <1>8, <2>1, <2>2 DEF Knows, Tells
    <2>4. QED
        BY <2>1, <2>3 DEF Untold
<1>10. QED
    BY <1>1, <1>3, <1>6, <1>7, <1>9, OneCaller

\* Who subscribes is sent what is pending: of an open watch it is up to date.
LEMMA SubscribeKnown ==
    ASSUME TInv, CallersInv, NEW c \in Callers, Subscribe(c)
    PROVE  CallersInv'
<1>0. TypeOK /\ Views /\ Fresh /\ Known
    BY DEF TInv, CallersInv
<1>1. /\ UNCHANGED <<home, store, revision, remote, events, view>>
      /\ find[c] = "listed" /\ find' = [find EXCEPT ![c] = "watching"]
      /\ missed' = [missed EXCEPT ![c] = IF remote = "open" THEN missed[c] \ NamesIn(events)
                                         ELSE missed[c]]
    BY DEF Subscribe, watchVars
<1>2. \A d \in Callers \ {c} : /\ find'[d] = find[d] /\ view'[d] = view[d]
                               /\ missed'[d] = missed[d]
    BY <1>0, <1>1 DEF TypeOK
<1>3. /\ find'[c] = "watching"
      /\ missed'[c] = IF remote = "open" THEN missed[c] \ NamesIn(events) ELSE missed[c]
    BY <1>0, <1>1 DEF TypeOK
<1>4. \A n \in Names : view'[c][n] <= revision
    BY <1>0, <1>1 DEF Views
<1>5. /\ \A n : ListedVersions(n)' = ListedVersions(n)
      /\ \A n, i : LastOn(n, i)' <=> LastOn(n, i)
    BY <1>1, StoreStays DEF LastOn
<1>6. ASSUME Together, NEW n \in Names \ missed'[c] PROVE Knows(c, n)'
    <2>1. Knows(c, n)
        <3>1. CASE n \notin missed[c]
            BY <1>0, <1>1, <1>6, <3>1 DEF Known, Listing
        <3>2. CASE n \in missed[c]
            <4>1. remote = "open" /\ n \in NamesIn(events)
                BY <1>3, <1>6, <3>2
            <4>2. Tells(n)
                BY <1>0, <1>6, <4>1 DEF Fresh
            <4>3. QED
                BY <4>1, <4>2 DEF Tells, Knows
        <3>3. QED
            BY <3>1, <3>2
    <2>2. QED
        BY <1>1, <1>5, <2>1 DEF Knows
<1>7. QED
    BY <1>1, <1>2, <1>3, <1>4, <1>6, OneCaller

\* Who leaves, or fails, is not owed anything.
LEMMA LeaveKnown ==
    ASSUME TInv, CallersInv, NEW c \in Callers, FindFails(c) \/ Leave(c)
    PROVE  CallersInv'
<1>0. TypeOK /\ Views
    BY DEF TInv, CallersInv
<1>1. PICK f \in {"failed", "ended"} : find' = [find EXCEPT ![c] = f]
    BY DEF FindFails, Leave
<1>2. UNCHANGED <<home, store, revision, remote, events, view, missed>>
    BY DEF FindFails, Leave, watchVars
<1>3. find'[c] = f /\ \A d \in Callers \ {c} : find'[d] = find[d]
    BY <1>0, <1>1 DEF TypeOK
<1>4. ~Listing(c)' /\ find'[c] # "listed"
    BY <1>3 DEF Listing
<1>5. \A n \in Names : view'[c][n] <= revision
    BY <1>0, <1>2 DEF Views
<1>6. QED
    BY <1>2, <1>3, <1>4, <1>5, OneCaller
-----------------------------------------------------------------------------
(***************************************************************************)
(* The options of the chain.                                               *)
(***************************************************************************)

\* A set of numbers has a least one.
LEMMA Least == ASSUME NEW S \in SUBSET Nat, S # {} PROVE \E x \in S : \A y \in S : x <= y
<1> DEFINE T == {0 .. x : x \in S}
<1>1. ASSUME NEW x \in S PROVE IsFiniteSet(0 .. x) /\ 0 .. x \in SUBSET Nat
    <2>1. 0 \in Int /\ x \in Int
        OBVIOUS
    <2>2. QED
        BY <2>1, FS_Interval
<1>2. T \subseteq FiniteSubsetsOf(Nat) /\ T # {}
    BY <1>1 DEF FiniteSubsetsOf
<1>3. PICK t \in T : \A u \in T : ~(<<u, t>> \in StrictSubsetOrdering(Nat))
    BY <1>2, WFMin, FS_StrictSubsetOrderingWellFounded
<1>4. PICK x \in S : t = 0 .. x
    OBVIOUS
<1>5. ASSUME NEW y \in S PROVE x <= y
    <2>1. SUFFICES ASSUME y < x PROVE FALSE
        OBVIOUS
    <2>2. 0 .. y \subseteq 0 .. x /\ x \in 0 .. x /\ x \notin 0 .. y
        BY <2>1
    <2>3. 0 .. y # 0 .. x
        BY <2>2
    <2>4. <<0 .. y, 0 .. x>> \in StrictSubsetOrdering(Nat)
        BY <2>2, <2>3, <1>1 DEF StrictSubsetOrdering
    <2>5. QED
        BY <1>3, <1>4, <2>4
<1>6. QED
    BY <1>5

\* A set of indices has a greatest one.
LEMMA Greatest ==
    ASSUME NEW n \in Nat, NEW S \in SUBSET (1 .. n), S # {}
    PROVE  Max(S) \in S /\ \A y \in S : Max(S) >= y
<1> DEFINE T == {n - x : x \in S}
<1>0. \A x \in S : n - x \in Nat
    OBVIOUS
<1>1. T \in SUBSET Nat /\ T # {}
    BY <1>0
<1>2. PICK t \in T : \A u \in T : t <= u
    BY <1>1, Least
<1>3. PICK x \in S : t = n - x
    OBVIOUS
<1>4. ASSUME NEW y \in S PROVE x >= y
    <2>1. n - x <= n - y
        BY <1>2, <1>3
    <2>2. x \in Int /\ y \in Int
        OBVIOUS
    <2>3. QED
        BY <2>1, <2>2
<1>5. \E m \in S : \A y \in S : m >= y
    BY <1>4
<1>6. QED
    BY <1>5 DEF Max

\* The options as the chain applies them: function iter gives the outcome for each
\* set of positions, the last position last.
Outcome(options, iter, s) ==
    IF s = {} THEN DefaultOptions ELSE Apply(iter[s \ {Max(s)}], options[Max(s)])

Applies(options, n, iter) ==
    iter = [s \in SUBSET (1 .. n) |-> Outcome(options, iter, s)]

\* There is such a function, by induction on the number of positions: the least one
\* without is neither 0 nor a successor.
LEMMA AppliesThem ==
    ASSUME NEW options, NEW l \in Nat
    PROVE  \E iter : Applies(options, l, iter)
<1> DEFINE Fails == {k \in 0 .. l : ~\E iter : Applies(options, k, iter)}
<1>1. SUFFICES ASSUME Fails # {} PROVE FALSE
    OBVIOUS
<1>2. PICK k \in Fails : \A j \in Fails : k <= j
    <2>1. Fails \in SUBSET Nat
        OBVIOUS
    <2> HIDE DEF Fails
    <2>2. QED
        BY <1>1, <2>1, Least
<1>3. k # 0
    <2> DEFINE g == [s \in SUBSET (1 .. 0) |-> DefaultOptions]
    <2>1. \A s \in SUBSET (1 .. 0) : s = {}
        OBVIOUS
    <2>2. Applies(options, 0, g)
        BY <2>1 DEF Applies, Outcome
    <2>3. QED
        BY <2>2
<1>4. k - 1 \in 0 .. l /\ k \in Nat /\ k \in 0 .. l
    BY <1>3
<1>5. PICK g : Applies(options, k - 1, g)
    <2>1. ~(k <= k - 1)
        BY <1>4
    <2>2. k - 1 \notin Fails
        BY <1>2, <2>1
    <2>3. QED
        BY <1>4, <2>2
<1> DEFINE h == [s \in SUBSET (1 .. k) |-> Outcome(options, g, s)]
<1>6. \A t \in SUBSET (1 .. k - 1) : t \in SUBSET (1 .. k)
    BY <1>4
<1>7. \A t \in SUBSET (1 .. k - 1) : h[t] = g[t]
    BY <1>5, <1>6 DEF Applies
<1>8. ASSUME NEW s \in SUBSET (1 .. k), s # {} PROVE s \ {Max(s)} \in SUBSET (1 .. k - 1)
    <2>1. Max(s) \in s /\ \A y \in s : Max(s) >= y
        BY <1>4, <1>8, Greatest
    <2>2. ASSUME NEW y \in s, y # Max(s) PROVE y \in 1 .. k - 1
        <3>1. y \in 1 .. k /\ Max(s) \in 1 .. k /\ Max(s) >= y
            BY <2>1
        <3>2. QED
            BY <1>4, <2>2, <3>1
    <2>3. QED
        BY <2>2
<1>9. ASSUME NEW s \in SUBSET (1 .. k) PROVE Outcome(options, g, s) = Outcome(options, h, s)
    <2>1. s # {} => h[s \ {Max(s)}] = g[s \ {Max(s)}]
        BY <1>7, <1>8
    <2> HIDE DEF h
    <2>2. QED
        BY <2>1 DEF Outcome
<1>10. Applies(options, k, h)
    <2>1. h = [s \in SUBSET (1 .. k) |-> Outcome(options, g, s)]
        OBVIOUS
    <2> HIDE DEF h
    <2>2. h = [s \in SUBSET (1 .. k) |-> Outcome(options, h, s)]
        BY <1>9, <2>1
    <2>3. QED
        BY <2>2 DEF Applies
<1>11. QED
    BY <1>10

\* ServerOptions is its value on all positions.
LEMMA ServerOptionsApply ==
    ASSUME NEW options, NEW l \in Nat, DOMAIN options = 1 .. l
    PROVE  \E iter : Applies(options, l, iter) /\ ServerOptions(options) = iter[1 .. l]
<1> DEFINE iter == CHOOSE iter : Applies(options, l, iter)
<1>1. Applies(options, l, iter)
    BY AppliesThem
<1>2. ServerOptions(options) = iter[1 .. l]
    BY DEF ServerOptions, FoldLeft, MapThenFoldSet, Applies, Outcome
<1>3. QED
    BY <1>1, <1>2

\* The last option for a field counts; a field without one admits everyone.
LEMMA LastOptionCounts ==
    ASSUME NEW options \in Seq(Option), NEW f \in DOMAIN DefaultOptions
    PROVE  /\ \A i \in DOMAIN options :
                 /\ options[i].field = f
                 /\ \A j \in i + 1 .. Len(options) : options[j].field # f
                 => ServerOptions(options)[f] = options[i].admits
           /\ (\A i \in DOMAIN options : options[i].field # f) =>
                 ServerOptions(options)[f] = Everyone
<1> DEFINE l == Len(options)
           Fields == DOMAIN DefaultOptions
<1>0. Fields = {"nsServer", "nseServer", "nsClient", "nseClient"}
    BY DEF DefaultOptions
<1>1. l \in Nat /\ DOMAIN options = 1 .. l /\ \A i \in 1 .. l : options[i] \in Option
    BY LenProperties, ElementOfSeq
<1> HIDE DEF l
<1>2. PICK iter : Applies(options, l, iter) /\ ServerOptions(options) = iter[1 .. l]
    BY <1>1, ServerOptionsApply
<1> DEFINE Holds(k) ==
               /\ iter[1 .. k] \in [Fields -> SUBSET Everyone]
               /\ \A i \in 1 .. k :
                     /\ options[i].field = f
                     /\ \A j \in i + 1 .. k : options[j].field # f
                     => iter[1 .. k][f] = options[i].admits
               /\ (\A i \in 1 .. k : options[i].field # f) => iter[1 .. k][f] = Everyone
           Fails == {k \in 0 .. l : ~Holds(k)}
<1>3. \A s \in SUBSET (1 .. l) : iter[s] = Outcome(options, iter, s)
    BY <1>2 DEF Applies
<1>4. Fails = {}
    <2>1. SUFFICES ASSUME Fails # {} PROVE FALSE
        OBVIOUS
    <2>2. PICK k \in Fails : \A j \in Fails : k <= j
        <3>1. Fails \in SUBSET Nat
            BY <1>1
        <3> HIDE DEF Fails
        <3>2. QED
            BY <2>1, <3>1, Least
    <2>3. k \in 0 .. l /\ k \in Nat
        BY <1>1
    <2>4. CASE k = 0
        <3>1. 1 .. k = {} /\ {} \in SUBSET (1 .. l)
            BY <2>4
        <3>2. iter[1 .. k] = DefaultOptions
            BY <1>3, <3>1 DEF Outcome
        <3>3. DefaultOptions = [g \in Fields |-> Everyone]
            BY DEF DefaultOptions
        <3>4. Holds(k)
            BY <3>1, <3>2, <3>3
        <3>5. QED
            BY <3>4
    <2>5. CASE k # 0
        <3>1. k - 1 \in 0 .. l /\ k - 1 \in Nat /\ ~(k <= k - 1) /\ k \in 1 .. l
            BY <1>1, <2>3, <2>5
        <3>2. Holds(k - 1)
            BY <2>2, <3>1
        <3>3. /\ 1 .. k \in SUBSET (1 .. l) /\ 1 .. k # {} /\ k \in 1 .. k
              /\ (1 .. k) \ {k} = 1 .. k - 1
            BY <1>1, <3>1
        <3>4. Max(1 .. k) = k
            <4>1. Max(1 .. k) \in 1 .. k /\ \A y \in 1 .. k : Max(1 .. k) >= y
                BY <2>3, <3>3, Greatest
            <4>2. QED
                BY <2>3, <3>3, <4>1
        <3>5. iter[1 .. k] = [iter[1 .. k - 1] EXCEPT ![options[k].field] = options[k].admits]
            BY <1>3, <3>3, <3>4 DEF Outcome, Apply
        <3>6. options[k].field \in Fields /\ options[k].admits \in SUBSET Everyone
            BY <1>1, <3>1 DEF Option
        <3>7. iter[1 .. k] \in [Fields -> SUBSET Everyone]
            BY <3>2, <3>5, <3>6
        <3>8. iter[1 .. k][f] = IF options[k].field = f THEN options[k].admits
                                ELSE iter[1 .. k - 1][f]
            BY <3>2, <3>5, <3>6
        <3>9. /\ \A i \in 1 .. k : i = k \/ i \in 1 .. k - 1
              /\ \A i \in 1 .. k - 1 : i \in 1 .. k /\ k \in i + 1 .. k
              /\ \A i \in 1 .. k - 1 : \A j \in i + 1 .. k - 1 : j \in i + 1 .. k
            BY <2>3, <3>1
        <3>10. ASSUME NEW i \in 1 .. k, options[i].field = f,
                      \A j \in i + 1 .. k : options[j].field # f
               PROVE  iter[1 .. k][f] = options[i].admits
            BY <3>2, <3>8, <3>9, <3>10
        <3>11. (\A i \in 1 .. k : options[i].field # f) => iter[1 .. k][f] = Everyone
            BY <3>2, <3>3, <3>8, <3>9
        <3>12. Holds(k)
            BY <3>7, <3>10, <3>11
        <3>13. QED
            BY <3>12
    <2>6. QED
        BY <2>4, <2>5
<1>5. Holds(l)
    BY <1>1, <1>4
<1>6. QED
    BY <1>1, <1>2, <1>5 DEF l
-----------------------------------------------------------------------------
(***************************************************************************)
(* The invariant.                                                          *)
(***************************************************************************)

\* It holds at the start, where nothing is stored, sent or listed ...
LEMMA InitIInv == Init => IInv
<1> SUFFICES ASSUME Init PROVE IInv
    OBVIOUS
<1>1. TInv
    BY InitTInv
<1>2. Admitted
    BY DEF Init, Admitted
<1>3. RelyAll /\ ConflictHasCause
    BY DEF Init, RelyAll, Relies, ConflictHasCause, Idle
<1>4. Views
    <2>1. \A c \in Callers : \A n \in Names : view[c][n] = 0
        BY DEF Init
    <2>2. QED
        BY <2>1 DEF Init, Views
<1>5. Fresh
    BY DEF Init, Fresh
<1>6. Known /\ Lists
    BY DEF Init, Known, Lists, Listing
<1>7. QED
    BY <1>1, <1>2, <1>3, <1>4, <1>5, <1>6 DEF IInv

\* ... and after every step: the four about the callers action by action.
LEMMA StepIInv == IInv /\ [Next]_vars => IInv'
<1> SUFFICES ASSUME IInv, [Next]_vars PROVE IInv'
    OBVIOUS
<1>1. TInv /\ TInv' /\ CallersInv
    BY StepTInv DEF IInv, CallersInv
<1>2. Admitted' /\ RelyAll' /\ ConflictHasCause'
    BY StepAdmitted, StepRelies DEF IInv
<1>3. CallersInv'
    <2>1. ASSUME NEW x \in Clients, CallStep(x) \/ Create(x) \/ Update(x) \/ Delete(x)
          PROVE  CallersInv'
        BY <1>1, <2>1, CallStepQuiet, QuietKnown, WriteKnown, DeleteKnown
    <2>2. CASE OpenFails \/ UNCHANGED vars
        <3>1. Quiet
            BY <2>2 DEF OpenFails, vars, findVars, Quiet
        <3>2. QED
            BY <1>1, <3>1, QuietKnown
    <2>3. CASE WatchStep
        BY <1>1, <2>2, <2>3, OpenKnown, BroadcastKnown, EndKnown, ReopenKnown DEF WatchStep
    <2>4. CASE FindStep
        BY <1>1, <2>4, ListKnown, SubscribeKnown, LeaveKnown DEF FindStep
    <2>5. QED
        BY <2>1, <2>2, <2>3, <2>4, NextCases
<1>4. QED
    BY <1>1, <1>2, <1>3 DEF IInv, CallersInv

\* What a caller knows, what it has missed and what is pending in the watch fit
\* together, and so do a Register and what it has read, in every state.
THEOREM Inductive == Spec => []IInv
    BY InitIInv, StepIInv, PTL DEF Spec

\* A Register of a service fails, no request lost, only when another client
\* changed the service between its Create and its Update.
THEOREM ConflictsCaused == Spec => []ConflictHasCause
<1>1. IInv => ConflictHasCause
    BY DEF IInv
<1>2. QED
    BY <1>1, Inductive, PTL

\* Through lost connections, breaks and returns of the watch, a subscribed caller
\* of Find that is sent the pending events knows every service as it is stored but
\* those whose last change it missed.
THEOREM KnowsTheRest == Spec => []KnowsUnlessMissed
<1>1. IInv => KnowsUnlessMissed
    BY DEF IInv, Known, Together, Listing, KnowsUnlessMissed
<1>2. QED
    BY <1>1, Inductive, PTL

\* Whatever options NewServer is given, the last one for the authorize element of
\* services decides who writes to the store, and a name with a domain never gets
\* there.
THEOREM AdmittedOnly == Spec => []OnlyAdmittedLocal
<1>1. IInv => OnlyAdmittedLocal
    <2> SUFFICES ASSUME IInv, NEW k \in Stored(store)
                 PROVE  /\ k[2] \notin Interdomain
                        /\ \A i \in DOMAIN Options :
                              /\ Options[i].field = "nsServer"
                              /\ \A j \in i + 1 .. Len(Options) : Options[j].field # "nsServer"
                              => store[k].by \in Options[i].admits
        BY DEF OnlyAdmittedLocal
    <2>1. store[k].by \in Opts.nsServer /\ k[2] \notin Interdomain
        BY DEF IInv, TInv, TypeOK, Admitted, Stored
    <2>2. Options \in Seq(Option) /\ "nsServer" \in DOMAIN DefaultOptions
        BY OptionsAssumption DEF DefaultOptions
    <2>3. \A i \in DOMAIN Options :
             /\ Options[i].field = "nsServer"
             /\ \A j \in i + 1 .. Len(Options) : Options[j].field # "nsServer"
             => Opts["nsServer"] = Options[i].admits
        BY <2>2, LastOptionCounts DEF Opts
    <2>4. QED
        BY <2>1, <2>3
<1>2. QED
    BY <1>1, Inductive, PTL
=============================================================================
