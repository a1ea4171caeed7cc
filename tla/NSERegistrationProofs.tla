----------------------- MODULE NSERegistrationProofs -----------------------
(***************************************************************************)
(* Proofs about NSERegistration, for any number of replicas, namespaces,   *)
(* names, writes and restarts.  IInv is inductive; the invariants that TLC *)
(* checks on small instances follow from it, and so does the refinement of *)
(* AtomicRegistry.                                                         *)
(***************************************************************************)
EXTENDS NSERegistration, FiniteSetTheorems, SequenceTheorems, TLAPS

\* The writes that calls in flight may still make fit under the bound.
Room ==
    /\ IsFiniteSet(InFlight)
    /\ revision + Cardinality(InFlight) <= MaxVersion

\* No two objects have the same version, none a version yet to come.
Versions ==
    /\ \A k \in Keys : store[k] # NoObject => store[k].version <= revision
    /\ \A k, l \in Keys :
          /\ store[k] # NoObject /\ store[l] # NoObject
          /\ store[k].version = store[l].version
          => k = l

\* What a replica has read is what the store holds, wherever the store still
\* holds that version.
Seen ==
    \A r \in Replicas : \A o \in observed[r] :
        /\ o.object.version <= revision
        /\ \A k \in Keys :
              store[k] # NoObject /\ store[k].version = o.object.version => store[k] = o.object

\* A version that is queued for deletion is that of an expired object.
Doomed(v) ==
    /\ v <= revision
    /\ \A k \in Keys : store[k] # NoObject /\ store[k].version = v => Expired(store[k].expires)

Queued ==
    \A r \in Replicas : \A i \in 1 .. Len(deleteJobs[r]) : Doomed(deleteJobs[r][i].version)

\* The replica of the slot x wrote the version v.
Owns(x, v) ==
    /\ v <= revision
    /\ \A k \in Keys : store[k] # NoObject /\ store[k].version = v => store[k].by = x[1]

\* Such is the version a timer holds, on its way from Register to the timer,
\* in the timer, and on its way from the timer to the Delete.
Owned(x) ==
    /\ call[x].pc = "next" => Owns(x, call[x].version)
    /\ timer[x] # 0 => Owns(x, timer[x])
    /\ call[x].pc = "delete" /\ call[x].cause = "timer" =>
          call[x].version # 0 /\ Owns(x, call[x].version)
    /\ call[x].pc = "delete" /\ call[x].cause = "caller" => call[x].version = 0

OwnedByAll == \A x \in Slots : Owned(x)

\* Register relies on what it has found, unless somebody interfered.
Relies(x) ==
    /\ call[x].pc = "get" => interfered[x] \/ store[KeyAt(x)] # NoObject
    /\ call[x].pc = "update" =>
          \/ interfered[x]
          \/ store[KeyAt(x)] # NoObject /\ store[KeyAt(x)].version = call[x].got
    /\ x \in InFlight => result[x] # "conflict"

RelyAll == \A x \in Slots : Relies(x)

TInv == TypeOK /\ Room

IInv == TInv /\ Versions /\ Seen /\ Queued /\ OwnedByAll /\ RelyAll /\ ConflictHasCause
-----------------------------------------------------------------------------
(***************************************************************************)
(* Type correctness.                                                       *)
(***************************************************************************)

\* A slot works on a key of the store, and is told apart by its two parts.
LEMMA SlotKey ==
    ASSUME home \in Homes, NEW x \in Slots
    PROVE  /\ KeyAt(x) \in Keys
           /\ x[1] \in Replicas /\ x[2] \in Names /\ x[2] # NoName
           /\ x # <<>>
    BY RegistrationAssumption DEF Slots, Keys, KeyAt

\* What a call in flight carries.
LEMMA CallFields ==
    ASSUME NEW c \in Call
    PROVE  /\ c.pc \in {"idle", "create", "get", "update", "next", "delete"}
           /\ c.pc = "idle" => c = Idle
           /\ c.pc \in {"create", "get", "update"} => c.expires \in Times
           /\ c.pc = "update" => c.got \in 1 .. MaxVersion
           /\ c.pc = "next" => c.version \in 1 .. MaxVersion
           /\ c.pc = "delete" => c.cause \in {"caller", "timer"} /\ c.version \in 0 .. MaxVersion
    BY DEF Call, Idle

\* A request that names a key is accepted by what the store holds there.
LEMMA AcceptedAt ==
    ASSUME home \in Homes, NEW x \in Slots
    PROVE  /\ Accepted(CreateRequest(x), store) <=> store[KeyAt(x)] = NoObject
           /\ Accepted(GetRequest(x), store) <=> store[KeyAt(x)] # NoObject
           /\ Accepted(UpdateRequest(x), store) <=>
                 store[KeyAt(x)] # NoObject /\ call[x].got = store[KeyAt(x)].version
<1>1. x[2] # NoName
    BY SlotKey
<1>2. QED
    BY <1>1
    DEF Accepted, CreateRequest, GetRequest, UpdateRequest, EndpointCreate, EndpointGet,
        EndpointUpdate, EndpointRequest, Request, KeyIn, KeyAt

\* So is a Delete, which may name a version.
LEMMA DeletableAt ==
    ASSUME NEW k \in Keys, NEW v
    PROVE  Deletable(k, v) <=> store[k] # NoObject /\ v \in {0, store[k].version}
<1>1. k = <<k[1], k[2]>> /\ k[2] \in Names /\ k[2] # NoName
    BY RegistrationAssumption DEF Keys
<1>2. QED
    BY <1>1 DEF Deletable, Accepted, EndpointDelete, EndpointRequest, Request, KeyIn

\* A call that is not for a write leaves the room as it is, or makes more.
LEMMA RoomKept ==
    ASSUME TypeOK, Room, revision' = revision, InFlight' \subseteq InFlight
    PROVE  Room'
<1>1. IsFiniteSet(InFlight') /\ Cardinality(InFlight') <= Cardinality(InFlight)
    BY FS_Subset DEF Room
<1>2. Cardinality(InFlight) \in Nat /\ Cardinality(InFlight') \in Nat
    BY <1>1, FS_CardinalityType DEF Room
<1>3. QED
    BY <1>1, <1>2, RegistrationAssumption DEF Room, TypeOK

\* A call in flight writes once: it was counted before and is not any more.
LEMMA RoomUsed ==
    ASSUME TypeOK, Room, NEW x \in InFlight,
           revision' = revision + 1, InFlight' = InFlight \ {x}
    PROVE  Room' /\ revision + 1 \in 1 .. MaxVersion
<1>1. IsFiniteSet(InFlight') /\ Cardinality(InFlight') = Cardinality(InFlight) - 1
    BY FS_RemoveElement DEF Room
<1>2. Cardinality(InFlight) \in Nat /\ Cardinality(InFlight') \in Nat
    BY <1>1, FS_CardinalityType DEF Room
<1>3. QED
    BY <1>1, <1>2, RegistrationAssumption DEF Room, TypeOK

\* Types hold at the start ...
LEMMA InitTInv == Init => TInv
<1> SUFFICES ASSUME Init PROVE TInv
    OBVIOUS
<1>1. InFlight = {}
    BY DEF Init, InFlight, Idle
<1>2. Room
    BY <1>1, FS_EmptySet, RegistrationAssumption DEF Room, Init
<1>3. TypeOK
    BY RegistrationAssumption DEF Init, TypeOK, Call
<1>4. QED
    BY <1>2, <1>3 DEF TInv

\* ... and every step keeps them.
LEMMA StepTInv == TInv /\ [Next]_vars => TInv'
<1> SUFFICES ASSUME TInv, [Next]_vars PROVE TInv'
    OBVIOUS
<1> USE RegistrationAssumption
<1>0. TypeOK /\ Room
    BY DEF TInv
<1>1. ASSUME NEW x \in Slots, NEW expires \in Times, Register(x, expires) PROVE TInv'
    <2>1. [pc |-> "create", expires |-> expires] \in Call
        BY DEF Call
    <2>2. TypeOK'
        BY <1>0, <1>1, <2>1 DEF Register, SetCall, TypeOK, gcVars
    <2>3. x \notin InFlight /\ InFlight' = InFlight \cup {x}
        BY <1>0, <1>1 DEF Register, SetCall, TypeOK, InFlight, Idle
    <2>4. IsFiniteSet(InFlight') /\ Cardinality(InFlight') = Cardinality(InFlight) + 1
        BY <1>0, <2>3, FS_AddElement DEF Room
    <2>5. Cardinality(InFlight) \in Nat
        BY <1>0, FS_CardinalityType DEF Room
    <2>6. Room'
        BY <1>0, <1>1, <2>4, <2>5 DEF Room, Register, TypeOK
    <2>7. QED
        BY <2>2, <2>6 DEF TInv
<1>2. ASSUME NEW x \in Slots, Create(x) \/ Update(x) PROVE TInv'
    <2>1. x \in InFlight /\ Write(KeyAt(x), x, call[x].expires) /\ Answered(x)
          /\ call[x].expires \in Times
        BY <1>0, <1>2, CallFields DEF Create, Update, InFlight, TypeOK
    <2>2. revision' = revision + 1
        BY <2>1 DEF Write
    <2>3. InFlight' = InFlight \ {x}
        BY <1>0, <2>1 DEF Answered, End, SetCall, InFlight, TypeOK, Idle
    <2>4. Room' /\ revision + 1 \in 1 .. MaxVersion
        BY <1>0, <2>1, <2>2, <2>3, RoomUsed
    <2>5. call' \in [Slots -> Call]
        BY <1>0, <2>1, <2>2, <2>4 DEF Answered, End, SetCall, TypeOK, Call
    <2>6. store' \in [Keys -> Object \cup {NoObject}]
        <3>1. [version |-> revision + 1, by |-> x[1], expires |-> call[x].expires] \in Object
            BY <2>1, <2>4 DEF Object, Slots
        <3>2. QED
            BY <1>0, <2>1, <3>1 DEF Write, TypeOK
    <2>7. result' \in [Slots -> {"none", "ok", "conflict", "fault"}]
        BY <1>0, <2>1 DEF Answered, End, TypeOK
    <2>8. interfered' \in [Slots -> BOOLEAN]
        BY <1>0, <2>1 DEF Write, Changed, TypeOK
    <2>9. TypeOK'
        BY <1>0, <1>2, <2>2, <2>4, <2>5, <2>6, <2>7, <2>8 DEF TypeOK, Create, Update, gcVars
    <2>10. QED
        BY <2>4, <2>9 DEF TInv
<1>3. ASSUME NEW x \in Slots,
             AlreadyExists(x) \/ Get(x) \/ GetMissing(x) \/ UpdateRefused(x) \/ RegisterFault(x)
      PROVE  TInv'
    <2>1. x \in InFlight /\ InFlight' \subseteq InFlight /\ revision' = revision
        BY <1>0, <1>3
        DEF AlreadyExists, Get, GetMissing, UpdateRefused, RegisterFault, End, SetCall, InFlight,
            TypeOK, Idle
    <2>2. ASSUME Get(x) PROVE store[KeyAt(x)].version \in 1 .. MaxVersion
        <3>1. store[KeyAt(x)] # NoObject
            BY <1>0, <2>2, AcceptedAt DEF Get, TypeOK
        <3>2. QED
            BY <1>0, <3>1, SlotKey DEF TypeOK, Object
    <2>3. call' \in [Slots -> Call]
        <3>1. PICK c \in Call : SetCall(x, c)
            <4>1. call[x].expires \in Times \/ ~(AlreadyExists(x) \/ Get(x))
                BY <1>0, CallFields DEF AlreadyExists, Get, TypeOK
            <4>2. CASE AlreadyExists(x)
                BY <4>1, <4>2 DEF AlreadyExists, Call
            <4>3. CASE Get(x)
                BY <2>2, <4>1, <4>3 DEF Get, Call
            <4>4. CASE GetMissing(x) \/ UpdateRefused(x) \/ RegisterFault(x)
                BY <4>4 DEF GetMissing, UpdateRefused, RegisterFault, End, Call
            <4>5. QED
                BY <1>3, <4>2, <4>3, <4>4
        <3>2. QED
            BY <1>0, <3>1 DEF SetCall, TypeOK
    <2>4. TypeOK'
        BY <1>0, <1>3, <2>3
        DEF AlreadyExists, Get, GetMissing, UpdateRefused, RegisterFault, End, TypeOK,
            gcVars, history
    <2>5. QED
        BY <1>0, <2>1, <2>4, RoomKept DEF TInv
<1>4. ASSUME NEW x \in Slots, RegisterNext(x) PROVE TInv'
    <2>1. call[x].version \in 1 .. MaxVersion
        BY <1>0, <1>4, CallFields DEF RegisterNext, TypeOK
    <2>2. TypeOK'
        BY <1>0, <1>4, <2>1 DEF RegisterNext, End, SetCall, TypeOK, gcVars, Call
    <2>3. InFlight' \subseteq InFlight /\ revision' = revision
        BY <1>0, <1>4 DEF RegisterNext, End, SetCall, InFlight, TypeOK, Idle
    <2>4. QED
        BY <1>0, <2>2, <2>3, RoomKept DEF TInv
<1>5. ASSUME NEW x \in Slots, Unregister(x) \/ TimerFires(x) PROVE TInv'
    <2>1. PICK cause \in {"caller", "timer"}, v \in 0 .. MaxVersion : BeginUnregister(x, cause, v)
        BY <1>0, <1>5 DEF Unregister, TimerFires, TypeOK
    <2>2. [pc |-> "delete", cause |-> cause, version |-> v] \in Call
        BY DEF Call
    <2>3. TypeOK'
        BY <1>0, <2>1, <2>2 DEF BeginUnregister, SetCall, TypeOK, gcVars, history
    <2>4. InFlight' \subseteq InFlight /\ revision' = revision
        BY <1>0, <2>1 DEF BeginUnregister, SetCall, InFlight, TypeOK
    <2>5. QED
        BY <1>0, <2>3, <2>4, RoomKept DEF TInv
<1>6. ASSUME NEW x \in Slots, Delete(x) \/ DeleteRefused(x) PROVE TInv'
    <2>1. TypeOK'
        BY <1>0, <1>6
        DEF Delete, DeleteRefused, Erase, Changed, SetCall, TypeOK, gcVars, history, Call
    <2>2. call' = [call EXCEPT ![x] = Idle] /\ revision' = revision
        BY <1>6 DEF Delete, DeleteRefused, Erase, SetCall
    <2>3. InFlight' \subseteq InFlight
        BY <1>0, <2>2 DEF InFlight, TypeOK, Idle
    <2>4. QED
        BY <1>0, <2>1, <2>2, <2>3, RoomKept DEF TInv
<1>7. ASSUME NEW r \in Replicas, NEW k \in Keys, Observe(r, k) PROVE TInv'
    <2>1. store[k] \in Object
        BY <1>0, <1>7 DEF Observe, Selected, Stored, TypeOK
    <2>2. TypeOK'
        BY <1>0, <1>7, <2>1 DEF Observe, TypeOK, history
    <2>3. InFlight' \subseteq InFlight /\ revision' = revision
        BY <1>7 DEF Observe, InFlight
    <2>4. QED
        BY <1>0, <2>2, <2>3, RoomKept DEF TInv
<1>8. ASSUME NEW r \in Replicas, NEW o \in observed[r], Examine(r, o) PROVE TInv'
    <2>1. o.key \in Keys /\ o.object \in Object
        BY <1>0 DEF TypeOK
    <2>2. DeleteJob(o) \in Job
        BY <2>1 DEF DeleteJob, Job, Object, Keys
    <2>3. deleteJobs' \in [Replicas -> Seq(Job)]
        <3>1. Append(deleteJobs[r], DeleteJob(o)) \in Seq(Job)
            BY <1>0, <2>2, AppendProperties DEF TypeOK
        <3>2. QED
            BY <1>0, <1>8, <3>1 DEF Examine, TypeOK
    <2>4. TypeOK'
        BY <1>0, <1>8, <2>3 DEF Examine, TypeOK, history
    <2>5. InFlight' \subseteq InFlight /\ revision' = revision
        BY <1>8 DEF Examine, InFlight
    <2>6. QED
        BY <1>0, <2>4, <2>5, RoomKept DEF TInv
<1>9. ASSUME NEW r \in Replicas, Collect(r) \/ CollectRefused(r) PROVE TInv'
    <2>1. deleteJobs' \in [Replicas -> Seq(Job)]
        <3>1. deleteJobs[r] \in Seq(Job) /\ deleteJobs[r] # <<>>
            BY <1>0, <1>9 DEF Collect, CollectRefused, NextJob, TypeOK
        <3>2. Tail(deleteJobs[r]) \in Seq(Job)
            BY <3>1, HeadTailProperties
        <3>3. QED
            BY <1>0, <1>9, <3>2 DEF Collect, CollectRefused, NextJob, TypeOK
    <2>2. TypeOK'
        BY <1>0, <1>9, <2>1 DEF Collect, CollectRefused, Erase, Changed, TypeOK, history
    <2>3. InFlight' \subseteq InFlight /\ revision' = revision
        BY <1>9 DEF Collect, CollectRefused, Erase, InFlight
    <2>4. QED
        BY <1>0, <2>2, <2>3, RoomKept DEF TInv
<1>10. ASSUME NEW r \in Replicas, Restart(r) PROVE TInv'
    <2>1. TypeOK'
        BY <1>0, <1>10 DEF Restart, TypeOK, Call
    <2>2. InFlight' \subseteq InFlight /\ revision' = revision
        BY <1>0, <1>10 DEF Restart, InFlight, TypeOK, Idle
    <2>3. QED
        BY <1>0, <2>1, <2>2, RoomKept DEF TInv
<1>11. CASE Tick \/ UNCHANGED vars
    <2>1. TypeOK'
        BY <1>0, <1>11 DEF Tick, TypeOK, vars, gcVars, history
    <2>2. InFlight' \subseteq InFlight /\ revision' = revision
        BY <1>11 DEF Tick, vars, InFlight
    <2>3. QED
        BY <1>0, <2>1, <2>2, RoomKept DEF TInv
<1>12. QED
    BY <1>1, <1>2, <1>3, <1>4, <1>5, <1>6, <1>7, <1>8, <1>9, <1>10, <1>11 DEF Next, RegisterStep

\* The store, the calls, the timers and the queues have the values the code
\* can give them, and no call writes more often than the bound foresees.
THEOREM TypeCorrect == Spec => []TypeOK
<1>1. TInv => TypeOK
    BY DEF TInv
<1>2. QED
    BY <1>1, InitTInv, StepTInv, PTL DEF Spec
-----------------------------------------------------------------------------
(***************************************************************************)
(* Versions.                                                               *)
(***************************************************************************)

\* A step of the store: an object is as it was, or it is the only one of the
\* version that the step has made.
StoreStep ==
    /\ revision' \in {revision, revision + 1}
    /\ now' \in Nat /\ now <= now'
    /\ \A k \in Keys : store'[k] # NoObject =>
          store'[k] = store[k] \/ (revision' = revision + 1 /\ store'[k].version = revision + 1)
    /\ \A k, l \in Keys :
          store'[k] # store[k] /\ store'[l] # store[l] => k = l

\* Requests write at most one key, and give what they write a new version.
LEMMA EveryStoreStep ==
    ASSUME TInv, [Next]_vars
    PROVE  StoreStep
<1> USE RegistrationAssumption
<1>0. /\ TypeOK
      /\ now \in Nat /\ revision \in Nat
      /\ store = [k \in Keys |-> store[k]]
    BY DEF TInv, TypeOK
<1>1. ASSUME NEW k \in Keys, NEW object, store' = [store EXCEPT ![k] = object],
             \/ object = NoObject /\ revision' = revision
             \/ object.version = revision + 1 /\ revision' = revision + 1,
             now' = now
      PROVE  StoreStep
    <2>1. \A l \in Keys : store'[l] = IF l = k THEN object ELSE store[l]
        BY <1>0, <1>1
    <2>2. \A l \in Keys : store'[l] # NoObject =>
             store'[l] = store[l] \/ (revision' = revision + 1 /\ store'[l].version = revision + 1)
        BY <1>1, <2>1
    <2>3. revision' \in {revision, revision + 1} /\ now' \in Nat /\ now <= now'
        BY <1>0, <1>1
    <2>4. QED
        BY <2>1, <2>2, <2>3 DEF StoreStep
<1>2. ASSUME NEW x \in Slots, Create(x) \/ Update(x) PROVE StoreStep
    <2>1. Write(KeyAt(x), x, call[x].expires) /\ now' = now /\ KeyAt(x) \in Keys
        BY <1>0, <1>2, SlotKey DEF Create, Update, TypeOK
    <2>2. QED
        BY <1>1, <2>1 DEF Write
<1>3. ASSUME NEW x \in Slots, Delete(x) PROVE StoreStep
    <2>1. KeyAt(x) \in Keys
        BY <1>0, SlotKey DEF TypeOK
    <2>2. QED
        BY <1>1, <1>3, <2>1 DEF Delete, Erase
<1>4. ASSUME UNCHANGED <<store, revision>>, now' \in {now, now + 1} PROVE StoreStep
    <2>1. now' \in Nat /\ now <= now'
        BY <1>0, <1>4
    <2>2. QED
        BY <1>4, <2>1 DEF StoreStep
<1>5. ASSUME NEW r \in Replicas, Collect(r) PROVE StoreStep
    <2>1. CASE JobKey(r) \in Keys
        BY <1>1, <1>5, <2>1 DEF Collect, Erase
    <2>2. CASE JobKey(r) \notin Keys
        <3>1. store' = store /\ revision' = revision /\ now' = now
            BY <1>0, <1>5, <2>2 DEF Collect, Erase
        <3>2. QED
            BY <1>4, <3>1
    <2>3. QED
        BY <2>1, <2>2
<1>6. QED
    BY <1>2, <1>3, <1>4, <1>5
    DEF Next, RegisterStep, Register, AlreadyExists, Get, GetMissing, UpdateRefused, RegisterNext,
        RegisterFault, Unregister, TimerFires, BeginUnregister, DeleteRefused, Observe, Examine,
        CollectRefused, Restart, Tick, vars

\* An object of an old version is where and what it was.
LEMMA OldVersion ==
    ASSUME TypeOK, StoreStep, NEW v, v <= revision,
           NEW k \in Keys, store'[k] # NoObject, store'[k].version = v
    PROVE  store[k] = store'[k]
    BY RegistrationAssumption DEF StoreStep, TypeOK

\* Nothing is stored, read or queued at the start.
LEMMA InitVersions == Init => Versions /\ Seen /\ Queued /\ OwnedByAll
    BY DEF Init, Versions, Seen, Queued, OwnedByAll, Owned, Idle

\* A new version is larger than all there are.
LEMMA StepVersions ==
    ASSUME TypeOK, StoreStep, Versions
    PROVE  Versions'
<1> USE RegistrationAssumption DEF StoreStep, TypeOK
<1>1. ASSUME NEW k \in Keys, store'[k] # NoObject PROVE store'[k].version <= revision'
    <2>1. CASE store'[k] = store[k]
        <3>1. store[k] \in Object /\ store[k].version <= revision
            BY <1>1, <2>1 DEF Versions
        <3>2. QED
            BY <2>1, <3>1 DEF Object
    <2>2. CASE store'[k] # store[k]
        BY <1>1, <2>2
    <2>3. QED
        BY <2>1, <2>2
<1>2. ASSUME NEW k \in Keys, NEW l \in Keys, store'[k] # NoObject, store'[l] # NoObject,
             store'[k].version = store'[l].version
      PROVE  k = l
    BY <1>2 DEF Versions
<1>3. QED
    BY <1>1, <1>2 DEF Versions

\* What was said of a version stays true, since it is not given out again.
LEMMA StaysDoomed ==
    ASSUME TypeOK, TypeOK', StoreStep, NEW v \in Nat, Doomed(v)
    PROVE  Doomed(v)'
<1> USE RegistrationAssumption
<1>1. v <= revision'
    BY DEF StoreStep, Doomed, TypeOK
<1>2. ASSUME NEW k \in Keys, store'[k] # NoObject, store'[k].version = v
      PROVE  Expired(store[k].expires)'
    <2>1. store[k] = store'[k] /\ Expired(store[k].expires)
        BY <1>2, OldVersion DEF Doomed
    <2>2. store[k].expires \in Nat
        BY <1>2, <2>1 DEF TypeOK, Object
    <2>3. now \in Nat /\ now' \in Nat /\ now <= now'
        BY DEF StoreStep, TypeOK
    <2>4. QED
        BY <2>1, <2>2, <2>3 DEF Expired
<1>3. QED
    BY <1>1, <1>2 DEF Doomed

\* And so does what was said of the replica that wrote it.
LEMMA StaysOwned ==
    ASSUME TypeOK, StoreStep, NEW x \in Slots, NEW v \in Nat, Owns(x, v)
    PROVE  Owns(x, v)'
<1>1. v <= revision'
    BY RegistrationAssumption DEF StoreStep, Owns, TypeOK
<1>2. QED
    BY <1>1, OldVersion DEF Owns

\* A replica reads the store as it is, and what it has read ages as versions do.
LEMMA StepSeen ==
    ASSUME TInv, [Next]_vars, StoreStep, Versions, Seen
    PROVE  Seen'
<1> USE RegistrationAssumption
<1>0. TypeOK
    BY DEF TInv
<1>1. ASSUME NEW r \in Replicas, NEW o \in observed[r]
      PROVE  /\ o.object.version <= revision'
             /\ \A k \in Keys : store'[k] # NoObject /\ store'[k].version = o.object.version
                                    => store'[k] = o.object
    <2>1. o.object.version \in Nat /\ o.object.version <= revision
        BY <1>0 DEF TypeOK, Object, Seen
    <2>2. QED
        BY <1>0, <2>1, OldVersion DEF Seen, StoreStep, TypeOK
<1>2. ASSUME NEW r \in Replicas, NEW k \in Keys, Observe(r, k) PROVE Seen'
    <2>1. store[k] # NoObject /\ UNCHANGED <<store, revision>>
        BY <1>2 DEF Observe, Selected, Stored
    <2>2. QED
        BY <1>0, <1>1, <1>2, <2>1 DEF Observe, Versions, Seen, TypeOK
<1>3. ASSUME \A r \in Replicas : observed'[r] \subseteq observed[r] PROVE Seen'
    BY <1>1, <1>3 DEF Seen
<1>4. ASSUME NEW r \in Replicas, NEW o \in observed[r], Examine(r, o) PROVE Seen'
    BY <1>0, <1>3, <1>4 DEF Examine, TypeOK
<1>5. ASSUME NEW r \in Replicas, Restart(r) PROVE Seen'
    BY <1>0, <1>3, <1>5 DEF Restart, TypeOK
<1>6. ASSUME UNCHANGED observed PROVE Seen'
    BY <1>3, <1>6
<1>7. QED
    BY <1>2, <1>4, <1>5, <1>6
    DEF Next, RegisterStep, Register, Create, AlreadyExists, Get, GetMissing, Update,
        UpdateRefused, RegisterNext, RegisterFault, Unregister, TimerFires, BeginUnregister,
        Delete, DeleteRefused, Collect, CollectRefused, Tick, vars, gcVars
-----------------------------------------------------------------------------
(***************************************************************************)
(* The collection of expired objects.                                      *)
(***************************************************************************)

\* What is queued is expired, and what was queued stays so.
LEMMA StepQueued ==
    ASSUME TInv, TypeOK', [Next]_vars, StoreStep, Seen, Queued
    PROVE  Queued'
<1> USE RegistrationAssumption
<1>0. TypeOK
    BY DEF TInv
<1>1. ASSUME NEW r \in Replicas, NEW i \in 1 .. Len(deleteJobs[r])
      PROVE  \E v \in Nat : v = deleteJobs[r][i].version /\ Doomed(v)'
    <2>1. deleteJobs[r][i] \in Job
        BY <1>0, ElementOfSeq DEF TypeOK
    <2>2. PICK v \in Nat : v = deleteJobs[r][i].version
        BY <2>1 DEF Job
    <2>3. Doomed(v)
        BY <2>2 DEF Queued
    <2>4. QED
        BY <1>0, <2>2, <2>3, StaysDoomed
<1> DEFINE Fine(r, i) == \E v \in Nat : v = deleteJobs'[r][i].version /\ Doomed(v)'
<1>2. ASSUME \A r \in Replicas : \A i \in 1 .. Len(deleteJobs'[r]) : Fine(r, i) PROVE Queued'
    BY <1>2 DEF Queued, Doomed
<1>3. ASSUME NEW r \in Replicas, deleteJobs'[r] = deleteJobs[r], NEW i \in 1 .. Len(deleteJobs'[r])
      PROVE  Fine(r, i)
    BY <1>1, <1>3
<1>4. ASSUME NEW r \in Replicas, NEW o \in observed[r], Examine(r, o) PROVE Queued'
    <2>1. deleteJobs[r] \in Seq(Job) /\ o.object \in Object
        BY <1>0 DEF TypeOK
    <2>2. CASE ~Expired(o.object.expires)
        BY <1>2, <1>3, <1>4, <2>2 DEF Examine
    <2>3. CASE Expired(o.object.expires)
        <3>1. PICK v \in Nat : v = o.object.version
            BY <2>1 DEF Object
        <3>2. Doomed(v)
            BY <2>3, <3>1 DEF Doomed, Seen
        <3>3. Doomed(v)'
            BY <1>0, <3>2, StaysDoomed
        <3>4. deleteJobs' = [deleteJobs EXCEPT ![r] = Append(@, DeleteJob(o))]
            BY <1>4, <2>3 DEF Examine
        <3>5. ASSUME NEW i \in 1 .. Len(deleteJobs'[r]) PROVE Fine(r, i)
            <4>1. deleteJobs'[r] = Append(deleteJobs[r], DeleteJob(o))
                BY <1>0, <3>4 DEF TypeOK
            <4>2. \/ i \in 1 .. Len(deleteJobs[r]) /\ deleteJobs'[r][i] = deleteJobs[r][i]
                  \/ deleteJobs'[r][i] = DeleteJob(o)
                BY <2>1, <4>1
            <4>3. QED
                BY <1>1, <3>1, <3>3, <4>2 DEF DeleteJob
        <3>6. ASSUME NEW s \in Replicas \ {r} PROVE deleteJobs'[s] = deleteJobs[s]
            BY <1>0, <3>4, <3>6 DEF TypeOK
        <3>7. QED
            BY <1>2, <1>3, <3>5, <3>6
    <2>4. QED
        BY <2>2, <2>3
<1>5. ASSUME NEW r \in Replicas, NextJob(r) PROVE Queued'
    <2>1. deleteJobs[r] \in Seq(Job) /\ deleteJobs[r] # <<>>
        BY <1>0, <1>5 DEF NextJob, TypeOK
    <2>2. deleteJobs' = [deleteJobs EXCEPT ![r] = Tail(@)]
        BY <1>5 DEF NextJob
    <2>3. ASSUME NEW i \in 1 .. Len(deleteJobs'[r]) PROVE Fine(r, i)
        <3>1. deleteJobs'[r] = Tail(deleteJobs[r])
            BY <1>0, <2>2 DEF TypeOK
        <3>2. i + 1 \in 1 .. Len(deleteJobs[r]) /\ deleteJobs'[r][i] = deleteJobs[r][i + 1]
            BY <2>1, <3>1
        <3>3. QED
            BY <1>1, <3>2
    <2>4. ASSUME NEW s \in Replicas \ {r} PROVE deleteJobs'[s] = deleteJobs[s]
        BY <1>0, <2>2, <2>4 DEF TypeOK
    <2>5. QED
        BY <1>2, <1>3, <2>3, <2>4
<1>6. ASSUME NEW r \in Replicas, Restart(r) PROVE Queued'
    <2>1. \A s \in Replicas : deleteJobs'[s] = IF s = r THEN <<>> ELSE deleteJobs[s]
        BY <1>0, <1>6 DEF Restart, TypeOK
    <2>2. ASSUME NEW s \in Replicas, NEW i \in 1 .. Len(deleteJobs'[s]) PROVE Fine(s, i)
        BY <1>3, <2>1, <2>2
    <2>3. QED
        BY <1>2, <2>2
<1>7. ASSUME UNCHANGED deleteJobs PROVE Queued'
    BY <1>2, <1>3, <1>7
<1>8. QED
    BY <1>4, <1>5, <1>6, <1>7
    DEF Next, RegisterStep, Register, Create, AlreadyExists, Get, GetMissing, Update,
        UpdateRefused, RegisterNext, RegisterFault, Unregister, TimerFires, BeginUnregister,
        Delete, DeleteRefused, Observe, Collect, CollectRefused, Tick, vars, gcVars
-----------------------------------------------------------------------------
(***************************************************************************)
(* The timers.                                                             *)
(***************************************************************************)

\* What the write of a slot made is its own.
LEMMA OwnsWritten ==
    ASSUME TypeOK, Versions, NEW x \in Slots, NEW expires, Write(KeyAt(x), x, expires)
    PROVE  Owns(x, revision)'
<1> USE RegistrationAssumption
<1>1. revision' = revision + 1 /\ revision \in Nat
    BY DEF Write, TypeOK
<1>2. ASSUME NEW k \in Keys, store'[k] # NoObject, store'[k].version = revision + 1
      PROVE  store'[k].by = x[1]
    <2>1. CASE k = KeyAt(x)
        BY <2>1 DEF Write, TypeOK
    <2>2. CASE k # KeyAt(x)
        <3>1. store'[k] = store[k]
            BY <2>2 DEF Write, TypeOK
        <3>2. store[k].version <= revision /\ store[k].version \in Nat
            BY <1>2, <3>1 DEF Versions, TypeOK, Object
        <3>3. QED
            BY <1>1, <1>2, <3>1, <3>2
    <2>3. QED
        BY <2>1, <2>2
<1>3. QED
    BY <1>1, <1>2 DEF Owns

\* Versions pass from Register to the timer and from the timer to Unregister.
LEMMA StepOwned ==
    ASSUME TInv, TypeOK', [Next]_vars, StoreStep, Versions, OwnedByAll
    PROVE  OwnedByAll'
<1> USE RegistrationAssumption
<1>0. TypeOK
    BY DEF TInv
<1>1. ASSUME NEW y \in Slots, NEW v \in Nat, Owns(y, v) PROVE Owns(y, v)'
    BY <1>0, <1>1, StaysOwned
<1>2. \A y \in Slots : call[y] \in Call /\ timer[y] \in Nat /\ call'[y] \in Call
    BY <1>0 DEF TypeOK
<1>3. ASSUME NEW y \in Slots, timer'[y] = timer[y] PROVE (timer[y] # 0 => Owns(y, timer[y]))'
    <2>1. PICK v \in Nat : v = timer[y]
        BY <1>2
    <2>2. v # 0 => Owns(y, v)'
        BY <1>1, <2>1 DEF OwnedByAll, Owned
    <2>3. QED
        BY <1>3, <2>1, <2>2 DEF Owns
<1>4. ASSUME NEW y \in Slots, call'[y] = call[y], timer'[y] = timer[y] PROVE Owned(y)'
    <2>1. Owned(y) /\ call[y] \in Call /\ timer[y] \in Nat
        BY <1>2 DEF OwnedByAll
    <2>2. call[y].pc \in {"next", "delete"} => call[y].version \in Nat
        BY <2>1, CallFields
    <2>3. QED
        BY <1>1, <1>4, <2>1, <2>2 DEF Owned
<1>5. ASSUME NEW x \in Slots, NEW c, SetCall(x, c),
             \A y \in Slots \ {x} : timer'[y] = timer[y], Owned(x)'
      PROVE  OwnedByAll'
    <2>1. \A y \in Slots \ {x} : call'[y] = call[y]
        BY <1>0, <1>5 DEF SetCall, TypeOK
    <2>2. QED
        BY <1>4, <1>5, <2>1 DEF OwnedByAll
<1>6. ASSUME NEW x \in Slots, NEW c, SetCall(x, c), timer' = timer,
             c.pc \in {"idle", "create", "get", "update"}
      PROVE  OwnedByAll'
    <2>1. call'[x] = c
        BY <1>0, <1>6 DEF SetCall, TypeOK
    <2>2. Owned(x)'
        BY <1>3, <1>6, <2>1 DEF Owned
    <2>3. QED
        BY <1>5, <1>6, <2>2
<1>7. ASSUME NEW x \in Slots, Create(x) \/ Update(x) PROVE OwnedByAll'
    <2>1. Write(KeyAt(x), x, call[x].expires) /\ Answered(x) /\ timer' = timer
        BY <1>7 DEF Create, Update
    <2>2. CASE End(x, "fault")
        BY <1>6, <2>1, <2>2 DEF End, Idle
    <2>3. CASE SetCall(x, [pc |-> "next", version |-> revision'])
        <3>1. call'[x] = [pc |-> "next", version |-> revision + 1]
            BY <1>0, <2>1, <2>3 DEF SetCall, TypeOK, Write
        <3>2. Owns(x, revision)'
            BY <1>0, <2>1, OwnsWritten
        <3>3. (timer[x] # 0 => Owns(x, timer[x]))'
            BY <1>3, <2>1
        <3>4. Owned(x)'
            BY <2>1, <2>3, <3>1, <3>2, <3>3 DEF Owned, Write, Owns
        <3>5. QED
            BY <1>5, <2>1, <2>3, <3>4
    <2>4. QED
        BY <2>1, <2>2, <2>3 DEF Answered
<1>8. ASSUME NEW x \in Slots, RegisterNext(x) PROVE OwnedByAll'
    <2>1. SetCall(x, Idle) /\ timer' = [timer EXCEPT ![x] = call[x].version]
        BY <1>8 DEF RegisterNext, End
    <2>2. call'[x] = Idle /\ timer'[x] = call[x].version
        BY <1>0, <2>1 DEF SetCall, TypeOK
    <2>3. call[x].version \in Nat /\ Owns(x, call[x].version)
        BY <1>2, <1>8, CallFields DEF RegisterNext, OwnedByAll, Owned
    <2>4. Owned(x)'
        BY <1>1, <2>2, <2>3 DEF Owned, Idle
    <2>5. QED
        BY <1>0, <1>5, <2>1, <2>4 DEF TypeOK
<1>9. ASSUME NEW x \in Slots, NEW cause, NEW v, BeginUnregister(x, cause, v),
             \/ cause = "caller" /\ v = 0
             \/ cause = "timer" /\ v = timer[x] /\ timer[x] # 0
      PROVE  OwnedByAll'
    <2>1. /\ SetCall(x, [pc |-> "delete", cause |-> cause, version |-> v])
          /\ timer' = [timer EXCEPT ![x] = 0]
        BY <1>9 DEF BeginUnregister
    <2>2. call'[x] = [pc |-> "delete", cause |-> cause, version |-> v] /\ timer'[x] = 0
        BY <1>0, <2>1 DEF SetCall, TypeOK
    <2>3. cause = "timer" => Owns(x, v)'
        BY <1>1, <1>2, <1>9 DEF OwnedByAll, Owned
    <2>4. Owned(x)'
        BY <1>9, <2>2, <2>3 DEF Owned
    <2>5. QED
        BY <1>0, <1>5, <2>1, <2>4 DEF TypeOK
<1>10. ASSUME NEW r \in Replicas, Restart(r) PROVE OwnedByAll'
    <2>1. ASSUME NEW y \in Slots PROVE Owned(y)'
        <3>1. CASE y[1] = r
            BY <1>10, <3>1 DEF Restart, Owned, Idle
        <3>2. CASE y[1] # r
            BY <1>4, <1>10, <3>2 DEF Restart
        <3>3. QED
            BY <3>1, <3>2
    <2>2. QED
        BY <2>1 DEF OwnedByAll
<1>11. ASSUME UNCHANGED <<call, timer>> PROVE OwnedByAll'
    BY <1>4, <1>11 DEF OwnedByAll
<1>12. ASSUME NEW x \in Slots, Unregister(x) \/ TimerFires(x) PROVE OwnedByAll'
    BY <1>9, <1>12 DEF Unregister, TimerFires
<1>13. ASSUME NEW x \in Slots, NEW expires \in Times, Register(x, expires) PROVE OwnedByAll'
    BY <1>6, <1>13 DEF Register
<1>14. ASSUME NEW x \in Slots,
              \/ AlreadyExists(x) \/ Get(x) \/ GetMissing(x) \/ UpdateRefused(x)
              \/ RegisterFault(x) \/ Delete(x) \/ DeleteRefused(x)
       PROVE  OwnedByAll'
    BY <1>6, <1>14
    DEF AlreadyExists, Get, GetMissing, UpdateRefused, RegisterFault, Delete,
        DeleteRefused, End, Idle
<1>15. QED
    BY <1>7, <1>8, <1>10, <1>11, <1>12, <1>13, <1>14
    DEF Next, RegisterStep, Observe, Examine, Collect, CollectRefused, Tick, vars, gcVars
-----------------------------------------------------------------------------
(***************************************************************************)
(* The conflicts of Register.                                              *)
(***************************************************************************)

\* What Register has found stays there, or somebody interferes; a Register that
\* finds something else was interfered with.
LEMMA StepRelies ==
    ASSUME TInv, TypeOK', [Next]_vars, RelyAll, ConflictHasCause
    PROVE  (RelyAll /\ ConflictHasCause)'
<1> USE RegistrationAssumption
<1>0. TypeOK
    BY DEF TInv
<1>1. home' = home
    BY DEF Next, RegisterStep, Register, Create, AlreadyExists, Get, GetMissing, Update,
        UpdateRefused, RegisterNext, RegisterFault, Unregister, TimerFires, BeginUnregister,
        Delete, DeleteRefused, Observe, Examine, Collect, CollectRefused, Restart, Tick, vars
<1> DEFINE Sound(y) == Relies(y) /\ (result[y] = "conflict" => interfered[y])
<1>2. ASSUME \A y \in Slots : Sound(y)' PROVE (RelyAll /\ ConflictHasCause)'
    BY <1>2 DEF RelyAll, ConflictHasCause
<1>3. \A y \in Slots : Sound(y) /\ KeyAt(y) \in Keys /\ KeyAt(y)' = KeyAt(y)
    BY <1>0, <1>1, SlotKey DEF RelyAll, ConflictHasCause, TypeOK, KeyAt
\* A slot whose call does nothing ...
<1>4. ASSUME NEW y \in Slots, call'[y] = call[y], result'[y] = result[y],
             \/ interfered'[y]
             \/ interfered'[y] = interfered[y] /\ store'[KeyAt(y)] = store[KeyAt(y)]
      PROVE  Sound(y)'
    <2>1. Sound(y) /\ KeyAt(y)' = KeyAt(y)
        BY <1>3
    <2>2. CASE interfered'[y]
        BY <1>4, <2>1, <2>2 DEF Relies, InFlight
    <2>3. CASE interfered'[y] = interfered[y] /\ store'[KeyAt(y)] = store[KeyAt(y)]
        BY <1>4, <2>1, <2>3 DEF Relies, InFlight
    <2>4. QED
        BY <1>4, <2>2, <2>3
\* ... while another one writes or deletes ...
<1>5. ASSUME NEW k, NEW x, NEW object, store' = [store EXCEPT ![k] = object], Changed(k, x),
             NEW y \in Slots, y # x, call'[y] = call[y], result'[y] = result[y]
      PROVE  Sound(y)'
    <2>1. CASE KeyAt(y) = k
        <3>1. interfered'[y]
            BY <1>5, <2>1 DEF Changed
        <3>2. QED
            BY <1>4, <1>5, <3>1
    <2>2. CASE KeyAt(y) # k
        <3>1. interfered'[y] = interfered[y] /\ store'[KeyAt(y)] = store[KeyAt(y)]
            BY <1>0, <1>3, <1>5, <2>2 DEF Changed, TypeOK
        <3>2. QED
            BY <1>4, <1>5, <3>1
    <2>3. QED
        BY <2>1, <2>2
\* ... or does neither.
<1>6. ASSUME NEW x \in Slots, NEW c, SetCall(x, c), store' = store,
             \A y \in Slots \ {x} : result'[y] = result[y] /\ interfered'[y] = interfered[y],
             Sound(x)'
      PROVE  \A y \in Slots : Sound(y)'
    <2>1. \A y \in Slots \ {x} : call'[y] = call[y]
        BY <1>0, <1>6 DEF SetCall, TypeOK
    <2>2. QED
        BY <1>4, <1>6, <2>1
<1>7. ASSUME NEW x \in Slots, NEW expires \in Times, Register(x, expires)
      PROVE  \A y \in Slots : Sound(y)'
    <2>1. /\ SetCall(x, [pc |-> "create", expires |-> expires])
          /\ result' = [result EXCEPT ![x] = "none"]
          /\ UNCHANGED <<store, interfered>>
        BY <1>7 DEF Register
    <2>2. call'[x].pc = "create" /\ result'[x] = "none"
        BY <1>0, <2>1 DEF SetCall, TypeOK
    <2>3. Sound(x)'
        BY <2>2 DEF Relies
    <2>4. QED
        BY <1>0, <1>6, <2>1, <2>3 DEF TypeOK
<1>8. ASSUME NEW x \in Slots, Create(x) \/ Update(x) PROVE \A y \in Slots : Sound(y)'
    <2>1. Write(KeyAt(x), x, call[x].expires) /\ Answered(x) /\ result[x] # "conflict"
        BY <1>3, <1>8 DEF Create, Update, Relies, InFlight
    <2>2. /\ call'[x].pc \in {"next", "idle"} /\ result'[x] # "conflict"
          /\ \A y \in Slots \ {x} : call'[y] = call[y] /\ result'[y] = result[y]
        BY <1>0, <2>1 DEF Answered, End, SetCall, Idle, TypeOK
    <2>3. Sound(x)'
        BY <2>2 DEF Relies, InFlight
    <2>4. ASSUME NEW y \in Slots \ {x} PROVE Sound(y)'
        BY <1>5, <2>1, <2>2, <2>4 DEF Write
    <2>5. QED
        BY <2>3, <2>4
<1>9. ASSUME NEW x \in Slots, AlreadyExists(x) PROVE \A y \in Slots : Sound(y)'
    <2>1. store[KeyAt(x)] # NoObject /\ result[x] # "conflict"
        BY <1>0, <1>3, <1>9, AcceptedAt DEF AlreadyExists, Relies, InFlight, TypeOK
    <2>2. call'[x].pc = "get" /\ UNCHANGED <<store, result>>
        BY <1>0, <1>9 DEF AlreadyExists, SetCall, TypeOK
    <2>3. Sound(x)'
        BY <1>3, <2>1, <2>2 DEF Relies
    <2>4. QED
        BY <1>0, <1>6, <1>9, <2>3 DEF AlreadyExists, TypeOK
<1>10. ASSUME NEW x \in Slots, Get(x) PROVE \A y \in Slots : Sound(y)'
    <2>1. store[KeyAt(x)] # NoObject /\ result[x] # "conflict"
        BY <1>0, <1>3, <1>10, AcceptedAt DEF Get, Relies, InFlight, TypeOK
    <2>2. call'[x].pc = "update" /\ call'[x].got = store[KeyAt(x)].version
          /\ UNCHANGED <<store, result, interfered>>
        BY <1>0, <1>10 DEF Get, SetCall, TypeOK, history
    <2>3. Sound(x)'
        BY <1>3, <2>1, <2>2 DEF Relies
    <2>4. QED
        BY <1>6, <1>10, <2>2, <2>3 DEF Get
<1>11. ASSUME NEW x \in Slots, GetMissing(x) \/ UpdateRefused(x)
       PROVE  \A y \in Slots : Sound(y)'
    <2>1. interfered[x]
        BY <1>0, <1>3, <1>11, AcceptedAt DEF GetMissing, UpdateRefused, Relies, TypeOK
    <2>2. End(x, "conflict") /\ UNCHANGED <<store, interfered>>
        BY <1>11 DEF GetMissing, UpdateRefused
    <2>3. call'[x].pc = "idle"
        BY <1>0, <2>2 DEF End, SetCall, Idle, TypeOK
    <2>4. Sound(x)'
        BY <2>1, <2>2, <2>3 DEF Relies, InFlight
    <2>5. QED
        BY <1>0, <1>6, <2>2, <2>4 DEF End, TypeOK
<1>12. ASSUME NEW x \in Slots, RegisterFault(x) \/ RegisterNext(x)
       PROVE  \A y \in Slots : Sound(y)'
    <2>1. PICK outcome \in {"ok", "fault"} : End(x, outcome)
        BY <1>12 DEF RegisterFault, RegisterNext
    <2>2. call'[x].pc = "idle" /\ result'[x] # "conflict" /\ UNCHANGED <<store, interfered>>
        BY <1>0, <1>12, <2>1 DEF RegisterFault, RegisterNext, End, SetCall, Idle, TypeOK
    <2>3. Sound(x)'
        BY <2>2 DEF Relies, InFlight
    <2>4. QED
        BY <1>0, <1>6, <2>1, <2>2, <2>3 DEF End, TypeOK
<1>13. ASSUME NEW x \in Slots, Unregister(x) \/ TimerFires(x) \/ DeleteRefused(x)
       PROVE  \A y \in Slots : Sound(y)'
    <2>1. PICK c : SetCall(x, c) /\ c.pc \in {"delete", "idle"}
        BY <1>13 DEF Unregister, TimerFires, BeginUnregister, DeleteRefused, Idle
    <2>2. UNCHANGED <<store, result, interfered>>
        BY <1>13 DEF Unregister, TimerFires, BeginUnregister, DeleteRefused, history
    <2>3. call'[x].pc \in {"delete", "idle"}
        BY <1>0, <2>1 DEF SetCall, TypeOK
    <2>4. Sound(x)'
        BY <1>3, <2>2, <2>3 DEF Relies, InFlight
    <2>5. QED
        BY <1>6, <2>1, <2>2, <2>4
<1>14. ASSUME NEW x \in Slots, Delete(x) PROVE \A y \in Slots : Sound(y)'
    <2>1. Erase(KeyAt(x), x) /\ SetCall(x, Idle) /\ result' = result
        BY <1>14 DEF Delete
    <2>2. /\ call'[x].pc = "idle" /\ interfered'[x] = interfered[x]
          /\ \A y \in Slots \ {x} : call'[y] = call[y]
        BY <1>0, <2>1 DEF Erase, Changed, SetCall, Idle, TypeOK
    <2>3. Sound(x)'
        BY <1>3, <2>1, <2>2 DEF Relies, InFlight
    <2>4. ASSUME NEW y \in Slots \ {x} PROVE Sound(y)'
        BY <1>5, <2>1, <2>2, <2>4 DEF Erase
    <2>5. QED
        BY <2>3, <2>4
<1>15. ASSUME NEW r \in Replicas, Collect(r) PROVE \A y \in Slots : Sound(y)'
    <2>1. Erase(JobKey(r), <<>>) /\ UNCHANGED <<call, result>>
        BY <1>15 DEF Collect
    <2>2. \A y \in Slots : y # <<>>
        BY <1>0, SlotKey DEF TypeOK
    <2>3. QED
        BY <1>5, <2>1, <2>2 DEF Erase
<1>16. ASSUME NEW r \in Replicas, Restart(r) PROVE \A y \in Slots : Sound(y)'
    <2>1. ASSUME NEW y \in Slots PROVE Sound(y)'
        <3>1. CASE y[1] = r
            BY <1>16, <3>1 DEF Restart, Relies, InFlight, Idle
        <3>2. CASE y[1] # r
            BY <1>4, <1>16, <3>2 DEF Restart
        <3>3. QED
            BY <3>1, <3>2
    <2>2. QED
        BY <2>1
<1>17. ASSUME UNCHANGED <<store, call, history>> PROVE \A y \in Slots : Sound(y)'
    BY <1>4, <1>17 DEF history
<1>18. QED
    BY <1>2, <1>7, <1>8, <1>9, <1>10, <1>11, <1>12, <1>13, <1>14, <1>15, <1>16, <1>17
    DEF Next, RegisterStep, Observe, Examine, CollectRefused, Tick, vars
-----------------------------------------------------------------------------
(***************************************************************************)
(* The inductive invariant and what follows from it.                       *)
(***************************************************************************)

\* The inductive invariant holds at the start, before any call and any restart.
LEMMA InitIInv == Init => IInv
<1>1. Init => RelyAll /\ ConflictHasCause
    BY DEF Init, RelyAll, Relies, ConflictHasCause, InFlight, Idle
<1>2. QED
    BY <1>1, InitTInv, InitVersions DEF IInv

\* Every step of a call, of the clock or of the collection keeps it.
LEMMA StepIInv == IInv /\ [Next]_vars => IInv'
<1> SUFFICES ASSUME IInv, [Next]_vars PROVE IInv'
    OBVIOUS
<1>1. TInv /\ TypeOK /\ Versions /\ Seen /\ Queued /\ OwnedByAll /\ RelyAll /\ ConflictHasCause
    BY DEF IInv, TInv
<1>2. TInv' /\ TypeOK'
    BY <1>1, StepTInv DEF TInv
<1>3. StoreStep
    BY <1>1, EveryStoreStep
<1>4. Versions' /\ Seen'
    BY <1>1, <1>3, StepVersions, StepSeen
<1>5. Queued' /\ OwnedByAll'
    BY <1>1, <1>2, <1>3, StepQueued, StepOwned
<1>6. (RelyAll /\ ConflictHasCause)'
    BY <1>1, <1>2, StepRelies
<1>7. QED
    BY <1>2, <1>4, <1>5, <1>6 DEF IInv

\* The strengthening of the invariants is one itself.
THEOREM Inductive == Spec => []IInv
    BY InitIInv, StepIInv, PTL DEF Spec

\* A job of deleteExecutor that would still find the version it was queued for
\* finds an expired object, however long it has waited.
THEOREM JobsExpired == Spec => []JobsNameExpired
<1>1. IInv => JobsNameExpired
    <2> SUFFICES ASSUME IInv, NEW r \in Replicas, NEW i \in 1 .. Len(deleteJobs[r]),
                        Deletable(<<home[r], deleteJobs[r][i].name>>, deleteJobs[r][i].version)
                 PROVE  Expired(store[<<home[r], deleteJobs[r][i].name>>].expires)
        BY DEF JobsNameExpired
    <2> DEFINE k == <<home[r], deleteJobs[r][i].name>>
    <2>1. TypeOK /\ Queued
        BY DEF IInv, TInv
    <2>2. deleteJobs[r][i] \in Job
        BY <2>1, ElementOfSeq DEF TypeOK
    <2>3. k \in Keys /\ deleteJobs[r][i].version # 0
        BY <2>1, <2>2 DEF TypeOK, Keys, Job
    <2>4. store[k] # NoObject /\ store[k].version = deleteJobs[r][i].version
        BY <2>3, DeletableAt
    <2>5. QED
        BY <2>1, <2>3, <2>4 DEF Queued, Doomed
<1>2. QED
    BY <1>1, Inductive, PTL

\* An expiry timer never deletes what another replica registered.
THEOREM TimersOwn == Spec => []TimerOwnsVersion
<1>1. IInv => TimerOwnsVersion
    <2> SUFFICES ASSUME IInv, NEW x \in Slots, timer[x] # 0, Deletable(KeyAt(x), timer[x])
                 PROVE  store[KeyAt(x)].by = x[1]
        BY DEF TimerOwnsVersion
    <2>1. TypeOK /\ Owns(x, timer[x])
        BY DEF IInv, TInv, OwnedByAll, Owned
    <2>2. KeyAt(x) \in Keys
        BY <2>1, SlotKey DEF TypeOK
    <2>3. QED
        BY <2>1, <2>2, DeletableAt DEF Owns
<1>2. QED
    BY <1>1, Inductive, PTL

\* A Register that gives up was interfered with after its Create was refused.
THEOREM ConflictsCaused == Spec => []ConflictHasCause
<1>1. IInv => ConflictHasCause
    BY DEF IInv
<1>2. QED
    BY <1>1, Inductive, PTL
-----------------------------------------------------------------------------
(***************************************************************************)
(* The refinement of AtomicRegistry.                                       *)
(***************************************************************************)

\* The calls as AtomicRegistry sees them, the expression that NSERegistration
\* substitutes for call.
Calls == [x \in Slots |-> AbstractCall(call[x])]

RegistryVars == <<home, store, revision, now, Calls, timer>>

RegistryStep == (UNCHANGED home /\ AtomicRefined!Next) \/ UNCHANGED RegistryVars

\* What runs in a slot maps to what AtomicRegistry lets run there.
LEMMA CallsAt ==
    ASSUME NEW c \in Call
    PROVE  /\ c = Idle => AbstractCall(c) = AtomicRefined!Idle
           /\ c.pc \in {"create", "get", "update"} =>
                 AbstractCall(c) = AtomicRefined!Registering(c.expires)
           /\ c.pc = "next" => AbstractCall(c) = AtomicRefined!Registered(c.version)
           /\ c.pc = "delete" => AbstractCall(c) = AtomicRefined!Removing(c.cause, c.version)
    BY DEF AbstractCall, Idle, AtomicRefined!Idle, AtomicRefined!Registering,
           AtomicRefined!Registered, AtomicRefined!Removing

\* A slot that goes from one call to the next does so for AtomicRegistry.
LEMMA CallsSet ==
    ASSUME TypeOK, NEW x \in Slots, NEW c, SetCall(x, c)
    PROVE  Calls' = [Calls EXCEPT ![x] = AbstractCall(c)]
    BY DEF SetCall, Calls, TypeOK

\* Every step is one of AtomicRegistry, or leaves what it sees alone.
LEMMA StepRegistry ==
    ASSUME IInv, [Next]_vars
    PROVE  RegistryStep
<1> USE RegistrationAssumption
<1>0. TypeOK /\ TypeOK' /\ Queued /\ OwnedByAll
    BY StepIInv DEF IInv, TInv
<1>1. \A x \in Slots : /\ call[x] \in Call /\ Calls[x] = AbstractCall(call[x])
                       /\ KeyAt(x) \in Keys /\ AtomicRefined!KeyAt(x) = KeyAt(x)
    BY <1>0, SlotKey DEF TypeOK, Calls, KeyAt, AtomicRefined!KeyAt
<1>2. ASSUME NEW x \in Slots, NEW expires \in Times, Register(x, expires) PROVE RegistryStep
    <2>1. [pc |-> "create", expires |-> expires] \in Call
        BY DEF Call
    <2>2. Calls' = [Calls EXCEPT ![x] = AtomicRefined!Registering(expires)]
        BY <1>0, <1>2, <2>1, CallsAt, CallsSet DEF Register
    <2>3. Calls[x] = AtomicRefined!Idle
        BY <1>1, <1>2, CallsAt DEF Register
    <2>4. AtomicRefined!BeginRegister(x, expires)
        BY <1>2, <2>2, <2>3
        DEF Register, AtomicRefined!BeginRegister, AtomicRefined!SetCall, Calls
    <2>5. QED
        BY <1>2, <2>4 DEF RegistryStep, AtomicRefined!Next, Register
<1>3. ASSUME NEW x \in Slots, Create(x) \/ Update(x) PROVE RegistryStep
    <2>1. /\ Write(KeyAt(x), x, call[x].expires) /\ Answered(x)
          /\ UNCHANGED <<home, now, timer>>
          /\ call[x].pc \in {"create", "update"}
        BY <1>3 DEF Create, Update
    <2>2. Calls[x] = AtomicRefined!Registering(call[x].expires)
        BY <1>1, <2>1, CallsAt
    <2>3. \/ Calls' = [Calls EXCEPT ![x] = AtomicRefined!Registered(revision + 1)]
          \/ Calls' = [Calls EXCEPT ![x] = AtomicRefined!Idle]
        <3>1. CASE End(x, "fault")
            <4>1. Idle \in Call
                BY DEF Call
            <4>2. QED
                BY <1>0, <3>1, <4>1, CallsAt, CallsSet DEF End
        <3>2. CASE SetCall(x, [pc |-> "next", version |-> revision'])
            <4>1. [pc |-> "next", version |-> revision + 1] \in Call
                BY <1>0, <2>1 DEF Write, TypeOK, Call
            <4>2. SetCall(x, [pc |-> "next", version |-> revision + 1])
                BY <2>1, <3>2 DEF Write
            <4>3. QED
                BY <1>0, <4>1, <4>2, CallsAt, CallsSet
        <3>3. QED
            BY <2>1, <3>1, <3>2 DEF Answered
    <2>4. Calls[x].op = "register" /\ Calls[x].expires = call[x].expires
        BY <2>2 DEF AtomicRefined!Registering
    <2>5. AtomicRefined!Put(x)
        BY <1>1, <2>1, <2>3, <2>4
        DEF Write, AtomicRefined!Put, AtomicRefined!SetCall, Calls
    <2>6. QED
        BY <2>1, <2>5 DEF RegistryStep, AtomicRefined!Next
<1>4. ASSUME NEW x \in Slots, AlreadyExists(x) \/ Get(x) PROVE RegistryStep
    <2>1. call[x].pc \in {"create", "get"} /\ call[x].expires \in Times
        BY <1>1, <1>4, CallFields DEF AlreadyExists, Get
    <2>2. PICK c \in Call :
             /\ c.pc \in {"get", "update"} /\ c.expires = call[x].expires /\ SetCall(x, c)
        <3>1. call'[x] \in Call
            BY <1>0 DEF TypeOK
        <3>2. CASE AlreadyExists(x)
            BY <1>0, <3>1, <3>2 DEF AlreadyExists, SetCall, TypeOK
        <3>3. CASE Get(x)
            BY <1>0, <3>1, <3>3 DEF Get, SetCall, TypeOK
        <3>4. QED
            BY <1>4, <3>2, <3>3
    <2>3. AbstractCall(c) = Calls[x]
        BY <1>1, <2>1, <2>2, CallsAt
    <2>4. Calls' = Calls
        <3>1. Calls' = [Calls EXCEPT ![x] = AbstractCall(c)]
            BY <1>0, <2>2, CallsSet
        <3>2. [Calls EXCEPT ![x] = Calls[x]] = Calls
            BY DEF Calls
        <3>3. QED
            BY <2>3, <3>1, <3>2
    <2>5. QED
        BY <1>4, <2>4 DEF AlreadyExists, Get, RegistryStep, RegistryVars
<1>5. ASSUME NEW x \in Slots,
             GetMissing(x) \/ UpdateRefused(x) \/ RegisterFault(x) \/ DeleteRefused(x)
      PROVE  RegistryStep
    <2>1. SetCall(x, Idle) /\ Idle \in Call /\ UNCHANGED <<home, store, revision, now, timer>>
        BY <1>5 DEF GetMissing, UpdateRefused, RegisterFault, DeleteRefused, End, Call
    <2>2. Calls' = [Calls EXCEPT ![x] = AtomicRefined!Idle]
        BY <1>0, <2>1, CallsAt, CallsSet
    <2>3. AtomicRefined!GiveUp(x)
        BY <2>1, <2>2 DEF AtomicRefined!GiveUp, AtomicRefined!SetCall, Calls
    <2>4. QED
        BY <2>1, <2>3 DEF RegistryStep, AtomicRefined!Next
<1>6. ASSUME NEW x \in Slots, RegisterNext(x) PROVE RegistryStep
    <2>1. Calls[x] = AtomicRefined!Registered(call[x].version)
        BY <1>1, <1>6, CallsAt DEF RegisterNext
    <2>2. SetCall(x, Idle) /\ Idle \in Call
        BY <1>6 DEF RegisterNext, End, Call
    <2>3. Calls' = [Calls EXCEPT ![x] = AtomicRefined!Idle]
        BY <1>0, <2>2, CallsAt, CallsSet
    <2>4. Calls[x].op = "registered" /\ Calls[x].version = call[x].version
        BY <2>1 DEF AtomicRefined!Registered
    <2>5. AtomicRefined!ReturnOk(x)
        BY <1>6, <2>3, <2>4
        DEF RegisterNext, AtomicRefined!ReturnOk, AtomicRefined!SetCall, Calls
    <2>6. QED
        BY <1>6, <2>5 DEF RegistryStep, AtomicRefined!Next, RegisterNext
<1>7. ASSUME NEW x \in Slots, Unregister(x) \/ TimerFires(x) PROVE RegistryStep
    <2>1. PICK cause \in {"caller", "timer"}, v \in 0 .. MaxVersion :
             /\ BeginUnregister(x, cause, v)
             /\ \/ cause = "caller" /\ v = 0
                \/ cause = "timer" /\ v = timer[x] /\ timer[x] # 0
        BY <1>0, <1>7 DEF Unregister, TimerFires, TypeOK
    <2>2. [pc |-> "delete", cause |-> cause, version |-> v] \in Call
        BY DEF Call
    <2>3. Calls' = [Calls EXCEPT ![x] = AtomicRefined!Removing(cause, v)]
        BY <1>0, <2>1, <2>2, CallsAt, CallsSet DEF BeginUnregister
    <2>4. Calls[x] = AtomicRefined!Idle
        BY <1>1, <2>1, CallsAt DEF BeginUnregister
    <2>5. AtomicRefined!BeginRemove(x)
        BY <2>1, <2>3, <2>4
        DEF BeginUnregister, AtomicRefined!BeginRemove, AtomicRefined!SetCall, Calls
    <2>6. QED
        BY <2>1, <2>5 DEF RegistryStep, AtomicRefined!Next, BeginUnregister
<1>8. ASSUME NEW x \in Slots, Delete(x) PROVE RegistryStep
    <2>1. Calls[x] = AtomicRefined!Removing(call[x].cause, call[x].version)
        BY <1>1, <1>8, CallsAt DEF Delete
    <2>2. /\ store[KeyAt(x)] # NoObject
          /\ call[x].version \in {0, store[KeyAt(x)].version}
        BY <1>1, <1>8, DeletableAt DEF Delete
    <2>3. call[x].cause = "timer" => call[x].version = store[KeyAt(x)].version
        BY <1>0, <1>8, <2>2 DEF Delete, OwnedByAll, Owned
    <2>4. SetCall(x, Idle) /\ Idle \in Call
        BY <1>8 DEF Delete, Call
    <2>5. Calls' = [Calls EXCEPT ![x] = AtomicRefined!Idle]
        BY <1>0, <2>4, CallsAt, CallsSet
    <2>6. /\ Calls[x].op = "remove" /\ Calls[x].cause = call[x].cause
          /\ Calls[x].version = call[x].version
        BY <2>1 DEF AtomicRefined!Removing
    <2>7. AtomicRefined!Remove(x)
        BY <1>1, <1>8, <2>2, <2>3, <2>5, <2>6
        DEF Delete, Erase, AtomicRefined!Remove, AtomicRefined!SetCall, Calls
    <2>8. QED
        BY <1>8, <2>7 DEF RegistryStep, AtomicRefined!Next, Delete
<1>9. ASSUME NEW r \in Replicas, Collect(r) PROVE RegistryStep
    <2>1. deleteJobs[r] \in Seq(Job) /\ deleteJobs[r] # <<>>
        BY <1>0, <1>9 DEF Collect, NextJob, TypeOK
    <2>2. /\ 1 \in 1 .. Len(deleteJobs[r])
          /\ Head(deleteJobs[r]) = deleteJobs[r][1] /\ deleteJobs[r][1] \in Job
        BY <2>1, HeadTailProperties, ElementOfSeq
    <2>3. JobKey(r) \in Keys /\ Head(deleteJobs[r]).version # 0
        BY <1>0, <2>2 DEF JobKey, TypeOK, Keys, Job
    <2>4. /\ store[JobKey(r)] # NoObject
          /\ store[JobKey(r)].version = deleteJobs[r][1].version
        BY <1>9, <2>2, <2>3, DeletableAt DEF Collect
    <2>5. Expired(store[JobKey(r)].expires)
        BY <1>0, <2>2, <2>3, <2>4 DEF Queued, Doomed
    <2>6. Calls' = Calls
        BY <1>9 DEF Collect, Calls
    <2>7. AtomicRefined!Collect(JobKey(r))
        BY <1>9, <2>4, <2>5, <2>6
        DEF Collect, Erase, AtomicRefined!Collect, Expired, AtomicRefined!Expired, Calls
    <2>8. QED
        BY <1>9, <2>3, <2>7 DEF RegistryStep, AtomicRefined!Next, Collect
<1>10. ASSUME NEW r \in Replicas, Restart(r) PROVE RegistryStep
    <2>1. CASE Names = {}
        <3>1. Slots = {}
            BY <2>1 DEF Slots
        <3>2. timer' = timer /\ Calls' = Calls
            BY <1>0, <3>1 DEF TypeOK, Calls
        <3>3. QED
            BY <1>10, <3>2 DEF Restart, RegistryStep, RegistryVars
    <2>2. ASSUME NEW n \in Names PROVE RegistryStep
        <3> DEFINE y == <<r, n>>
        <3>1. y \in Slots /\ y[1] = r
            BY DEF Slots
        <3>2. \A x \in Slots : call'[x] = IF x[1] = r THEN Idle ELSE call[x]
            BY <1>10 DEF Restart
        <3>3. AbstractCall(Idle) = AtomicRefined!Idle
            BY CallsAt DEF Call
        <3>4. Calls' = [x \in Slots |-> IF x \in {z \in Slots : z[1] = r}
                                       THEN AtomicRefined!Idle ELSE Calls[x]]
            BY <1>1, <3>2, <3>3 DEF Calls
        <3>5. timer' = [x \in Slots |-> IF x \in {z \in Slots : z[1] = r} THEN 0 ELSE timer[x]]
            BY <1>10 DEF Restart
        <3>6. AtomicRefined!Forget({z \in Slots : z[1] = r})
            BY <1>10, <3>4, <3>5 DEF Restart, AtomicRefined!Forget, Calls
        <3>7. \E z \in Slots : AtomicRefined!Forget({x \in Slots : x[1] = z[1]})
            BY <3>1, <3>6
        <3>8. QED
            BY <1>10, <3>7 DEF RegistryStep, AtomicRefined!Next, Restart
    <2>3. QED
        BY <2>1, <2>2
<1>11. CASE Tick
    <2>1. AtomicRefined!Tick
        BY <1>11 DEF Tick, AtomicRefined!Tick, Calls
    <2>2. QED
        BY <1>11, <2>1 DEF RegistryStep, AtomicRefined!Next, Tick
<1>12. ASSUME UNCHANGED <<home, store, revision, now, call, timer>> PROVE RegistryStep
    BY <1>12 DEF RegistryStep, RegistryVars, Calls
<1>13. QED
    BY <1>2, <1>3, <1>4, <1>5, <1>6, <1>7, <1>8, <1>9, <1>10, <1>11, <1>12
    DEF Next, RegisterStep, Observe, Examine, CollectRefused, vars

\* Create, Get and Update of several replicas, their timers, their restarts and
\* the collection of expired objects implement AtomicRegistry: a Register puts
\* at most once, and an entry goes for one of the three reasons it allows.
THEOREM Refinement == Spec => ImplementsAtomicRegistry
<1>1. Init => AtomicRefined!Init
    BY DEF Init, AtomicRefined!Init, AbstractCall, Idle, AtomicRefined!Idle
<1>2. RegistryStep => [UNCHANGED home /\ AtomicRefined!Next]_(AtomicRefined!registryVars)
    BY DEF RegistryStep, RegistryVars, Calls, AtomicRefined!registryVars
<1>3. QED
    BY <1>1, <1>2, StepRegistry, Inductive, PTL
    DEF Spec, ImplementsAtomicRegistry, AtomicRefined!Spec
=============================================================================
