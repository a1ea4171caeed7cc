----------------------- MODULE InformerFactoryProofs -----------------------
(***************************************************************************)
(* Proofs about InformerFactory, for any number of clients, keys, changes  *)
(* and namespaces: the types, among them that a factory makes one informer *)
(* for a type, and that a lister told to be synced is complete.  Fairness  *)
(* plays no part in them.                                                  *)
(***************************************************************************)
EXTENDS InformerFactory, FiniteSetTheorems, SequenceTheorems, WellFoundedInduction, TLAPS

\* The keys of the factory's namespace.
Mine == {k \in Keys : factory.namespace \in {AllNamespaces, k[1]}}

\* Only informers that were made run.
StartedMade == \A t \in Types : started[t] => informers[t] = 1

\* What the informer r of a type has queued and taken in of a key is a change of
\* that key, in the factory's namespace; and of a key of its first list that it
\* has nothing of, and that it need not take in any more, there was no object.
Right(t, r) ==
    \A k \in Keys :
       /\ r.held[k] # 0 => r.queued[k] # 0
       /\ r.queued[k] # 0 => k \in Mine /\ Changed(t, k, r.queued[k]) = r.queued[k]
       /\ r.held[k] # 0 => Changed(t, k, r.held[k]) = r.held[k]
       /\ k \in Mine /\ r.at # 0 /\ r.held[k] = 0 /\ k \notin r.initial =>
             \E v \in 1 .. r.at : StoreAt(t, v)[k] = NoObject

AllRight == \A i \in DOMAIN cache : Right(i[1], cache[i])

\* Who is told that a type is synced is told the truth, and it stays true.
Told ==
    \A c \in Clients, t \in Types :
       answer[c][t] = "synced" => informers[t] = 1 /\ HasSynced(<<t, 1>>)

IInv == TypeOK /\ StartedMade /\ AllRight /\ Told
-----------------------------------------------------------------------------
(***************************************************************************)
(* Numbers, changes and the store.                                         *)
(***************************************************************************)

\* A set of numbers has a least one.
LEMMA Least == ASSUME NEW S \in SUBSET Nat, S # {} PROVE \E x \in S : \A y \in S : x <= y
<1> DEFINE T == {0 .. x : x \in S}
<1>1. ASSUME NEW x \in S PROVE IsFiniteSet(0 .. x) /\ 0 .. x \in SUBSET Nat
    <2>1. 0 \in Int /\ x \in Int
        OBVIOUS
    <2>2. QED
        BY <2>1, FS_Interval
<1>2. T \subseteq FiniteSubsetsOf(Nat) /\ T # {}
    BY <1>1 DEF FiniteSubsetsOf
<1>3. PICK t \in T : \A u \in T : ~(<<u, t>> \in StrictSubsetOrdering(Nat))
    BY <1>2, WFMin, FS_StrictSubsetOrderingWellFounded
<1>4. PICK x \in S : t = 0 .. x
    OBVIOUS
<1>5. ASSUME NEW y \in S PROVE x <= y
    <2>1. SUFFICES ASSUME y < x PROVE FALSE
        OBVIOUS
    <2>2. 0 .. y \subseteq 0 .. x /\ x \in 0 .. x /\ x \notin 0 .. y
        BY <2>1
    <2>3. 0 .. y # 0 .. x
        BY <2>2
    <2>4. <<0 .. y, 0 .. x>> \in StrictSubsetOrdering(Nat)
        BY <2>2, <2>3, <1>1 DEF StrictSubsetOrdering
    <2>5. QED
        BY <1>3, <1>4, <2>4
<1>6. QED
    BY <1>5

\* A bounded set of numbers has a greatest one.
LEMMA Greatest ==
    ASSUME NEW n \in Nat, NEW S \in SUBSET (0 .. n), S # {}
    PROVE  Max(S) \in S /\ \A y \in S : Max(S) >= y
<1> DEFINE T == {n - x : x \in S}
<1>0. \A x \in S : n - x \in Nat
    OBVIOUS
<1>1. T \in SUBSET Nat /\ T # {}
    BY <1>0
<1>2. PICK t \in T : \A u \in T : t <= u
    BY <1>1, Least
<1>3. PICK x \in S : t = n - x
    OBVIOUS
<1>4. ASSUME NEW y \in S PROVE x >= y
    <2>1. n - x <= n - y
        BY <1>2, <1>3
    <2>2. x \in Int /\ y \in Int
        OBVIOUS
    <2>3. QED
        BY <2>1, <2>2
<1>5. \E m \in S : \A y \in S : m >= y
    BY <1>4
<1>6. QED
    BY <1>5 DEF Max

\* What a change leaves in the log.
Entry == [type : Types, key : Keys, gone : BOOLEAN]

\* What an informer is while the store is at version v.
Informer(v) ==
    [stop : Clients \cup {Nobody}, at : 0 .. v, initial : SUBSET Keys,
     queued : [Keys -> 0 .. v], held : [Keys -> 0 .. v]]

\* The typed informers, and the number of each.
LEMMA Typed ==
    ASSUME TypeOK
    PROVE  /\ log \in Seq(Entry) /\ Len(log) \in Nat /\ Version = Len(log) + 1
           /\ Version \in Nat /\ Version >= 1
           /\ \A i \in DOMAIN cache :
                 /\ i[1] \in Types /\ i = <<i[1], 1>> /\ informers[i[1]] = 1
                 /\ cache[i] \in Informer(Version)
           /\ \A t \in Types : informers[t] = 1 => <<t, 1>> \in DOMAIN cache
<1>1. log \in Seq(Entry)
    BY DEF TypeOK, Entry
<1>2. Len(log) \in Nat
    BY <1>1, LenProperties
<1>3. Version = Len(log) + 1 /\ Version \in Nat /\ Version >= 1
    BY <1>2 DEF Version
<1>4. cache \in [{<<t, 1>> : t \in {u \in Types : informers[u] = 1}} -> Informer(Version)]
    BY DEF TypeOK, Informer
<1>5. QED
    BY <1>1, <1>2, <1>3, <1>4

\* The last change of a key up to version v.
LEMMA ChangedIs ==
    ASSUME NEW type, NEW k, NEW v \in Nat \ {0}
    PROVE  /\ Changed(type, k, v) \in 1 .. v
           /\ \A n \in 1 .. v : n = 1 \/ (log[n - 1].type = type /\ log[n - 1].key = k) =>
                 n <= Changed(type, k, v)
           /\ \/ Changed(type, k, v) = 1
              \/ /\ log[Changed(type, k, v) - 1].type = type
                 /\ log[Changed(type, k, v) - 1].key = k
<1> DEFINE S == {1} \cup {n \in 2 .. v : log[n - 1].type = type /\ log[n - 1].key = k}
<1>1. S \in SUBSET (0 .. v) /\ S # {} /\ v \in Nat /\ \A n \in S : n \in 1 .. v
    OBVIOUS
<1>2. Changed(type, k, v) = Max(S)
    BY DEF Changed
<1>3. \A n \in 1 .. v : n = 1 \/ (log[n - 1].type = type /\ log[n - 1].key = k) => n \in S
    OBVIOUS
<1>4. \A n \in S : n = 1 \/ (log[n - 1].type = type /\ log[n - 1].key = k)
    OBVIOUS
<1> HIDE DEF S
<1>5. Max(S) \in S /\ \A n \in S : Max(S) >= n
    BY <1>1, Greatest
<1>6. \A n \in S : n <= Max(S)
    BY <1>1, <1>5
<1>7. QED
    BY <1>1, <1>2, <1>3, <1>4, <1>5, <1>6

\* A version that changed the key is the last change up to itself.
LEMMA ChangedThen ==
    ASSUME NEW type, NEW k, NEW v \in Nat \ {0},
           v = 1 \/ (log[v - 1].type = type /\ log[v - 1].key = k)
    PROVE  Changed(type, k, v) = v
<1>1. Changed(type, k, v) \in 1 .. v /\ v \in 1 .. v
    BY ChangedIs
<1>2. v <= Changed(type, k, v)
    BY <1>1, ChangedIs
<1>3. QED
    BY <1>1, <1>2

\* So is the last change up to any version.
LEMMA ChangedTwice ==
    ASSUME NEW type, NEW k, NEW v \in Nat \ {0}
    PROVE  Changed(type, k, Changed(type, k, v)) = Changed(type, k, v)
<1>1. PICK n : n = Changed(type, k, v)
    OBVIOUS
<1>2. /\ n \in Nat \ {0}
      /\ n = 1 \/ (log[n - 1].type = type /\ log[n - 1].key = k)
    BY <1>1, ChangedIs
<1>3. Changed(type, k, n) = n
    BY <1>2, ChangedThen
<1>4. QED
    BY <1>1, <1>3

\* A later change leaves what was.
LEMMA PastStays ==
    ASSUME TypeOK, NEW e \in Entry, log' = Append(log, e)
    PROVE  /\ log' \in Seq(Entry) /\ Version' = Version + 1
           /\ \A type, k : \A v \in 1 .. Version : Changed(type, k, v)' = Changed(type, k, v)
           /\ \A k : \A n \in 0 .. Version : Object(k, n)' = Object(k, n)
           /\ \A type : \A k \in Keys : \A v \in 1 .. Version :
                 StoreAt(type, v)'[k] = StoreAt(type, v)[k]
<1>1. log \in Seq(Entry) /\ Len(log) \in Nat /\ Version = Len(log) + 1
    BY Typed
<1>2. /\ log' \in Seq(Entry) /\ Len(log') = Len(log) + 1
      /\ \A j \in 1 .. Len(log) : log'[j] = log[j]
    BY <1>1, AppendProperties
<1>3. Version' = Version + 1
    BY <1>1, <1>2 DEF Version
<1>4. \A n \in 2 .. Version : log'[n - 1] = log[n - 1]
    BY <1>1, <1>2
<1>5. ASSUME NEW type, NEW k, NEW v \in 1 .. Version
      PROVE  Changed(type, k, v)' = Changed(type, k, v)
    <2>1. \A n \in 2 .. v : n \in 2 .. Version
        BY <1>1
    <2>2. {n \in 2 .. v : log'[n - 1].type = type /\ log'[n - 1].key = k}
             = {n \in 2 .. v : log[n - 1].type = type /\ log[n - 1].key = k}
        BY <1>4, <2>1
    <2>3. QED
        BY <2>2 DEF Changed
<1>6. ASSUME NEW k, NEW n \in 0 .. Version PROVE Object(k, n)' = Object(k, n)
    <2>1. n > 1 => n \in 2 .. Version
        BY <1>1
    <2>2. QED
        BY <1>1, <1>4, <2>1 DEF Object
<1>7. ASSUME NEW type, NEW k \in Keys, NEW v \in 1 .. Version
      PROVE  StoreAt(type, v)'[k] = StoreAt(type, v)[k]
    <2>1. PICK n : n = Changed(type, k, v)
        OBVIOUS
    <2>2. v \in Nat \ {0}
        BY <1>1
    <2>3. n \in 1 .. v
        BY <2>1, <2>2, ChangedIs
    <2>4. n \in 0 .. Version
        BY <1>1, <2>3
    <2>5. StoreAt(type, v)[k] = Object(k, n) /\ StoreAt(type, v)'[k] = Object(k, n)'
        BY <1>5, <2>1 DEF StoreAt
    <2>6. QED
        BY <1>6, <2>4, <2>5
<1>8. QED
    BY <1>2, <1>3, <1>5, <1>6, <1>7

\* What is right of an informer stays right when the store and the factory stay ...
LEMMA RightStays == UNCHANGED <<factory, log>> => \A t, r : Right(t, r)' <=> Right(t, r)
    BY DEF Right, Mine, Changed, StoreAt, Object

\* ... and when the store changes.
LEMMA RightGrows ==
    ASSUME TypeOK, NEW e \in Entry, log' = Append(log, e), factory' = factory,
           NEW t, NEW r \in Informer(Version), Right(t, r)
    PROVE  Right(t, r)'
<1>1. /\ r.at \in 0 .. Version
      /\ \A k \in Keys : r.queued[k] \in 0 .. Version /\ r.held[k] \in 0 .. Version
      /\ Version \in Nat
    BY Typed DEF Informer
<1>2. Mine' = Mine
    BY DEF Mine
<1>3. ASSUME NEW k \in Keys, NEW n \in 0 .. Version, n # 0
      PROVE  Changed(t, k, n)' = Changed(t, k, n)
    BY <1>1, <1>3, PastStays
<1>4. \A v \in 1 .. r.at : v \in 1 .. Version
    BY <1>1
<1>5. ASSUME NEW k \in Keys, \E v \in 1 .. r.at : StoreAt(t, v)[k] = NoObject
      PROVE  \E v \in 1 .. r.at : StoreAt(t, v)'[k] = NoObject
    BY <1>4, <1>5, PastStays
<1>6. QED
    BY <1>1, <1>2, <1>3, <1>5 DEF Right
-----------------------------------------------------------------------------
(***************************************************************************)
(* The namespace of the factory.                                           *)
(***************************************************************************)

\* The options as NewSharedInformerFactoryWithOptions applies them: function iter
\* gives the outcome for each set of positions, the last position last.
Outcome(options, iter, s) ==
    IF s = {} THEN [namespace |-> AllNamespaces]
    ELSE WithNamespace(iter[s \ {Max(s)}], options[Max(s)])

Applies(options, n, iter) ==
    iter = [s \in SUBSET (1 .. n) |-> Outcome(options, iter, s)]

\* There is such a function, by induction on the number of positions: the least one
\* without is neither 0 nor a successor.
LEMMA AppliesThem ==
    ASSUME NEW options, NEW l \in Nat
    PROVE  \E iter : Applies(options, l, iter)
<1> DEFINE Fails == {k \in 0 .. l : ~\E iter : Applies(options, k, iter)}
<1>1. SUFFICES ASSUME Fails # {} PROVE FALSE
    OBVIOUS
<1>2. PICK k \in Fails : \A j \in Fails : k <= j
    <2>1. Fails \in SUBSET Nat
        OBVIOUS
    <2> HIDE DEF Fails
    <2>2. QED
        BY <1>1, <2>1, Least
<1>3. k # 0
    <2> DEFINE g == [s \in SUBSET (1 .. 0) |-> [namespace |-> AllNamespaces]]
    <2>1. \A s \in SUBSET (1 .. 0) : s = {}
        OBVIOUS
    <2>2. Applies(options, 0, g)
        BY <2>1 DEF Applies, Outcome
    <2>3. QED
        BY <2>2
<1>4. k - 1 \in 0 .. l /\ k \in Nat /\ k \in 0 .. l
    BY <1>3
<1>5. PICK g : Applies(options, k - 1, g)
    <2>1. ~(k <= k - 1)
        BY <1>4
    <2>2. k - 1 \notin Fails
        BY <1>2, <2>1
    <2>3. QED
        BY <1>4, <2>2
<1> DEFINE h == [s \in SUBSET (1 .. k) |-> Outcome(options, g, s)]
<1>6. \A t \in SUBSET (1 .. k - 1) : t \in SUBSET (1 .. k)
    BY <1>4
<1>7. \A t \in SUBSET (1 .. k - 1) : h[t] = g[t]
    BY <1>5, <1>6 DEF Applies
<1>8. ASSUME NEW s \in SUBSET (1 .. k), s # {} PROVE s \ {Max(s)} \in SUBSET (1 .. k - 1)
    <2>1. s \in SUBSET (0 .. k) /\ k \in Nat
        BY <1>4
    <2>2. Max(s) \in s /\ \A y \in s : Max(s) >= y
        BY <1>8, <2>1, Greatest
    <2>3. ASSUME NEW y \in s, y # Max(s) PROVE y \in 1 .. k - 1
        <3>1. y \in 1 .. k /\ Max(s) \in 1 .. k /\ Max(s) >= y
            BY <2>2
        <3>2. QED
            BY <1>4, <2>3, <3>1
    <2>4. QED
        BY <2>3
<1>9. ASSUME NEW s \in SUBSET (1 .. k) PROVE Outcome(options, g, s) = Outcome(options, h, s)
    <2>1. s # {} => h[s \ {Max(s)}] = g[s \ {Max(s)}]
        BY <1>7, <1>8
    <2> HIDE DEF h
    <2>2. QED
        BY <2>1 DEF Outcome
<1>10. Applies(options, k, h)
    <2>1. h = [s \in SUBSET (1 .. k) |-> Outcome(options, g, s)]
        OBVIOUS
    <2> HIDE DEF h
    <2>2. h = [s \in SUBSET (1 .. k) |-> Outcome(options, h, s)]
        BY <1>9, <2>1
    <2>3. QED
        BY <2>2 DEF Applies
<1>11. QED
    BY <1>10

\* The factory is limited to a namespace, or to none.
LEMMA FactoryTyped ==
    ASSUME NEW options \in Seq(Namespaces)
    PROVE  NewSharedInformerFactoryWithOptions(options) \in [namespace : Namespaces]
<1> DEFINE l == Len(options)
<1>1. l \in Nat /\ DOMAIN options = 1 .. l /\ \A i \in 1 .. l : options[i] \in Namespaces
    BY LenProperties, ElementOfSeq
<1> HIDE DEF l
<1> DEFINE iter == CHOOSE iter : Applies(options, l, iter)
<1>2. Applies(options, l, iter)
    BY <1>1, AppliesThem
<1>3. NewSharedInformerFactoryWithOptions(options) = iter[1 .. l]
    BY <1>1
    DEF NewSharedInformerFactoryWithOptions, FoldLeft, MapThenFoldSet, Applies, Outcome
<1> HIDE DEF iter
<1>4. \A s \in SUBSET (1 .. l) : iter[s] = Outcome(options, iter, s)
    BY <1>2 DEF Applies
<1> DEFINE Fails == {k \in 0 .. l : iter[1 .. k] \notin [namespace : Namespaces]}
<1>5. Fails = {}
    <2>1. SUFFICES ASSUME Fails # {} PROVE FALSE
        OBVIOUS
    <2>2. PICK k \in Fails : \A j \in Fails : k <= j
        <3>1. Fails \in SUBSET Nat
            BY <1>1
        <3> HIDE DEF Fails
        <3>2. QED
            BY <2>1, <3>1, Least
    <2>3. k \in 0 .. l /\ k \in Nat
        BY <1>1
    <2>4. k # 0
        <3>1. 1 .. 0 = {} /\ {} \in SUBSET (1 .. l)
            OBVIOUS
        <3>2. iter[1 .. 0] = [namespace |-> AllNamespaces]
            BY <1>4, <3>1 DEF Outcome
        <3>3. iter[1 .. 0] \in [namespace : Namespaces]
            BY <3>2 DEF Namespaces
        <3>4. QED
            BY <3>3
    <2>5. k - 1 \in 0 .. l /\ ~(k <= k - 1) /\ k \in 1 .. l
        BY <1>1, <2>3, <2>4
    <2>6. iter[1 .. k - 1] \in [namespace : Namespaces]
        BY <2>2, <2>5
    <2>7. /\ 1 .. k \in SUBSET (1 .. l) /\ 1 .. k # {} /\ k \in 1 .. k
          /\ (1 .. k) \ {k} = 1 .. k - 1
        <3>1. \A j \in 1 .. k : j \in 1 .. l /\ (j # k => j \in 1 .. k - 1)
            BY <1>1, <2>5
        <3>2. k \in 1 .. k /\ \A j \in 1 .. k - 1 : j \in 1 .. k /\ j # k
            BY <2>3, <2>5
        <3>3. QED
            BY <3>1, <3>2
    <2>8. Max(1 .. k) = k
        <3>1. Max(1 .. k) \in 1 .. k /\ \A y \in 1 .. k : Max(1 .. k) >= y
            <4>1. 1 .. k \in SUBSET (0 .. k)
                BY <2>3
            <4>2. QED
                BY <2>3, <2>7, <4>1, Greatest
        <3>2. QED
            BY <2>3, <2>7, <3>1
    <2>9. iter[1 .. k] = WithNamespace(iter[1 .. k - 1], options[k])
        BY <1>4, <2>7, <2>8 DEF Outcome
    <2>10. iter[1 .. k] \in [namespace : Namespaces]
        BY <1>1, <2>5, <2>6, <2>9 DEF WithNamespace
    <2>11. QED
        BY <2>10
<1>6. l \in 0 .. l
    BY <1>1
<1>7. QED
    BY <1>3, <1>5, <1>6
-----------------------------------------------------------------------------
(***************************************************************************)
(* The steps.                                                              *)
(***************************************************************************)

\* The invariant holds at the start ...
LEMMA InitIInv == Init => IInv
<1> SUFFICES ASSUME Init PROVE IInv
    OBVIOUS
<1>1. factory \in [namespace : Namespaces] /\ wants \in [Clients -> SUBSET Types]
    BY UsesAssumption, FactoryTyped DEF Init
<1>2. DOMAIN cache = {} /\ {u \in Types : informers[u] = 1} = {}
    BY DEF Init
<1>3. cache \in [{<<t, 1>> : t \in {u \in Types : informers[u] = 1}} ->
                   [stop : Clients \cup {Nobody}, at : 0..Version, initial : SUBSET Keys,
                    queued : [Keys -> 0..Version], held : [Keys -> 0..Version]]]
    BY <1>2 DEF Init
<1>4. TypeOK
    <2>1. log \in Seq([type : Types, key : Keys, gone : BOOLEAN])
        BY EmptySeq DEF Init
    <2>2. waiting \in [Clients -> Seq(DOMAIN cache)]
        BY EmptySeq DEF Init
    <2>3. /\ informers \in [Types -> {0, 1}]
          /\ started \in [Types -> BOOLEAN]
          /\ handed \in [Clients -> [Types -> {0, 1}]]
          /\ called \in [Clients -> SUBSET Types]
          /\ closed \subseteq Clients
          /\ answer \in [Clients -> [Types -> {"none", "synced", "stopped"}]]
        BY DEF Init
    <2>4. QED
        BY <1>1, <1>3, <2>1, <2>2, <2>3 DEF TypeOK
<1>5. StartedMade /\ AllRight /\ Told
    BY <1>2 DEF Init, StartedMade, AllRight, Told
<1>6. QED
    BY <1>4, <1>5 DEF IInv

\* ... and after a change of the store, ...
LEMMA ChangeStep ==
    ASSUME IInv, NEW x \in Changing, Change(x[1], x[2])
    PROVE  IInv'
<1>1. PICK gone \in BOOLEAN : log' = Append(log, [type |-> x[1], key |-> x[2], gone |-> gone])
    BY DEF Change
<1>2. UNCHANGED <<factory, wants, informers, started, handed, called, closed, cache, waiting,
                  answer>>
    BY DEF Change
<1>3. TypeOK /\ StartedMade /\ AllRight /\ Told
    BY DEF IInv
<1>4. [type |-> x[1], key |-> x[2], gone |-> gone] \in Entry
    BY UsesAssumption DEF Entry
<1>5. log' \in Seq(Entry) /\ Version' = Version + 1 /\ Version \in Nat
    BY <1>1, <1>3, <1>4, PastStays, Typed
<1>6. \A i \in DOMAIN cache : cache[i] \in Informer(Version) /\ Right(i[1], cache[i])
    BY <1>3, Typed DEF AllRight
<1>7. ASSUME NEW i \in DOMAIN cache PROVE cache[i] \in Informer(Version)'
    BY <1>5, <1>6 DEF Informer
<1>8. TypeOK'
    <2>1. cache \in [DOMAIN cache -> Informer(Version)']
        BY <1>3, <1>7 DEF TypeOK
    <2>2. QED
        BY <1>2, <1>3, <1>5, <2>1 DEF TypeOK, Informer, Entry
<1>9. AllRight'
    <2>1. ASSUME NEW i \in DOMAIN cache PROVE Right(i[1], cache[i])'
        <3>1. PICK r : r = cache[i]
            OBVIOUS
        <3>2. Right(i[1], r)'
            BY <1>1, <1>2, <1>3, <1>4, <1>6, <3>1, RightGrows
        <3>3. cache'[i] = r
            BY <1>2, <3>1
        <3>4. QED
            BY <3>2, <3>3
    <2>2. QED
        BY <1>2, <2>1 DEF AllRight
<1>10. StartedMade' /\ Told'
    BY <1>2, <1>3 DEF StartedMade, Told, HasSynced
<1>11. QED
    BY <1>8, <1>9, <1>10 DEF IInv

\* The informers that WaitForCacheSync is to wait for were made, and are few.
LEMMA ToSyncMade ==
    ASSUME TypeOK, StartedMade
    PROVE  /\ ToSync \subseteq DOMAIN cache /\ IsFiniteSet(ToSync)
           /\ \A order \in SetToSeqs(ToSync) : order \in Seq(DOMAIN cache)
<1>1. ASSUME NEW t \in Types, started[t]
      PROVE  informers[t] = 1 /\ <<t, informers[t]>> \in DOMAIN cache
    BY <1>1, Typed DEF StartedMade
<1>2. ToSync \subseteq DOMAIN cache
    BY <1>1 DEF ToSync
<1> DEFINE some == {<<"networkservices", 1>>}
           all == some \cup {<<"networkserviceendpoints", 1>>}
<1>3. IsFiniteSet(some)
    BY FS_Singleton
<1>4. IsFiniteSet(all)
    BY <1>3, FS_AddElement
<1>5. ToSync \subseteq all
    BY <1>1 DEF ToSync, Types
<1>6. IsFiniteSet(ToSync)
    BY <1>4, <1>5, FS_Subset
<1>7. Cardinality(ToSync) \in Nat
    BY <1>6, FS_CardinalityType
<1>8. ASSUME NEW order \in SetToSeqs(ToSync) PROVE order \in Seq(DOMAIN cache)
    <2>1. order \in [1 .. Cardinality(ToSync) -> DOMAIN cache]
        BY <1>2 DEF SetToSeqs
    <2>2. QED
        BY <1>7, <2>1
<1>9. QED
    BY <1>2, <1>6, <1>8

\* Steps that leave the store and the factory alone, and of an informer what it
\* holds, keep what is right.
LEMMA AllRightKept ==
    ASSUME AllRight, UNCHANGED <<factory, log>>,
           \A i \in DOMAIN cache' : \E r : r = cache'[i] /\ Right(i[1], r)
    PROVE  AllRight'
<1>1. ASSUME NEW i \in DOMAIN cache' PROVE Right(i[1], cache[i])'
    <2>1. PICK r : r = cache'[i] /\ Right(i[1], r)
        OBVIOUS
    <2>2. Right(i[1], r)'
        BY <2>1, RightStays
    <2>3. QED
        BY <2>1, <2>2
<1>2. QED
    BY <1>1 DEF AllRight

\* ... after a client asks for a type, for which there is one informer then, ...
LEMMA InformerForStep ==
    ASSUME IInv, NEW c \in Clients, NEW t \in Types, InformerFor(c, t)
    PROVE  IInv'
<1>1. TypeOK /\ StartedMade /\ AllRight /\ Told
    BY DEF IInv
<1>2. InformerNumber(t) = 1
    BY <1>1 DEF InformerNumber, TypeOK
<1>3. /\ informers' = [informers EXCEPT ![t] = 1]
      /\ cache' = [i \in DOMAIN cache \cup {<<t, 1>>} |->
                      IF i \in DOMAIN cache THEN cache[i] ELSE NewInformer]
      /\ handed' = [handed EXCEPT ![c][t] = 1]
      /\ UNCHANGED <<factory, wants, log, started, called, closed, waiting, answer>>
    BY <1>2 DEF InformerFor
<1>4. \A i \in DOMAIN cache' :
         (i \in DOMAIN cache /\ cache'[i] = cache[i]) \/ cache'[i] = NewInformer
    BY <1>3
<1>5. /\ Version' = Version /\ Version \in Nat
      /\ \A i \in DOMAIN cache : cache[i] \in Informer(Version) /\ Right(i[1], cache[i])
    BY <1>1, <1>3, Typed DEF Version, AllRight
<1>6. NewInformer \in Informer(Version) /\ \A u : Right(u, NewInformer)
    BY <1>5 DEF NewInformer, Informer, Right
<1>7. TypeOK'
    <2>1. DOMAIN cache' = {<<u, 1>> : u \in {v \in Types : informers'[v] = 1}}
        <3>1. DOMAIN cache = {<<u, 1>> : u \in {v \in Types : informers[v] = 1}}
            BY <1>1 DEF TypeOK
        <3>2. {v \in Types : informers'[v] = 1} = {v \in Types : informers[v] = 1} \cup {t}
            BY <1>1, <1>3 DEF TypeOK
        <3>3. DOMAIN cache' = DOMAIN cache \cup {<<t, 1>>}
            BY <1>3
        <3>4. QED
            BY <3>1, <3>2, <3>3
    <2>2. \A i \in DOMAIN cache' : cache'[i] \in Informer(Version)
        BY <1>4, <1>5, <1>6
    <2>3. cache' \in [DOMAIN cache' -> Informer(Version)]
        BY <1>3, <2>2
    <2>4. waiting \in [Clients -> Seq(DOMAIN cache')]
        <3>1. Seq(DOMAIN cache) \subseteq Seq(DOMAIN cache')
            BY <1>3, SeqMonotonic
        <3>2. QED
            BY <1>1, <3>1 DEF TypeOK
    <2>5. informers' \in [Types -> {0, 1}] /\ handed' \in [Clients -> [Types -> {0, 1}]]
        BY <1>1, <1>3 DEF TypeOK
    <2>6. QED
        BY <1>1, <1>3, <1>5, <2>1, <2>3, <2>4, <2>5 DEF TypeOK, Informer
<1>8. AllRight'
    BY <1>1, <1>3, <1>4, <1>5, <1>6, AllRightKept
<1>9. StartedMade'
    BY <1>1, <1>3 DEF StartedMade, TypeOK
<1>10. Told'
    <2>1. ASSUME NEW d \in Clients, NEW u \in Types, answer'[d][u] = "synced"
          PROVE  informers'[u] = 1 /\ HasSynced(<<u, 1>>)'
        <3>1. informers[u] = 1 /\ HasSynced(<<u, 1>>)
            BY <1>1, <1>3, <2>1 DEF Told
        <3>2. informers'[u] = 1
            BY <1>1, <1>3, <3>1 DEF TypeOK
        <3>3. cache'[<<u, 1>>] = cache[<<u, 1>>]
            BY <1>1, <1>3, <3>1, Typed
        <3>4. QED
            BY <3>1, <3>2, <3>3 DEF HasSynced
    <2>2. QED
        BY <2>1 DEF Told
<1>11. QED
    BY <1>7, <1>8, <1>9, <1>10 DEF IInv

\* ... calls Start, waits for the caches, or closes its stopCh, ...
LEMMA ClientStep ==
    ASSUME IInv, NEW c \in Clients, Start(c) \/ WaitForCacheSync(c) \/ CloseStop(c)
    PROVE  IInv'
<1>1. TypeOK /\ StartedMade /\ AllRight /\ Told
    BY DEF IInv
<1>2. UNCHANGED <<factory, wants, log, informers, handed, answer>>
    BY DEF Start, WaitForCacheSync, CloseStop
<1>3. /\ Version' = Version /\ Version \in Nat
      /\ \A i \in DOMAIN cache : cache[i] \in Informer(Version) /\ Right(i[1], cache[i])
    BY <1>1, <1>2, Typed DEF Version, AllRight
<1>4. ASSUME Start(c)
      PROVE  /\ \A t \in Types : started'[t] => started[t] \/ informers[t] # 0
             /\ started' \in [Types -> BOOLEAN] /\ called' \in [Clients -> SUBSET Types]
             /\ closed' = closed /\ waiting' = waiting
    BY <1>1, <1>4 DEF Start, Startable, TypeOK
<1>5. ASSUME WaitForCacheSync(c)
      PROVE  waiting' \in [Clients -> Seq(DOMAIN cache)]
             /\ UNCHANGED <<started, called, closed>>
    BY <1>1, <1>5, ToSyncMade DEF WaitForCacheSync, TypeOK
<1>6. ASSUME CloseStop(c)
      PROVE  closed' \subseteq Clients /\ UNCHANGED <<started, called, waiting>>
    BY <1>1, <1>6 DEF CloseStop, TypeOK
<1>7. /\ DOMAIN cache' = DOMAIN cache
      /\ cache' = [i \in DOMAIN cache |-> cache'[i]]
      /\ \A i \in DOMAIN cache :
            cache'[i] = cache[i] \/ cache'[i] = [cache[i] EXCEPT !.stop = c]
    <2>1. cache = [i \in DOMAIN cache |-> cache[i]]
        BY <1>1 DEF TypeOK
    <2>2. CASE Start(c)
        BY <2>2 DEF Start
    <2>3. CASE cache' = cache
        BY <2>1, <2>3
    <2>4. QED
        BY <2>2, <2>3 DEF WaitForCacheSync, CloseStop
<1>8. ASSUME NEW i \in DOMAIN cache
      PROVE  /\ cache'[i] \in Informer(Version)
             /\ cache'[i].at = cache[i].at /\ cache'[i].initial = cache[i].initial
             /\ cache'[i].queued = cache[i].queued /\ cache'[i].held = cache[i].held
    <2>1. cache[i] \in Informer(Version)
        BY <1>3
    <2>2. [cache[i] EXCEPT !.stop = c] \in Informer(Version)
        BY <2>1 DEF Informer
    <2>3. QED
        BY <1>7, <2>1, <2>2 DEF Informer
<1>9. TypeOK'
    <2>1. cache' \in [DOMAIN cache -> Informer(Version)]
        BY <1>7, <1>8
    <2>2. cache' \in [{<<t, 1>> : t \in {u \in Types : informers[u] = 1}} -> Informer(Version)]
        BY <1>1, <2>1 DEF TypeOK
    <2>3. /\ started' \in [Types -> BOOLEAN] /\ called' \in [Clients -> SUBSET Types]
          /\ closed' \subseteq Clients /\ waiting' \in [Clients -> Seq(DOMAIN cache')]
        BY <1>1, <1>4, <1>5, <1>6, <1>7 DEF TypeOK
    <2>4. QED
        BY <1>1, <1>2, <1>3, <2>2, <2>3 DEF TypeOK, Informer
<1>10. AllRight'
    <2>1. ASSUME NEW i \in DOMAIN cache PROVE \E r : r = cache'[i] /\ Right(i[1], r)
        <3>1. PICK r : r = cache'[i]
            OBVIOUS
        <3>2. Right(i[1], r)
            BY <1>3, <1>8, <3>1 DEF Right
        <3>3. QED
            BY <3>1, <3>2
    <2>2. QED
        BY <1>1, <1>2, <1>7, <2>1, AllRightKept
<1>11. StartedMade'
    BY <1>1, <1>2, <1>4, <1>5, <1>6 DEF StartedMade, TypeOK
<1>12. Told'
    <2>1. \A t \in Types : informers[t] = 1 => (HasSynced(<<t, 1>>)' <=> HasSynced(<<t, 1>>))
        BY <1>1, <1>8, Typed DEF HasSynced
    <2>2. QED
        BY <1>1, <1>2, <2>1 DEF Told
<1>13. QED
    BY <1>9, <1>10, <1>11, <1>12 DEF IInv

\* ... or is told of an informer, ...
LEMMA SyncedStep ==
    ASSUME IInv, NEW c \in Clients, Synced(c)
    PROVE  IInv'
<1>1. TypeOK /\ StartedMade /\ AllRight /\ Told
    BY DEF IInv
<1>2. UNCHANGED <<factory, wants, log, informers, started, handed, called, closed, cache>>
    BY DEF Synced
<1>3. waiting[c] # <<>> /\ waiting[c] \in Seq(DOMAIN cache)
    BY <1>1 DEF Synced, TypeOK
<1>4. PICK i : i = Head(waiting[c])
    OBVIOUS
<1>5. i \in DOMAIN cache /\ Tail(waiting[c]) \in Seq(DOMAIN cache)
    BY <1>3, <1>4, HeadTailProperties
<1>6. i[1] \in Types /\ i = <<i[1], 1>> /\ informers[i[1]] = 1
    BY <1>1, <1>5, Typed
<1>7. PICK synced \in BOOLEAN :
         /\ IF synced THEN HasSynced(i) ELSE c \in closed
         /\ answer' = [answer EXCEPT ![c][i[1]] = IF synced THEN "synced" ELSE "stopped"]
    BY <1>4 DEF Synced
<1>8. TypeOK'
    <2>1. answer' \in [Clients -> [Types -> {"none", "synced", "stopped"}]]
        BY <1>1, <1>6, <1>7 DEF TypeOK
    <2>2. waiting' \in [Clients -> Seq(DOMAIN cache)]
        BY <1>1, <1>5 DEF Synced, TypeOK
    <2>3. Version' = Version
        BY <1>2 DEF Version
    <2>4. QED
        BY <1>1, <1>2, <2>1, <2>2, <2>3 DEF TypeOK
<1>9. AllRight'
    BY <1>1, <1>2, AllRightKept DEF AllRight
<1>10. Told'
    <2>1. ASSUME NEW d \in Clients, NEW t \in Types, answer'[d][t] = "synced"
          PROVE  informers[t] = 1 /\ HasSynced(<<t, 1>>)
        <3>1. CASE d = c /\ t = i[1]
            BY <1>1, <1>6, <1>7, <2>1, <3>1 DEF TypeOK
        <3>2. CASE ~(d = c /\ t = i[1])
            <4>1. answer[d][t] = "synced"
                BY <1>1, <1>6, <1>7, <2>1, <3>2 DEF TypeOK
            <4>2. QED
                BY <1>1, <4>1 DEF Told
        <3>3. QED
            BY <3>1, <3>2
    <2>2. QED
        BY <1>2, <2>1 DEF Told, HasSynced
<1>11. QED
    BY <1>1, <1>2, <1>8, <1>9, <1>10 DEF IInv, StartedMade

\* Both requests of an informer are for its type, in the factory's namespace.
LEMMA Requests ==
    ASSUME NEW t \in Types
    PROVE  /\ ListWatch(t).list.resource = t /\ ListWatch(t).watch.resource = t
           /\ ListWatch(t).list.namespace = factory.namespace
           /\ ListWatch(t).watch.namespace = factory.namespace
    BY DEF ListWatch, NewNetworkServices, NewNetworkServiceEndpoints, Networkservicemesh, V1,
           NewFilteredNetworkServiceInformer, NewFilteredNetworkServiceEndpointInformer, Types,
           ServiceList, ServiceWatch, EndpointList, EndpointWatch, ServiceRequest, EndpointRequest,
           Request

\* A step of the informer i that is typed, right, and synced still.
LEMMA ReflectorKeeps ==
    ASSUME IInv, NEW i \in DOMAIN cache,
           UNCHANGED <<factory, wants, log, informers, started, handed, called, closed,
                       waiting, answer>>,
           NEW r \in Informer(Version), cache' = [cache EXCEPT ![i] = r],
           Right(i[1], r),
           HasSynced(i) => r.at # 0 /\ r.initial = {}
    PROVE  IInv'
<1>1. TypeOK /\ StartedMade /\ AllRight /\ Told
    BY DEF IInv
<1>2. cache \in [DOMAIN cache -> Informer(Version)] /\ Version' = Version
    BY <1>1, Typed DEF TypeOK, Informer, Version
<1>3. /\ cache' \in [DOMAIN cache -> Informer(Version)] /\ DOMAIN cache' = DOMAIN cache
      /\ cache'[i] = r /\ \A j \in DOMAIN cache : j # i => cache'[j] = cache[j]
    BY <1>2
<1>4. TypeOK'
    BY <1>1, <1>2, <1>3 DEF TypeOK, Informer
<1>5. AllRight'
    <2>1. ASSUME NEW j \in DOMAIN cache' PROVE \E q : q = cache'[j] /\ Right(j[1], q)
        BY <1>1, <1>3 DEF AllRight
    <2>2. QED
        BY <1>1, <2>1, AllRightKept
<1>6. ASSUME NEW c \in Clients, NEW t \in Types, answer[c][t] = "synced"
      PROVE  informers[t] = 1 /\ HasSynced(<<t, 1>>)'
    <2>1. informers[t] = 1 /\ HasSynced(<<t, 1>>) /\ <<t, 1>> \in DOMAIN cache
        BY <1>1, <1>6, Typed DEF Told
    <2>2. CASE i = <<t, 1>>
        BY <1>3, <2>1, <2>2 DEF HasSynced
    <2>3. CASE i # <<t, 1>>
        BY <1>3, <2>1, <2>3 DEF HasSynced
    <2>4. QED
        BY <2>1, <2>2, <2>3
<1>7. StartedMade' /\ Told'
    BY <1>1, <1>6 DEF StartedMade, Told
<1>8. QED
    BY <1>4, <1>5, <1>7 DEF IInv

\* ... after an informer lists, ...
LEMMA RelistStep ==
    ASSUME IInv, NEW i \in DOMAIN cache, Relist(i)
    PROVE  IInv'
<1> DEFINE t == i[1]
           q == ListWatch(t).list
           old == cache[i]
<1>1. TypeOK /\ AllRight
    BY DEF IInv
<1>2. /\ t \in Types /\ old \in Informer(Version) /\ Right(t, old)
      /\ Version \in Nat /\ Version >= 1
    BY <1>1, Typed DEF AllRight
<1>3. PICK v \in Max({1, old.at}) .. Version : cache' = Reflect(i, q, v)
    BY DEF Relist
<1>4. v \in 1 .. Version /\ old.at <= v /\ old.at \in 0 .. Version
    <2>1. old.at \in 0 .. Version
        BY <1>2 DEF Informer
    <2>2. {1, old.at} \in SUBSET (0 .. Version) /\ {1, old.at} # {}
        BY <1>2, <2>1
    <2>3. /\ Max({1, old.at}) \in {1, old.at}
          /\ Max({1, old.at}) >= 1 /\ Max({1, old.at}) >= old.at
        BY <1>2, <2>2, Greatest
    <2>4. QED
        BY <1>2, <2>1, <2>3
<1>5. q.resource = t /\ q.namespace = factory.namespace
    BY <1>2, Requests
<1> DEFINE listed == Selected(q, StoreAt(t, v))
           known == {k \in Keys : old.queued[k] # 0}
           queued == [k \in Keys |-> IF k \in listed \cup known THEN Changed(t, k, v) ELSE 0]
           initial == IF old.at = 0 THEN listed ELSE old.initial
           r == [old EXCEPT !.at = v, !.initial = initial, !.queued = queued]
<1>6. cache' = [cache EXCEPT ![i] = r]
    BY <1>1, <1>2, <1>3, <1>5 DEF Reflect, TypeOK
<1>7. listed = {k \in Mine : StoreAt(t, v)[k] # NoObject}
    BY <1>5 DEF Selected, Stored, StoreAt, Mine
<1>8. \A k : /\ Changed(t, k, v) \in 1 .. v /\ Changed(t, k, v) \in 0 .. Version
             /\ Changed(t, k, Changed(t, k, v)) = Changed(t, k, v)
    <2>1. v \in Nat \ {0}
        BY <1>2, <1>4
    <2>2. \A k : Changed(t, k, v) \in 1 .. v
        BY <2>1, ChangedIs
    <2>3. \A n \in 1 .. v : n \in 0 .. Version
        BY <1>2, <1>4
    <2>4. QED
        BY <2>1, <2>2, <2>3, ChangedTwice
<1> HIDE DEF listed
<1>9. queued \in [Keys -> 0 .. Version] /\ initial \in SUBSET Keys
    BY <1>2, <1>7, <1>8 DEF Informer, Mine
<1>10. \A k \in Keys : queued[k] = IF k \in listed \cup known THEN Changed(t, k, v) ELSE 0
    OBVIOUS
<1> HIDE DEF queued, initial
<1>11. /\ r \in Informer(Version) /\ r.at = v /\ r.initial = initial /\ r.queued = queued
       /\ r.held = old.held
    <2>1. v \in 0 .. Version
        BY <1>2, <1>4
    <2>2. QED
        BY <1>2, <1>9, <2>1 DEF Informer
<1> HIDE DEF r, old, t, q
<1>12. \A k \in Keys :
          /\ old.held[k] # 0 => old.queued[k] # 0 /\ Changed(t, k, old.held[k]) = old.held[k]
          /\ old.queued[k] # 0 => k \in Mine
    BY <1>2 DEF Right
<1>13. ASSUME NEW k \in Mine, old.held[k] = 0, k \notin initial
       PROVE  \E u \in 1 .. v : StoreAt(t, u)[k] = NoObject
    <2>1. v \in 1 .. v /\ \A u \in 1 .. old.at : u \in 1 .. v
        BY <1>2, <1>4
    <2>2. CASE old.at = 0
        BY <1>7, <1>13, <2>1, <2>2 DEF initial
    <2>3. CASE old.at # 0
        <3>1. \E u \in 1 .. old.at : StoreAt(t, u)[k] = NoObject
            BY <1>2, <1>13, <2>3 DEF Right, initial, Mine
        <3>2. QED
            BY <2>1, <3>1
    <2>4. QED
        BY <2>2, <2>3
<1>14. Right(t, r)
    <2>1. ASSUME NEW k \in Keys, r.queued[k] # 0
          PROVE  k \in Mine /\ Changed(t, k, r.queued[k]) = r.queued[k]
        <3>1. k \in listed \cup known /\ r.queued[k] = Changed(t, k, v)
            BY <1>10, <1>11, <2>1
        <3>2. QED
            BY <1>7, <1>8, <1>12, <3>1
    <2>2. ASSUME NEW k \in Keys, r.held[k] # 0
          PROVE  r.queued[k] # 0 /\ Changed(t, k, r.held[k]) = r.held[k]
        <3>1. k \in known /\ Changed(t, k, r.held[k]) = r.held[k]
            BY <1>11, <1>12, <2>2
        <3>2. Changed(t, k, v) # 0
            BY <1>8
        <3>3. QED
            BY <1>10, <1>11, <3>1, <3>2
    <2>3. QED
        BY <1>11, <1>13, <2>1, <2>2 DEF Right
<1>15. HasSynced(i) => r.at # 0 /\ r.initial = {}
    BY <1>4, <1>11 DEF HasSynced, initial, old
<1>16. UNCHANGED <<factory, wants, log, informers, started, handed, called, closed, waiting,
                   answer>>
    BY DEF Relist
<1>17. QED
    BY <1>6, <1>11, <1>14, <1>15, <1>16, ReflectorKeeps DEF t

\* ... is sent a change by its watch, ...
LEMMA WatchedStep ==
    ASSUME IInv, NEW i \in DOMAIN cache, Watched(i)
    PROVE  IInv'
<1> DEFINE t == i[1]
           q == ListWatch(t).watch
           old == cache[i]
           v == old.at + 1
           e == log[v - 1]
           n == IF e.type = q.resource /\ q.namespace \in {AllNamespaces, e.key[1]}
                THEN v ELSE old.queued[e.key]
           r == [old EXCEPT !.at = v, !.queued = [old.queued EXCEPT ![e.key] = n]]
<1>1. TypeOK /\ AllRight
    BY DEF IInv
<1>2. /\ t \in Types /\ old \in Informer(Version) /\ Right(t, old)
      /\ Version \in Nat /\ Version = Len(log) + 1 /\ log \in Seq(Entry)
    BY <1>1, Typed DEF AllRight
<1>3. v \in 2 .. Version /\ old.at \in 0 .. Version
    BY <1>2 DEF Watched, Informer
<1>4. e \in Entry
    <2>1. v - 1 \in 1 .. Len(log)
        BY <1>2, <1>3
    <2>2. QED
        BY <1>2, <2>1, ElementOfSeq
<1>5. q.resource = t /\ q.namespace = factory.namespace
    BY <1>2, Requests
<1>6. cache' = [cache EXCEPT ![i] = r]
    <2>1. PICK x, takes :
             /\ x = e.key
             /\ takes = (e.type = q.resource /\ q.namespace \in {AllNamespaces, e.key[1]})
        OBVIOUS
    <2>2. cache' = [cache EXCEPT ![i].at = v, ![i].queued[x] = IF takes THEN v ELSE @]
        BY <2>1 DEF Watched
    <2>3. r = [old EXCEPT !.at = v,
                          !.queued = [old.queued EXCEPT ![x] = IF takes THEN v ELSE old.queued[x]]]
        BY <2>1
    <2>4. old \in Informer(Version) /\ old = cache[i]
        BY <1>2
    <2>5. cache'[i] = [old EXCEPT !.at = v, !.queued[x] = IF takes THEN v ELSE @]
        BY <2>2
    <2>6. cache'[i] = r
        BY <2>3, <2>4, <2>5 DEF Informer
    <2> HIDE DEF r, q, e, v, old
    <2>7. /\ cache' = [j \in DOMAIN cache |-> cache'[j]]
          /\ \A j \in DOMAIN cache : j # i => cache'[j] = cache[j]
        BY <1>1, <2>2 DEF TypeOK
    <2>8. QED
        BY <2>6, <2>7
<1>7. e.key \in Keys /\ old.queued \in [Keys -> 0 .. Version]
    BY <1>2, <1>4 DEF Informer, Entry
<1>8. n = old.queued[e.key] \/ (n = v /\ e.type = t /\ e.key \in Mine)
    BY <1>5, <1>7 DEF Mine
<1>9. n = v => Changed(t, e.key, v) = v \/ n = old.queued[e.key]
    <2>1. v \in Nat \ {0}
        BY <1>2, <1>3
    <2>2. (e.type = t => Changed(t, e.key, v) = v) \/ e.type # t
        <3> HIDE DEF t, v
        <3>1. e = log[v - 1]
            BY DEF v
        <3> HIDE DEF e
        <3>2. CASE e.type = t
            BY <2>1, <3>1, <3>2, ChangedThen
        <3>3. QED
            BY <3>2
    <2>3. QED
        BY <1>8, <2>2
<1> HIDE DEF n
<1>10. /\ r \in Informer(Version) /\ r.at = v /\ r.initial = old.initial /\ r.held = old.held
       /\ r.queued = [old.queued EXCEPT ![e.key] = n]
    <2>1. v \in 0 .. Version /\ n \in 0 .. Version
        BY <1>2, <1>3, <1>7, <1>8
    <2>2. QED
        BY <1>2, <1>7, <2>1 DEF Informer
<1>11. /\ r.queued[e.key] = n
       /\ \A k \in Keys : k # e.key => r.queued[k] = old.queued[k]
    BY <1>7, <1>10
<1>12. v # 0 /\ old.at # 0 /\ \A u \in 1 .. old.at : u \in 1 .. v
    BY <1>2, <1>3
<1>13. \A k \in Keys : r.queued[k] = old.queued[k]
           \/ (r.queued[k] = v /\ k \in Mine /\ Changed(t, k, v) = v)
    BY <1>8, <1>9, <1>11
<1>14. HasSynced(i) => r.at # 0 /\ r.initial = {}
    BY <1>10, <1>12 DEF HasSynced
<1> HIDE DEF r, old, t, e, v
<1>15. Right(t, r)
    <2>1. ASSUME NEW k \in Keys, r.queued[k] # 0
          PROVE  k \in Mine /\ Changed(t, k, r.queued[k]) = r.queued[k]
        BY <1>2, <1>13, <2>1 DEF Right
    <2>2. ASSUME NEW k \in Keys, r.held[k] # 0
          PROVE  r.queued[k] # 0 /\ Changed(t, k, r.held[k]) = r.held[k]
        BY <1>2, <1>10, <1>12, <1>13, <2>2 DEF Right
    <2>3. ASSUME NEW k \in Keys, k \in Mine, r.held[k] = 0, k \notin r.initial
          PROVE  \E u \in 1 .. r.at : StoreAt(t, u)[k] = NoObject
        <3>1. \E u \in 1 .. old.at : StoreAt(t, u)[k] = NoObject
            BY <1>2, <1>10, <1>12, <2>3 DEF Right
        <3>2. QED
            BY <1>10, <1>12, <3>1
    <2>4. QED
        BY <2>1, <2>2, <2>3 DEF Right
<1>16. UNCHANGED <<factory, wants, log, informers, started, handed, called, closed, waiting,
                   answer>>
    BY DEF Watched
<1>17. QED
    BY <1>6, <1>10, <1>14, <1>15, <1>16, ReflectorKeeps DEF t

\* ... or takes in what is queued of a key: never nothing.
LEMMA PopStep ==
    ASSUME IInv, NEW i \in DOMAIN cache, NEW k \in Keys, Pop(i, k)
    PROVE  IInv'
<1> DEFINE t == i[1]
           old == cache[i]
           r == [old EXCEPT !.held = [old.held EXCEPT ![k] = old.queued[k]],
                            !.initial = old.initial \ {k}]
<1>1. TypeOK /\ AllRight
    BY DEF IInv
<1>2. old \in Informer(Version) /\ Right(t, old)
    BY <1>1, Typed DEF AllRight
<1>3. cache' = [cache EXCEPT ![i] = r]
    BY <1>1 DEF Pop, TypeOK
<1>4. old.queued[k] # old.held[k] /\ (old.held[k] # 0 => old.queued[k] # 0)
    BY <1>2 DEF Pop, Right
<1>5. old.queued \in [Keys -> 0 .. Version] /\ old.held \in [Keys -> 0 .. Version]
    BY <1>2 DEF Informer
<1>6. /\ r \in Informer(Version) /\ r.at = old.at /\ r.queued = old.queued
      /\ r.initial = old.initial \ {k}
      /\ r.held = [old.held EXCEPT ![k] = old.queued[k]]
    BY <1>2, <1>5 DEF Informer
<1>7. HasSynced(i) => r.at # 0 /\ r.initial = {}
    BY <1>6 DEF HasSynced
<1>8. /\ r.held[k] = old.queued[k] /\ r.held[k] # 0
      /\ \A l \in Keys : l # k => r.held[l] = old.held[l]
    BY <1>4, <1>5, <1>6
<1> HIDE DEF r, old, t
<1>9. Right(t, r)
    <2>1. ASSUME NEW l \in Keys, r.queued[l] # 0
          PROVE  l \in Mine /\ Changed(t, l, r.queued[l]) = r.queued[l]
        BY <1>2, <1>6, <2>1 DEF Right
    <2>2. ASSUME NEW l \in Keys, r.held[l] # 0
          PROVE  r.queued[l] # 0 /\ Changed(t, l, r.held[l]) = r.held[l]
        <3>1. CASE l = k
            BY <1>2, <1>6, <1>8, <3>1 DEF Right
        <3>2. CASE l # k
            BY <1>2, <1>6, <1>8, <2>2, <3>2 DEF Right
        <3>3. QED
            BY <3>1, <3>2
    <2>3. ASSUME NEW l \in Keys, l \in Mine, r.at # 0, r.held[l] = 0, l \notin r.initial
          PROVE  \E u \in 1 .. r.at : StoreAt(t, u)[l] = NoObject
        BY <1>2, <1>6, <1>8, <2>3 DEF Right
    <2>4. QED
        BY <2>1, <2>2, <2>3 DEF Right
<1>10. UNCHANGED <<factory, wants, log, informers, started, handed, called, closed, waiting,
                   answer>>
    BY DEF Pop
<1>11. QED
    BY <1>3, <1>6, <1>7, <1>9, <1>10, ReflectorKeeps DEF t

\* The invariant holds after every step.
LEMMA StepIInv == IInv /\ [Next]_vars => IInv'
<1> SUFFICES ASSUME IInv, [Next]_vars PROVE IInv'
    OBVIOUS
<1>1. TypeOK
    BY DEF IInv
<1>2. CASE UNCHANGED vars
    <2>1. Version' = Version /\ AllRight'
        <3>1. UNCHANGED <<factory, log>> /\ cache' = cache
            BY <1>2 DEF vars
        <3>2. QED
            BY <3>1, AllRightKept DEF IInv, AllRight, Version
    <2>2. QED
        BY <1>2, <2>1 DEF vars, IInv, TypeOK, StartedMade, Told, HasSynced
<1>3. ASSUME NEW c \in Clients, NEW t \in wants[c], ForResource(c, t) PROVE IInv'
    BY <1>1, <1>3, InformerForStep DEF ForResource, TypeOK
<1>4. ASSUME NEW i \in DOMAIN cache, Reflector(i) PROVE IInv'
    BY <1>4, RelistStep, WatchedStep, PopStep DEF Reflector
<1>5. QED
    BY <1>2, <1>3, <1>4, ChangeStep, ClientStep, SyncedStep DEF Next

\* What an informer has queued and taken in fits the store and its first list, in
\* every state.
THEOREM Inductive == Spec => []IInv
    BY InitIInv, StepIInv, PTL DEF Spec

\* Every variable has the values the code can give it; the factory makes one
\* informer for a type, whoever asks, in whatever order and however often.
THEOREM TypeCorrect == Spec => []TypeOK
<1>1. IInv => TypeOK
    BY DEF IInv
<1>2. QED
    BY <1>1, Inductive, PTL

\* A lister that WaitForCacheSync reported synced never shows a gap its first list
\* had not filled, nor anything of another namespace.
THEOREM SyncedComplete == Spec => []SyncedIsComplete
<1>1. ASSUME IInv, NEW c \in Clients, NEW t \in Types, answer[c][t] = "synced",
             handed[c][t] # 0
      PROVE  LET i == <<t, handed[c][t]>>
             IN  /\ ListerList(i, AllNamespaces) \subseteq Mine
                 /\ \A k \in Mine : \E v \in 1..Version : ListerGet(i, k) = StoreAt(t, v)[k]
    <2> DEFINE i == <<t, 1>>
    <2>1. TypeOK /\ AllRight /\ Told
        BY <1>1 DEF IInv
    <2>2. handed[c][t] = 1 /\ informers[t] = 1 /\ HasSynced(i)
        BY <1>1, <2>1 DEF TypeOK, Told
    <2>3. /\ i \in DOMAIN cache /\ cache[i] \in Informer(Version) /\ i[1] = t
          /\ Version \in Nat /\ Version >= 1
        BY <2>1, <2>2, Typed
    <2>4. Right(t, cache[i])
        BY <2>1, <2>3 DEF AllRight
    <2>5. cache[i].at # 0 /\ cache[i].initial = {}
        BY <2>2 DEF HasSynced
    <2>6. /\ cache[i].at \in 0 .. Version
          /\ \A k \in Keys : cache[i].held[k] \in 0 .. Version
        BY <2>3 DEF Informer
    <2> HIDE DEF i
    <2>7. ListerList(i, AllNamespaces) \subseteq Mine
        BY <2>4 DEF ListerList, Selected, Stored, Object, Right
    <2>8. ASSUME NEW k \in Mine
          PROVE  \E v \in 1 .. Version : ListerGet(i, k) = StoreAt(t, v)[k]
        <3>0. k \in Keys
            BY DEF Mine
        <3>1. CASE cache[i].held[k] = 0
            <4>1. ListerGet(i, k) = NoObject
                BY <3>1 DEF ListerGet, Object
            <4>2. PICK v \in 1 .. cache[i].at : StoreAt(t, v)[k] = NoObject
                BY <2>4, <2>5, <3>0, <3>1 DEF Right
            <4>3. v \in 1 .. Version
                BY <2>3, <2>6, <4>2
            <4>4. QED
                BY <4>1, <4>2, <4>3
        <3>2. CASE cache[i].held[k] # 0
            <4>1. cache[i].held[k] \in 1 .. Version
                BY <2>3, <2>6, <3>0, <3>2
            <4>2. Changed(t, k, cache[i].held[k]) = cache[i].held[k]
                BY <2>4, <3>0, <3>2 DEF Right
            <4>3. StoreAt(t, cache[i].held[k])[k] = ListerGet(i, k)
                BY <3>0, <4>2 DEF StoreAt, ListerGet
            <4>4. QED
                BY <4>1, <4>3
        <3>3. QED
            BY <3>1, <3>2
    <2>9. QED
        BY <2>2, <2>7, <2>8 DEF i
<1>2. IInv => SyncedIsComplete
    BY <1>1 DEF SyncedIsComplete, Mine
<1>3. QED
    BY <1>2, Inductive, PTL
-----------------------------------------------------------------------------
(***************************************************************************)
(* No change is lost between the lists and the watches.                    *)
(***************************************************************************)

\* What the informer r of a type has queued of a key is the last change of it that
\* it has read, and it has queued nothing only of a key without an object.
Abreast(t, r) ==
    r.at # 0 =>
       \A k \in Mine :
          IF r.queued[k] = 0 THEN StoreAt(t, r.at)[k] = NoObject
          ELSE r.queued[k] = Changed(t, k, r.at)

AllAbreast == \A i \in DOMAIN cache : Abreast(i[1], cache[i])

\* A version that does not change the key leaves its last change.
LEMMA ChangedBefore ==
    ASSUME NEW type, NEW k, NEW v \in Nat \ {0, 1},
           ~(log[v - 1].type = type /\ log[v - 1].key = k)
    PROVE  /\ Changed(type, k, v) = Changed(type, k, v - 1)
           /\ k \in Keys => StoreAt(type, v)[k] = StoreAt(type, v - 1)[k]
<1>1. \A n : n \in 2 .. v <=> n \in 2 .. v - 1 \/ n = v
    OBVIOUS
<1>2. {n \in 2 .. v : log[n - 1].type = type /\ log[n - 1].key = k}
         = {n \in 2 .. v - 1 : log[n - 1].type = type /\ log[n - 1].key = k}
    BY <1>1
<1>3. Changed(type, k, v) = Changed(type, k, v - 1)
    BY <1>2 DEF Changed
<1>4. QED
    BY <1>3 DEF StoreAt

\* An informer that keeps what it has read and queued stays abreast while the
\* store stays ...
LEMMA AbreastStays ==
    ASSUME AllAbreast, UNCHANGED <<factory, log>>,
           \A i \in DOMAIN cache' :
              \/ cache'[i].at = 0
              \/ /\ i \in DOMAIN cache
                 /\ cache'[i].at = cache[i].at /\ cache'[i].queued = cache[i].queued
              \/ \E r : r = cache'[i] /\ Abreast(i[1], r)
    PROVE  AllAbreast'
<1>1. \A t, r : Abreast(t, r)' <=> Abreast(t, r)
    BY DEF Abreast, Mine, Changed, StoreAt, Object
<1>2. ASSUME NEW i \in DOMAIN cache' PROVE Abreast(i[1], cache[i])'
    <2>1. PICK r : r = cache'[i]
        OBVIOUS
    <2>2. Abreast(i[1], r)
        BY <2>1 DEF AllAbreast, Abreast
    <2>3. Abreast(i[1], r)'
        BY <1>1, <2>2
    <2>4. QED
        BY <2>1, <2>3
<1>3. QED
    BY <1>2 DEF AllAbreast

\* ... and when the store changes.
LEMMA AbreastGrows ==
    ASSUME TypeOK, AllAbreast, NEW e \in Entry, log' = Append(log, e),
           UNCHANGED <<factory, cache>>
    PROVE  AllAbreast'
<1>1. ASSUME NEW i \in DOMAIN cache PROVE Abreast(i[1], cache[i])'
    <2>1. PICK r : r = cache[i] /\ r = cache'[i]
        OBVIOUS
    <2>2. PICK t : t = i[1]
        OBVIOUS
    <2>3. Abreast(t, r) /\ r.at \in 0 .. Version /\ Version \in Nat
        BY <2>1, <2>2, Typed DEF AllAbreast, Informer
    <2>4. ASSUME NEW k \in Mine, r.at # 0
          PROVE  IF r.queued[k] = 0 THEN StoreAt(t, r.at)'[k] = NoObject
                 ELSE r.queued[k] = Changed(t, k, r.at)'
        <3>1. r.at \in 1 .. Version /\ k \in Keys
            BY <2>3, <2>4 DEF Mine
        <3>2. /\ Changed(t, k, r.at)' = Changed(t, k, r.at)
              /\ StoreAt(t, r.at)'[k] = StoreAt(t, r.at)[k]
            BY <3>1, PastStays
        <3>3. QED
            BY <2>3, <2>4, <3>2 DEF Abreast
    <2>5. Mine' = Mine
        BY DEF Mine
    <2>6. Abreast(t, r)'
        BY <2>4, <2>5 DEF Abreast
    <2>7. QED
        BY <2>1, <2>2, <2>6
<1>2. QED
    BY <1>1 DEF AllAbreast

\* A list queues the last change of what it shows, and of what was known before.
LEMMA RelistQueues ==
    ASSUME TypeOK, NEW i \in DOMAIN cache, Relist(i)
    PROVE  /\ \E v \in 1 .. Version :
                 /\ cache'[i].at = v
                 /\ \A k \in Mine : cache'[i].queued[k] =
                       IF StoreAt(i[1], v)[k] # NoObject \/ cache[i].queued[k] # 0
                       THEN Changed(i[1], k, v) ELSE 0
           /\ DOMAIN cache' = DOMAIN cache
           /\ \A j \in DOMAIN cache : j # i => cache'[j] = cache[j]
<1> DEFINE t == i[1]
           q == ListWatch(t).list
           old == cache[i]
<1>1. t \in Types /\ old \in Informer(Version) /\ Version \in Nat /\ Version >= 1
    BY Typed
<1>2. PICK v \in Max({1, old.at}) .. Version : cache' = Reflect(i, q, v)
    BY DEF Relist
<1>3. v \in 1 .. Version
    <2>1. {1, old.at} \in SUBSET (0 .. Version) /\ {1, old.at} # {}
        BY <1>1 DEF Informer
    <2>2. Max({1, old.at}) \in {1, old.at} /\ Max({1, old.at}) >= 1
        BY <1>1, <2>1, Greatest
    <2>3. QED
        BY <1>1, <2>1, <2>2
<1>4. q.resource = t /\ q.namespace = factory.namespace
    BY <1>1, Requests
<1> DEFINE listed == Selected(q, StoreAt(t, v))
           known == {k \in Keys : old.queued[k] # 0}
           queued == [k \in Keys |-> IF k \in listed \cup known THEN Changed(t, k, v) ELSE 0]
           initial == IF old.at = 0 THEN listed ELSE old.initial
           r == [old EXCEPT !.at = v, !.initial = initial, !.queued = queued]
<1>5. cache' = [cache EXCEPT ![i] = r]
    BY <1>1, <1>2, <1>4 DEF Reflect, TypeOK
<1>6. listed = {k \in Mine : StoreAt(t, v)[k] # NoObject}
    BY <1>4 DEF Selected, Stored, StoreAt, Mine
<1> HIDE DEF listed
<1>7. ASSUME NEW k \in Mine
      PROVE  queued[k] = IF StoreAt(t, v)[k] # NoObject \/ old.queued[k] # 0
                         THEN Changed(t, k, v) ELSE 0
    BY <1>6 DEF Mine
<1> HIDE DEF queued, initial
<1>8. r.at = v /\ r.queued = queued
    BY <1>1 DEF Informer
<1> HIDE DEF r
<1>9. cache'[i] = r
    BY <1>5
<1>10. QED
    BY <1>3, <1>5, <1>7, <1>8, <1>9

\* A watch queues the next change, if it is one of the type and the namespace.
LEMMA WatchedQueues ==
    ASSUME TypeOK, NEW i \in DOMAIN cache, Watched(i)
    PROVE  LET v == cache[i].at + 1
               e == log[v - 1]
           IN  /\ v \in 2 .. Version /\ e \in Entry
               /\ cache'[i].at = v
               /\ \A k \in Mine : cache'[i].queued[k] =
                     IF e.type = i[1] /\ e.key = k THEN v ELSE cache[i].queued[k]
               /\ DOMAIN cache' = DOMAIN cache
               /\ \A j \in DOMAIN cache : j # i => cache'[j] = cache[j]
<1> DEFINE t == i[1]
           q == ListWatch(t).watch
           old == cache[i]
           v == old.at + 1
           e == log[v - 1]
           takes == e.type = q.resource /\ q.namespace \in {AllNamespaces, e.key[1]}
<1>1. /\ t \in Types /\ old \in Informer(Version)
      /\ Version \in Nat /\ Version = Len(log) + 1 /\ log \in Seq(Entry)
    BY Typed
<1>2. v \in 2 .. Version
    BY DEF Watched
<1>3. e \in Entry
    <2>1. v - 1 \in 1 .. Len(log)
        BY <1>1, <1>2 DEF Informer
    <2>2. QED
        BY <1>1, <2>1, ElementOfSeq
<1>4. q.resource = t /\ q.namespace = factory.namespace
    BY <1>1, Requests
<1>5. \A k \in Mine : e.key = k => (takes <=> e.type = t)
    BY <1>4 DEF Mine
<1>6. cache' = [cache EXCEPT ![i].at = v, ![i].queued[e.key] = IF takes THEN v ELSE @]
    BY DEF Watched
<1>7. e.key \in Keys /\ old.queued \in [Keys -> 0 .. Version]
    BY <1>1, <1>3 DEF Informer, Entry
<1> HIDE DEF takes, e, v, t
<1>8. /\ cache'[i].at = v
      /\ cache'[i].queued =
            [old.queued EXCEPT ![e.key] = IF takes THEN v ELSE old.queued[e.key]]
    BY <1>1, <1>6 DEF Informer
<1>9. DOMAIN cache' = DOMAIN cache /\ \A j \in DOMAIN cache : j # i => cache'[j] = cache[j]
    BY <1>6
<1>10. ASSUME NEW k \in Mine
       PROVE  cache'[i].queued[k] = IF e.type = t /\ e.key = k THEN v ELSE old.queued[k]
    BY <1>5, <1>7, <1>8, <1>10 DEF Mine
<1>11. QED
    BY <1>2, <1>3, <1>8, <1>9, <1>10 DEF e, v, t

\* After each step the informers are abreast.
LEMMA StepAbreast ==
    ASSUME IInv, AllAbreast, [Next]_vars
    PROVE  AllAbreast'
<1>1. TypeOK /\ AllRight
    BY DEF IInv
<1>2. ASSUME NEW x \in Changing, Change(x[1], x[2]) PROVE AllAbreast'
    <2>1. PICK gone \in BOOLEAN :
             log' = Append(log, [type |-> x[1], key |-> x[2], gone |-> gone])
        BY <1>2 DEF Change
    <2>2. [type |-> x[1], key |-> x[2], gone |-> gone] \in Entry
        BY UsesAssumption DEF Entry
    <2>3. UNCHANGED <<factory, cache>>
        BY <1>2 DEF Change
    <2>4. QED
        BY <1>1, <2>1, <2>2, <2>3, AbreastGrows
<1>3. ASSUME NEW c \in Clients, NEW t \in wants[c], ForResource(c, t) PROVE AllAbreast'
    <2>1. UNCHANGED <<factory, log>>
        BY <1>3 DEF ForResource, InformerFor
    <2>2. \A i \in DOMAIN cache' :
             \/ cache'[i].at = 0
             \/ i \in DOMAIN cache /\ cache'[i] = cache[i]
        BY <1>3 DEF ForResource, InformerFor, NewInformer
    <2>3. QED
        BY <2>1, <2>2, AbreastStays
<1>4. ASSUME NEW c \in Clients, Start(c) PROVE AllAbreast'
    <2>1. UNCHANGED <<factory, log>>
        BY <1>4 DEF Start
    <2>2. DOMAIN cache' = DOMAIN cache
        BY <1>4 DEF Start
    <2>3. ASSUME NEW i \in DOMAIN cache
          PROVE  cache'[i].at = cache[i].at /\ cache'[i].queued = cache[i].queued
        <3>1. cache[i] \in Informer(Version)
            BY <1>1, Typed
        <3>2. cache'[i] = cache[i] \/ cache'[i] = [cache[i] EXCEPT !.stop = c]
            BY <1>4 DEF Start
        <3>3. QED
            BY <3>1, <3>2 DEF Informer
    <2>4. QED
        BY <2>1, <2>2, <2>3, AbreastStays
<1>5. CASE UNCHANGED <<factory, log, cache>>
    BY <1>5, AbreastStays
<1>6. ASSUME NEW i \in DOMAIN cache, Relist(i) PROVE AllAbreast'
    <2>1. UNCHANGED <<factory, log>>
        BY <1>6 DEF Relist
    <2> DEFINE t == i[1]
    <2>2. PICK v \in 1 .. Version :
             /\ cache'[i].at = v
             /\ \A k \in Mine : cache'[i].queued[k] =
                   IF StoreAt(t, v)[k] # NoObject \/ cache[i].queued[k] # 0
                   THEN Changed(t, k, v) ELSE 0
        BY <1>1, <1>6, RelistQueues
    <2>3. \A k : Changed(t, k, v) # 0
        <3>1. v \in Nat \ {0}
            BY <1>1, Typed
        <3>2. QED
            BY <3>1, ChangedIs
    <2> HIDE DEF t
    <2>4. \E r : r = cache'[i] /\ Abreast(t, r)
        <3>1. PICK r : r = cache'[i]
            OBVIOUS
        <3>2. Abreast(t, r)
            BY <2>2, <2>3, <3>1 DEF Abreast
        <3>3. QED
            BY <3>1, <3>2
    <2>5. DOMAIN cache' = DOMAIN cache /\ \A j \in DOMAIN cache : j # i => cache'[j] = cache[j]
        BY <1>1, <1>6, RelistQueues
    <2>6. QED
        BY <2>1, <2>4, <2>5, AbreastStays DEF t
<1>7. ASSUME NEW i \in DOMAIN cache, Watched(i) PROVE AllAbreast'
    <2>1. UNCHANGED <<factory, log>>
        BY <1>7 DEF Watched
    <2> DEFINE t == i[1]
               old == cache[i]
               v == old.at + 1
               e == log[v - 1]
    <2>2. /\ v \in 2 .. Version /\ e \in Entry
          /\ cache'[i].at = v
          /\ \A k \in Mine : cache'[i].queued[k] =
                IF e.type = t /\ e.key = k THEN v ELSE old.queued[k]
          /\ DOMAIN cache' = DOMAIN cache
          /\ \A j \in DOMAIN cache : j # i => cache'[j] = cache[j]
        BY <1>1, <1>7, WatchedQueues
    <2>3. old.at \in Nat /\ Version \in Nat /\ Abreast(t, old)
        BY <1>1, Typed DEF Informer, AllAbreast
    <2>4. v \in Nat \ {0, 1} /\ v - 1 = old.at /\ old.at # 0
        BY <2>2, <2>3
    <2>5. ASSUME NEW k \in Mine
          PROVE  IF cache'[i].queued[k] = 0 THEN StoreAt(t, v)[k] = NoObject
                 ELSE cache'[i].queued[k] = Changed(t, k, v)
        <3>1. k \in Keys
            BY DEF Mine
        <3>2. CASE e.type = t /\ e.key = k
            <4>1. Changed(t, k, v) = v
                BY <2>4, <3>2, ChangedThen
            <4>2. QED
                BY <2>2, <2>4, <3>2, <4>1
        <3>3. CASE ~(e.type = t /\ e.key = k)
            <4>1. /\ Changed(t, k, v) = Changed(t, k, old.at)
                  /\ StoreAt(t, v)[k] = StoreAt(t, old.at)[k]
                BY <2>4, <3>1, <3>3, ChangedBefore
            <4>2. cache'[i].queued[k] = old.queued[k]
                BY <2>2, <3>3
            <4>3. QED
                BY <2>3, <2>4, <4>1, <4>2 DEF Abreast
        <3>4. QED
            BY <3>2, <3>3
    <2> HIDE DEF t, old, v, e
    <2>6. \E r : r = cache'[i] /\ Abreast(t, r)
        <3>1. PICK r : r = cache'[i]
            OBVIOUS
        <3>2. Abreast(t, r)
            BY <2>2, <2>5, <3>1 DEF Abreast
        <3>3. QED
            BY <3>1, <3>2
    <2>7. QED
        BY <2>1, <2>2, <2>6, AbreastStays DEF t
<1>8. ASSUME NEW i \in DOMAIN cache, NEW k \in Keys, Pop(i, k) PROVE AllAbreast'
    <2>1. UNCHANGED <<factory, log>> /\ DOMAIN cache' = DOMAIN cache
        BY <1>8 DEF Pop
    <2>2. ASSUME NEW j \in DOMAIN cache
          PROVE  cache'[j].at = cache[j].at /\ cache'[j].queued = cache[j].queued
        <3>1. cache[j] \in Informer(Version)
            BY <1>1, Typed
        <3>2. QED
            BY <1>8, <3>1 DEF Pop, Informer
    <2>3. QED
        BY <2>1, <2>2, AbreastStays
<1>9. ASSUME NEW c \in Clients, WaitForCacheSync(c) \/ Synced(c) \/ CloseStop(c)
      PROVE  UNCHANGED <<factory, log, cache>>
    BY <1>9 DEF WaitForCacheSync, Synced, CloseStop
<1>10. UNCHANGED vars => UNCHANGED <<factory, log, cache>>
    BY DEF vars
<1>11. QED
    BY <1>2, <1>3, <1>4, <1>5, <1>6, <1>7, <1>8, <1>9, <1>10 DEF Next, Reflector

\* An informer that has read every change and taken in all it has queued shows the
\* store in the factory's namespace, whatever lists and watches brought it there.
THEOREM DrainedShows == Spec => []DrainedShowsStore
<1>1. Init => AllAbreast
    BY DEF Init, AllAbreast
<1>2. IInv /\ AllAbreast /\ [Next]_vars => IInv' /\ AllAbreast'
    BY StepIInv, StepAbreast
<1>3. ASSUME IInv, AllAbreast, NEW i \in DOMAIN cache, Drained(i)
      PROVE  LET store == StoreAt(i[1], Version)
             IN  /\ ListerList(i, AllNamespaces) = Selected(factory, store)
                 /\ \A k \in ListerList(i, AllNamespaces) : ListerGet(i, k) = store[k]
    <2> DEFINE t == i[1]
               r == cache[i]
               store == StoreAt(t, Version)
    <2>1. r \in Informer(Version) /\ Version \in Nat /\ Version >= 1
        BY <1>3, Typed DEF IInv
    <2>2. Right(t, r) /\ Abreast(t, r) /\ r.at = Version /\ r.held = r.queued
        BY <1>3 DEF IInv, AllRight, AllAbreast, Drained
    <2>3. ASSUME NEW k \in Mine PROVE Object(k, r.held[k]) = store[k]
        <3>1. k \in Keys /\ store[k] = Object(k, Changed(t, k, Version))
            BY DEF Mine, StoreAt
        <3>2. CASE r.queued[k] = 0
            <4>1. store[k] = NoObject
                BY <2>1, <2>2, <3>2 DEF Abreast
            <4>2. QED
                BY <2>2, <3>2, <4>1 DEF Object
        <3>3. CASE r.queued[k] # 0
            <4>1. r.queued[k] = Changed(t, k, Version)
                BY <2>1, <2>2, <3>3 DEF Abreast
            <4>2. QED
                BY <2>2, <3>1, <4>1
        <3>4. QED
            BY <3>2, <3>3
    <2>4. ASSUME NEW k \in Keys, k \notin Mine PROVE Object(k, r.held[k]) = NoObject
        <3>1. r.held[k] = 0
            BY <2>2, <2>4 DEF Right
        <3>2. QED
            BY <3>1 DEF Object
    <2>5. \A k \in Keys : ListerGet(i, k) = Object(k, r.held[k])
        BY DEF ListerGet
    <2>6. ListerList(i, AllNamespaces) = {k \in Keys : Object(k, r.held[k]) # NoObject}
        BY DEF ListerList, Selected, Stored
    <2>7. Selected(factory, store) = {k \in Mine : store[k] # NoObject}
        BY DEF Selected, Stored, StoreAt, Mine
    <2> HIDE DEF r, t, store
    <2>8. /\ ListerList(i, AllNamespaces) = Selected(factory, store)
          /\ \A k \in ListerList(i, AllNamespaces) : ListerGet(i, k) = store[k]
        <3>1. Mine \subseteq Keys
            BY DEF Mine
        <3>2. QED
            BY <2>3, <2>4, <2>5, <2>6, <2>7, <3>1
    <2>9. QED
        BY <2>8 DEF store, t
<1>4. IInv /\ AllAbreast => DrainedShowsStore
    BY <1>3 DEF DrainedShowsStore
<1>5. QED
    BY <1>1, <1>2, <1>4, InitIInv, PTL DEF Spec
=============================================================================
