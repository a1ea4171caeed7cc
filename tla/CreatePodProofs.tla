-------------------------- MODULE CreatePodProofs --------------------------
(***************************************************************************)
(* Proofs about CreatePod, for any set of servers, any names and any       *)
(* number of pods and starts.                                              *)
(***************************************************************************)
EXTENDS CreatePod, FiniteSetTheorems, SequenceTheorems, TLAPS

TInv == TypeOK /\ IsFiniteSet(pods)

\* The copies of pods that the monitor of r has still to look at.
Copies(r) == ToSet(items[r]) \cup ToSet(events[r])
-----------------------------------------------------------------------------
(***************************************************************************)
(* Sequences and the sets of their elements.                               *)
(***************************************************************************)

\* The elements of a sequence are of its type.
LEMMA SetOfSeq ==
    ASSUME NEW S, NEW s \in Seq(S)
    PROVE  /\ ToSet(s) \subseteq S
           /\ \A e : e \in ToSet(s) <=> \E i \in 1 .. Len(s) : s[i] = e
    BY DEF ToSet

\* A monitor that has stopped holds no copies.
LEMMA SetOfEmpty == ToSet(<<>>) = {}
    BY DEF ToSet

\* An event is queued behind those that are there.
LEMMA SetOfAppend ==
    ASSUME NEW S, NEW s \in Seq(S), NEW e \in S
    PROVE  Append(s, e) \in Seq(S) /\ ToSet(Append(s, e)) = ToSet(s) \cup {e}
<1>1. /\ Append(s, e) \in Seq(S) /\ Len(Append(s, e)) = Len(s) + 1 /\ Len(s) \in Nat
      /\ \A i \in 1 .. Len(s) : Append(s, e)[i] = s[i]
      /\ Append(s, e)[Len(s) + 1] = e
    OBVIOUS
<1>2. ASSUME NEW i \in 1 .. Len(Append(s, e)) PROVE Append(s, e)[i] \in ToSet(s) \cup {e}
    BY <1>1, SetOfSeq
<1>3. ASSUME NEW i \in 1 .. Len(s) PROVE s[i] \in ToSet(Append(s, e))
    <2>1. i \in 1 .. Len(Append(s, e)) /\ Append(s, e)[i] = s[i]
        BY <1>1
    <2>2. QED
        BY <1>1, <2>1, SetOfSeq
<1>4. e \in ToSet(Append(s, e))
    <2>1. Len(s) + 1 \in 1 .. Len(Append(s, e))
        BY <1>1
    <2>2. QED
        BY <1>1, <2>1, SetOfSeq
<1>5. ASSUME NEW x \in ToSet(Append(s, e)) PROVE x \in ToSet(s) \cup {e}
    <2>1. PICK i \in 1 .. Len(Append(s, e)) : Append(s, e)[i] = x
        BY <1>1, SetOfSeq
    <2>2. QED
        BY <1>2, <2>1
<1>6. ToSet(s) \subseteq ToSet(Append(s, e))
    BY <1>3, SetOfSeq
<1>7. QED
    BY <1>1, <1>4, <1>5, <1>6

\* Nothing but the first element is taken from a queue.
LEMMA SetOfTail ==
    ASSUME NEW S, NEW s \in Seq(S), s # <<>>
    PROVE  /\ Head(s) \in S /\ Head(s) \in ToSet(s) /\ Tail(s) \in Seq(S)
           /\ ToSet(Tail(s)) \subseteq ToSet(s)
           /\ ToSet(s) \subseteq ToSet(Tail(s)) \cup {Head(s)}
<1>1. /\ Head(s) \in S /\ Tail(s) \in Seq(S) /\ Head(s) = s[1] /\ 1 \in 1 .. Len(s)
      /\ Len(Tail(s)) = Len(s) - 1 /\ Len(s) \in Nat
      /\ \A i \in 1 .. Len(Tail(s)) : Tail(s)[i] = s[i + 1]
    BY HeadTailProperties
<1>2. Head(s) \in ToSet(s)
    BY <1>1, SetOfSeq
<1>3. ASSUME NEW i \in 1 .. Len(Tail(s)) PROVE Tail(s)[i] \in ToSet(s)
    <2>1. i + 1 \in 1 .. Len(s)
        BY <1>1
    <2>2. QED
        BY <1>1, <2>1, SetOfSeq
<1>4. ASSUME NEW i \in 1 .. Len(s) PROVE s[i] \in ToSet(Tail(s)) \cup {Head(s)}
    <2>1. CASE i = 1
        BY <1>1, <2>1
    <2>2. CASE i # 1
        <3>1. i - 1 \in 1 .. Len(Tail(s)) /\ Tail(s)[i - 1] = s[i]
            BY <1>1, <2>2
        <3>2. QED
            BY <1>1, <3>1, SetOfSeq
    <2>3. QED
        BY <2>1, <2>2
<1>5. ASSUME NEW x \in ToSet(Tail(s)) PROVE x \in ToSet(s)
    <2>1. Tail(s) \in Seq(S)
        BY <1>1
    <2>2. \A e : e \in ToSet(Tail(s)) <=> \E i \in 1 .. Len(Tail(s)) : Tail(s)[i] = e
        BY <2>1, SetOfSeq
    <2>3. PICK i \in 1 .. Len(Tail(s)) : Tail(s)[i] = x
        BY <1>5, <2>2
    <2>4. QED
        BY <1>3, <2>3
<1>6. ToSet(s) \subseteq ToSet(Tail(s)) \cup {Head(s)}
    BY <1>4, SetOfSeq
<1>7. QED
    BY <1>1, <1>2, <1>5, <1>6

\* A List returns all the pods there are.
LEMMA SetOfList ==
    ASSUME NEW S, IsFiniteSet(S), NEW q \in SetToSeqs(S)
    PROVE  q \in Seq(S) /\ ToSet(q) = S
<1> DEFINE n == Cardinality(S)
<1>1. n \in Nat /\ IsFiniteSet(1 .. n) /\ Cardinality(1 .. n) = n
    BY FS_CardinalityType, FS_Interval
<1>2. q \in [1 .. n -> S] /\ \A i, j \in 1 .. n : i # j => q[i] # q[j]
    BY DEF SetToSeqs
<1>3. q \in Injection(1 .. n, S)
    BY <1>2 DEF Injection, IsInjective
<1>4. q \in Surjection(1 .. n, S)
    BY <1>1, <1>3, FS_Injection
<1>5. \A e \in S : \E i \in 1 .. n : q[i] = e
    BY <1>4 DEF Surjection
<1>6. q \in Seq(S)
    BY <1>1, <1>2, SeqDef
<1>7. QED
    BY <1>2, <1>5, <1>6 DEF ToSet
-----------------------------------------------------------------------------
(***************************************************************************)
(* Type correctness.                                                       *)
(***************************************************************************)

\* An event goes to every open watch, and to no other.
LEMMA FeedAll ==
    ASSUME TypeOK, NEW p \in Pod
    PROVE  /\ Feed(p) \in [Servers -> Seq(Pod)]
           /\ \A r \in Servers :
                 /\ ToSet(Feed(p)[r]) \subseteq ToSet(events[r]) \cup {p}
                 /\ ToSet(events[r]) \subseteq ToSet(Feed(p)[r])
                 /\ open[r] => p \in ToSet(Feed(p)[r])
<1>1. ASSUME NEW r \in Servers
      PROVE  /\ Append(events[r], p) \in Seq(Pod)
             /\ ToSet(Append(events[r], p)) = ToSet(events[r]) \cup {p}
    BY SetOfAppend DEF TypeOK
<1>2. QED
    BY <1>1 DEF Feed, TypeOK

\* What a look at the copy p does: queue is what is left of the events of r.
LEMMA DeleteStep ==
    ASSUME TypeOK, NEW r \in Servers, NEW p, NEW queue \in Seq(Pod),
           ToSet(queue) \subseteq ToSet(events[r]),
           DeleteSpawnedCompletedPod(r, p, queue)
    PROVE  /\ pods' \subseteq pods
           /\ IsFiniteSet(pods) => IsFiniteSet(pods')
           /\ events' \in [Servers -> Seq(Pod)] /\ deleted' \in [Servers -> SUBSET Pod]
           /\ \A s \in Servers : ToSet(events'[s]) \subseteq ToSet(events[s]) \cup pods
           /\ \A s \in Servers \ {r} : ToSet(events[s]) \subseteq ToSet(events'[s])
           /\ ToSet(queue) \subseteq ToSet(events'[r])
           /\ \A d \in deleted'[r] \ deleted[r] : d \in pods /\ d.name = p.name /\ Spawned(r, p)
           /\ \A s \in Servers \ {r} : deleted'[s] = deleted[s]
           /\ r \notin Faulty /\ Spawned(r, p) => p \notin pods'
<1>1. CASE Spawned(r, p) /\ DeleteByName(r, p, queue)
    <2>1. PICK q \in pods :
             /\ q.name = p.name
             /\ pods' = pods \ {q}
             /\ events' = [s \in Servers |->
                             IF open[s] THEN Append(IF s = r THEN queue ELSE events[s], q)
                             ELSE IF s = r THEN queue ELSE events[s]]
             /\ deleted' = [deleted EXCEPT ![r] = @ \cup {q}]
        BY <1>1 DEF DeleteByName
    <2>2. q \in Pod
        BY DEF TypeOK
    <2>3. ASSUME NEW s \in Servers, NEW before \in Seq(Pod)
          PROVE  /\ Append(before, q) \in Seq(Pod)
                 /\ ToSet(Append(before, q)) = ToSet(before) \cup {q}
        BY <2>2, SetOfAppend
    <2>4. ASSUME NEW s \in Servers, s # r
          PROVE  /\ events'[s] \in Seq(Pod)
                 /\ ToSet(events'[s]) \subseteq ToSet(events[s]) \cup {q}
                 /\ ToSet(events[s]) \subseteq ToSet(events'[s])
        BY <2>1, <2>3, <2>4 DEF TypeOK
    <2>5. /\ events'[r] \in Seq(Pod)
          /\ ToSet(events'[r]) \subseteq ToSet(events[r]) \cup {q}
          /\ ToSet(queue) \subseteq ToSet(events'[r])
        BY <2>1, <2>3 DEF TypeOK
    <2>6. events' \in [Servers -> Seq(Pod)]
        BY <2>1, <2>4, <2>5
    <2>7. p \notin pods'
        BY <2>1 DEF TypeOK
    <2>8. IsFiniteSet(pods) => IsFiniteSet(pods')
        BY <2>1, FS_RemoveElement
    <2>9. /\ deleted' \in [Servers -> SUBSET Pod] /\ deleted'[r] = deleted[r] \cup {q}
          /\ \A s \in Servers \ {r} : deleted'[s] = deleted[s]
        BY <2>1, <2>2 DEF TypeOK
    <2>10. \A d \in deleted'[r] \ deleted[r] : d = q
        BY <2>9
    <2>11. pods' \subseteq pods /\ q \in pods /\ q.name = p.name
        BY <2>1
    <2>12. \A s \in Servers : ToSet(events'[s]) \subseteq ToSet(events[s]) \cup pods
        BY <2>4, <2>5, <2>11
    <2>13. \A s \in Servers \ {r} : ToSet(events[s]) \subseteq ToSet(events'[s])
        BY <2>4
    <2>14. QED
        BY <1>1, <2>5, <2>6, <2>7, <2>8, <2>9, <2>10, <2>11, <2>12, <2>13
<1>2. CASE LeaveAlone(r, p, queue)
    <2>1. events' = [events EXCEPT ![r] = queue] /\ UNCHANGED <<pods, deleted>>
        BY <1>2 DEF LeaveAlone
    <2>2. r \notin Faulty /\ Spawned(r, p) => p \notin pods
        BY <1>2 DEF LeaveAlone
    <2>3. QED
        BY <2>1, <2>2 DEF TypeOK
<1>3. QED
    BY <1>1, <1>2 DEF DeleteSpawnedCompletedPod

\* Types hold at the start ...
LEMMA InitTInv == Init => TInv
    BY CreatePodAssumption, FS_EmptySet DEF Init, TInv, TypeOK

\* ... and every step keeps them, with no two pods of one name.
LEMMA StepTInv == TInv /\ [Next]_vars => TInv'
<1> SUFFICES ASSUME TInv, [Next]_vars PROVE TInv'
    OBVIOUS
<1> USE CreatePodAssumption
<1>0. TypeOK /\ IsFiniteSet(pods)
    BY DEF TInv
<1>1. ASSUME NEW p \in pods, Complete(p) PROVE TInv'
    <2> DEFINE q == [p EXCEPT !.phase = "Completed"]
    <2>1. p \in Pod /\ q \in Pod /\ q.name = p.name
        BY <1>0 DEF TypeOK, Pod
    <2>2. pods' = (pods \ {p}) \cup {q} /\ events' = Feed(q)
        BY <1>1 DEF Complete
    <2>3. IsFiniteSet(pods')
        BY <1>0, <2>2, FS_RemoveElement, FS_AddElement
    <2>4. pods' \subseteq Pod /\ \A x, y \in pods' : x.name = y.name => x = y
        <3>1. pods \subseteq Pod /\ \A x, y \in pods : x.name = y.name => x = y
            BY <1>0 DEF TypeOK
        <3> HIDE DEF q
        <3>2. \A x \in pods' : x.name = q.name => x = q
            BY <1>1, <2>1, <2>2, <3>1
        <3>3. \A x \in pods' : x = q \/ x \in pods
            BY <2>2
        <3>4. QED
            BY <2>1, <3>1, <3>2, <3>3
    <2>5. events' \in [Servers -> Seq(Pod)]
        BY <1>0, <2>1, <2>2, FeedAll
    <2>6. QED
        BY <1>0, <1>1, <2>3, <2>4, <2>5 DEF Complete, TInv, TypeOK
<1>2. ASSUME NEW p \in pods, Evict(p) PROVE TInv'
    <2>1. IsFiniteSet(pods') /\ pods' \subseteq pods
        BY <1>0, <1>2, FS_RemoveElement DEF Evict
    <2>2. events' \in [Servers -> Seq(Pod)]
        BY <1>0, <1>2, FeedAll DEF Evict, TypeOK
    <2>3. QED
        BY <1>0, <1>2, <2>1, <2>2 DEF Evict, TInv, TypeOK
<1>3. ASSUME NEW r \in Servers, NewServer(r) PROVE TInv'
    <2>1. PICK q \in SetToSeqs(pods) \cup {<<>>} : events' = [events EXCEPT ![r] = q]
        BY <1>3 DEF NewServer
    <2>2. q \in Seq(Pod)
        <3>1. CASE q = <<>>
            BY <3>1, EmptySeq
        <3>2. CASE q \in SetToSeqs(pods)
            <4>1. q \in Seq(pods)
                BY <1>0, <3>2, SetOfList
            <4>2. pods \subseteq Pod
                BY <1>0 DEF TypeOK
            <4>3. QED
                BY <4>1, <4>2, SeqMonotonic
        <3>3. QED
            BY <2>1, <3>1, <3>2
    <2>3. QED
        BY <1>0, <1>3, <2>1, <2>2 DEF NewServer, TInv, TypeOK
<1>4. ASSUME NEW r \in Servers, NEW name \in Names, Request(r, name) PROVE TInv'
    <2> DEFINE p == [name |-> name, id |-> created + 1, by |-> r, phase |-> "Running"]
    <2>1. p \in Pod
        BY <1>0, <1>4 DEF Request, Pod, TypeOK
    <2>2. pods' = pods \cup {p} /\ events' = Feed(p) /\ \A q \in pods : q.name # name
        BY <1>4 DEF Request
    <2>3. IsFiniteSet(pods')
        BY <1>0, <2>2, FS_AddElement
    <2>4. pods' \subseteq Pod /\ \A x, y \in pods' : x.name = y.name => x = y
        BY <1>0, <2>1, <2>2 DEF TypeOK
    <2>5. events' \in [Servers -> Seq(Pod)]
        BY <1>0, <2>1, <2>2, FeedAll
    <2>6. created' \in 0 .. MaxPods /\ taken' \subseteq Names
        BY <1>0, <1>4 DEF Request, TypeOK
    <2>7. QED
        BY <1>0, <1>4, <2>3, <2>4, <2>5, <2>6 DEF Request, TInv, TypeOK
<1>5. ASSUME NEW r \in Servers, List(r) PROVE TInv'
    <2>1. PICK q \in SetToSeqs(pods) : items' = [items EXCEPT ![r] = q]
        BY <1>5 DEF List
    <2>2. q \in Seq(Pod)
        BY <1>0, SetOfList, SeqMonotonic DEF TypeOK
    <2>3. QED
        BY <1>0, <1>5, <2>1, <2>2 DEF List, TInv, TypeOK
<1>6. ASSUME NEW r \in Servers, ScanItem(r) PROVE TInv'
    <2>1. Tail(items[r]) \in Seq(Pod) /\ events[r] \in Seq(Pod)
        BY <1>0, <1>6, SetOfTail DEF ScanItem, TypeOK
    <2>2. /\ pods' \subseteq pods /\ IsFiniteSet(pods')
          /\ events' \in [Servers -> Seq(Pod)] /\ deleted' \in [Servers -> SUBSET Pod]
        BY <1>0, <1>6, <2>1, DeleteStep DEF ScanItem
    <2>3. QED
        BY <1>0, <1>6, <2>1, <2>2 DEF ScanItem, TInv, TypeOK
<1>7. ASSUME NEW r \in Servers, HandleEvent(r) PROVE TInv'
    <2>1. Tail(events[r]) \in Seq(Pod) /\ ToSet(Tail(events[r])) \subseteq ToSet(events[r])
        BY <1>0, <1>7, SetOfTail DEF HandleEvent, TypeOK
    <2>2. /\ pods' \subseteq pods /\ IsFiniteSet(pods')
          /\ events' \in [Servers -> Seq(Pod)] /\ deleted' \in [Servers -> SUBSET Pod]
        BY <1>0, <1>7, <2>1, DeleteStep DEF HandleEvent
    <2>3. QED
        BY <1>0, <1>7, <2>2 DEF HandleEvent, TInv, TypeOK
<1>8. ASSUME NEW r \in Servers,
             NewServerBlind(r) \/ EndWatch(r) \/ ListFails(r) \/ Scanned(r) \/ LoopEnds(r)
      PROVE  TInv'
    <2>1. CASE NewServerBlind(r)
        BY <1>0, <2>1 DEF NewServerBlind, TInv, TypeOK
    <2>2. CASE EndWatch(r)
        BY <1>0, <2>2 DEF EndWatch, TInv, TypeOK
    <2>3. CASE ListFails(r) \/ Scanned(r)
        BY <1>0, <2>3 DEF ListFails, Scanned, TInv, TypeOK
    <2>4. CASE LoopEnds(r)
        BY <1>0, <2>4 DEF LoopEnds, TInv, TypeOK
    <2>5. QED
        BY <1>8, <2>1, <2>2, <2>3, <2>4
<1>9. ASSUME NEW r \in Servers, Stop(r) PROVE TInv'
    BY <1>0, <1>9, EmptySeq DEF Stop, TInv, TypeOK
<1>10. CASE UNCHANGED vars
    BY <1>0, <1>10 DEF vars, monitorVars, TInv, TypeOK
<1>11. QED
    BY <1>1, <1>2, <1>3, <1>4, <1>5, <1>6, <1>7, <1>8, <1>9, <1>10
    DEF Next, MonitorCompletedPods

\* The pods, the watches and the monitors have the values the code can give
\* them: no two pods ever share a name, and a watch is open only under a monitor.
THEOREM TypeCorrect == Spec => []TypeOK
<1>1. TInv => TypeOK
    BY DEF TInv
<1>2. QED
    BY <1>1, InitTInv, StepTInv, PTL DEF Spec
-----------------------------------------------------------------------------
(***************************************************************************)
(* What is deleted.                                                        *)
(***************************************************************************)

\* A copy tells the truth about whatever pod has its name: who created it, and,
\* since phases do not go back, that it has completed.
Truthful(p) ==
    \A q \in pods : q.name = p.name => q.by = p.by /\ (Completed(p) => Completed(q))

\* Every name that is in use, or was when a copy was made, is a taken one.
CopiesTruthful ==
    /\ \A p \in pods : p.name \in taken
    /\ \A r \in Servers : \A p \in Copies(r) : p.name \in taken /\ Truthful(p)

DInv == TInv /\ CopiesTruthful /\ DeletesOnlySpawnedCompleted

\* How a step changes the pods, the copies and the names, for all it matters.
CopyStep ==
    \* Pods go, and copies are made of pods.
    \/ /\ pods' \subseteq pods /\ taken' = taken
       /\ \A r \in Servers : Copies(r)' \subseteq Copies(r) \cup pods
    \* A pod completes, and a copy is made of it.
    \/ \E p \in pods : \E q \in Pod :
          /\ q = [p EXCEPT !.phase = "Completed"]
          /\ pods' = (pods \ {p}) \cup {q} /\ taken' = taken
          /\ \A r \in Servers : Copies(r)' \subseteq Copies(r) \cup {q}
    \* A pod is created under a name that was not taken, and a copy is made of it.
    \/ \E p \in Pod :
          /\ p.name \notin taken
          /\ pods' = pods \cup {p} /\ taken' = taken \cup {p.name}
          /\ \A r \in Servers : Copies(r)' \subseteq Copies(r) \cup {p}

\* Where names are unique, every step is such a one.
LEMMA EveryCopyStep ==
    ASSUME UniqueNames, TInv, TypeOK', [Next]_vars
    PROVE  CopyStep
<1>0. TypeOK /\ IsFiniteSet(pods)
    BY DEF TInv
<1>1. \A r \in Servers : /\ Copies(r) = ToSet(items[r]) \cup ToSet(events[r])
                        /\ Copies(r)' = ToSet(items'[r]) \cup ToSet(events'[r])
    BY DEF Copies
<1>2. ASSUME NEW p \in pods, Complete(p) PROVE CopyStep
    <2> DEFINE q == [p EXCEPT !.phase = "Completed"]
    <2>1. q \in Pod
        BY <1>0 DEF TypeOK, Pod
    <2>2. \A r \in Servers : ToSet(events'[r]) \subseteq ToSet(events[r]) \cup {q}
        BY <1>0, <1>2, <2>1, FeedAll DEF Complete
    <2>3. \A r \in Servers : Copies(r)' \subseteq Copies(r) \cup {q}
        BY <1>1, <1>2, <2>2 DEF Complete
    <2>4. pods' = (pods \ {p}) \cup {q} /\ taken' = taken
        BY <1>2 DEF Complete
    <2>5. QED
        BY <2>1, <2>3, <2>4 DEF CopyStep
<1>3. ASSUME NEW r \in Servers, NEW name \in Names, Request(r, name) PROVE CopyStep
    <2> DEFINE p == [name |-> name, id |-> created + 1, by |-> r, phase |-> "Running"]
    <2>1. pods' = pods \cup {p} /\ taken' = taken \cup {p.name} /\ p.name \notin taken
        BY <1>3 DEF Request
    <2>2. p \in Pod
        BY <2>1 DEF TypeOK
    <2>3. \A s \in Servers : ToSet(events'[s]) \subseteq ToSet(events[s]) \cup {p}
        BY <1>0, <1>3, <2>2, FeedAll DEF Request
    <2>4. \A s \in Servers : Copies(s)' \subseteq Copies(s) \cup {p}
        BY <1>1, <1>3, <2>3 DEF Request
    <2>5. QED
        BY <2>1, <2>2, <2>4 DEF CopyStep
<1>4. ASSUME pods' \subseteq pods, taken' = taken,
             \A r \in Servers : /\ ToSet(events'[r]) \subseteq ToSet(events[r]) \cup pods
                                /\ ToSet(items'[r]) \subseteq ToSet(items[r]) \cup pods
      PROVE  CopyStep
    BY <1>1, <1>4 DEF CopyStep
<1>5. ASSUME NEW p \in pods, Evict(p) PROVE CopyStep
    <2>1. p \in Pod
        BY <1>0 DEF TypeOK
    <2>2. QED
        BY <1>0, <1>4, <1>5, <2>1, FeedAll DEF Evict
<1>6. ToSet(<<>>) = {}
    BY SetOfEmpty
<1>7. ASSUME NEW r \in Servers, NewServer(r) PROVE CopyStep
    <2>1. PICK q \in SetToSeqs(pods) \cup {<<>>} : events' = [events EXCEPT ![r] = q]
        BY <1>7 DEF NewServer
    <2>2. ToSet(q) \subseteq pods
        BY <1>0, <1>6, SetOfList
    <2>3. \A s \in Servers : ToSet(events'[s]) \subseteq ToSet(events[s]) \cup pods
        BY <1>0, <2>1, <2>2 DEF TypeOK
    <2>4. QED
        BY <1>4, <1>7, <2>3 DEF NewServer
<1>8. ASSUME NEW r \in Servers, List(r) PROVE CopyStep
    <2>1. PICK q \in SetToSeqs(pods) : items' = [items EXCEPT ![r] = q]
        BY <1>8 DEF List
    <2>2. ToSet(q) \subseteq pods
        BY <1>0, SetOfList
    <2>3. \A s \in Servers : ToSet(items'[s]) \subseteq ToSet(items[s]) \cup pods
        BY <1>0, <2>1, <2>2 DEF TypeOK
    <2>4. QED
        BY <1>4, <1>8, <2>3 DEF List
<1>9. ASSUME NEW r \in Servers, ScanItem(r) PROVE CopyStep
    <2>1. ToSet(Tail(items[r])) \subseteq ToSet(items[r]) /\ events[r] \in Seq(Pod)
        BY <1>0, <1>9, SetOfTail DEF ScanItem, TypeOK
    <2>2. \A s \in Servers : ToSet(items'[s]) \subseteq ToSet(items[s])
        BY <1>0, <1>9, <2>1 DEF ScanItem, TypeOK
    <2>3. /\ pods' \subseteq pods
          /\ \A s \in Servers : ToSet(events'[s]) \subseteq ToSet(events[s]) \cup pods
        BY <1>0, <1>9, <2>1, DeleteStep DEF ScanItem
    <2>4. QED
        BY <1>4, <1>9, <2>2, <2>3 DEF ScanItem
<1>10. ASSUME NEW r \in Servers, HandleEvent(r) PROVE CopyStep
    <2>1. Tail(events[r]) \in Seq(Pod) /\ ToSet(Tail(events[r])) \subseteq ToSet(events[r])
        BY <1>0, <1>10, SetOfTail DEF HandleEvent, TypeOK
    <2>2. /\ pods' \subseteq pods
          /\ \A s \in Servers : ToSet(events'[s]) \subseteq ToSet(events[s]) \cup pods
        BY <1>0, <1>10, <2>1, DeleteStep DEF HandleEvent
    <2>3. QED
        BY <1>4, <1>10, <2>2 DEF HandleEvent
<1>11. ASSUME NEW r \in Servers, Stop(r) PROVE CopyStep
    <2>1. \A s \in Servers : /\ events'[s] \in {events[s], <<>>}
                            /\ items'[s] \in {items[s], <<>>}
        BY <1>0, <1>11 DEF Stop, TypeOK
    <2>2. QED
        BY <1>4, <1>6, <1>11, <2>1 DEF Stop
<1>12. ASSUME UNCHANGED <<pods, taken, events, items>> PROVE CopyStep
    BY <1>4, <1>12
<1>13. QED
    BY <1>2, <1>3, <1>5, <1>7, <1>8, <1>9, <1>10, <1>11, <1>12
    DEF Next, MonitorCompletedPods, NewServerBlind, EndWatch, ListFails, Scanned, LoopEnds, vars,
        monitorVars

\* Such a step keeps the copies truthful.
LEMMA StepTruthful ==
    ASSUME TypeOK, CopiesTruthful, CopyStep
    PROVE  CopiesTruthful'
<1> USE DEF CopiesTruthful, Truthful
<1>1. ASSUME pods' \subseteq pods, taken' = taken,
             \A r \in Servers : Copies(r)' \subseteq Copies(r) \cup pods
      PROVE  CopiesTruthful'
    <2>1. \A p \in pods : Truthful(p)
        BY DEF TypeOK
    <2>2. QED
        BY <1>1, <2>1
<1>2. ASSUME NEW p \in pods, NEW q \in Pod, q = [p EXCEPT !.phase = "Completed"],
             pods' = (pods \ {p}) \cup {q}, taken' = taken,
             \A r \in Servers : Copies(r)' \subseteq Copies(r) \cup {q}
      PROVE  CopiesTruthful'
    <2>1. q.name = p.name /\ q.by = p.by /\ Completed(q)
        BY <1>2 DEF TypeOK, Pod, Completed
    <2>2. ASSUME NEW r \in Servers, NEW c \in Copies(r) \cup {q}
          PROVE  /\ c.name \in taken
                 /\ \A x \in pods' :
                       x.name = c.name => x.by = c.by /\ (Completed(c) => Completed(x))
        <3>1. CASE c = q
            <4>1. \A x \in pods' : x.name = q.name => x = q
                BY <1>2, <2>1 DEF TypeOK
            <4>2. QED
                BY <1>2, <2>1, <3>1, <4>1
        <3>2. CASE c \in Copies(r)
            <4>1. c.name \in taken /\ \A x \in pods : x.name = c.name =>
                                         x.by = c.by /\ (Completed(c) => Completed(x))
                BY <3>2
            <4>2. \A x \in pods' : x \in pods \/ x = q
                BY <1>2
            <4>3. p.name = c.name => q.by = c.by
                BY <1>2, <2>1, <4>1
            <4>4. QED
                BY <2>1, <4>1, <4>2, <4>3
        <3>3. QED
            BY <2>2, <3>1, <3>2
    <2>3. QED
        BY <1>2, <2>1, <2>2
<1>3. ASSUME NEW p \in Pod, p.name \notin taken,
             pods' = pods \cup {p}, taken' = taken \cup {p.name},
             \A r \in Servers : Copies(r)' \subseteq Copies(r) \cup {p}
      PROVE  CopiesTruthful'
    BY <1>3
<1>4. QED
    BY <1>1, <1>2, <1>3 DEF CopyStep

\* The pod that a copy names is deleted, and the copy is truthful.
LEMMA StepDeleted ==
    ASSUME TypeOK, CopiesTruthful, DeletesOnlySpawnedCompleted, [Next]_vars
    PROVE  DeletesOnlySpawnedCompleted'
<1> USE DEF DeletesOnlySpawnedCompleted
<1>1. ASSUME NEW r \in Servers, NEW p \in Copies(r), NEW queue \in Seq(Pod),
             ToSet(queue) \subseteq ToSet(events[r]),
             DeleteSpawnedCompletedPod(r, p, queue)
      PROVE  DeletesOnlySpawnedCompleted'
    <2>1. \A d \in deleted'[r] \ deleted[r] : d.by = r /\ Completed(d)
        BY <1>1, DeleteStep DEF CopiesTruthful, Truthful, Spawned
    <2>2. \A s \in Servers \ {r} : deleted'[s] = deleted[s]
        BY <1>1, DeleteStep
    <2>3. QED
        BY <2>1, <2>2
<1>2. ASSUME NEW r \in Servers, ScanItem(r) PROVE DeletesOnlySpawnedCompleted'
    <2>1. Head(items[r]) \in Copies(r) /\ events[r] \in Seq(Pod)
        BY <1>2, SetOfTail DEF ScanItem, TypeOK, Copies
    <2>2. QED
        BY <1>1, <1>2, <2>1 DEF ScanItem
<1>3. ASSUME NEW r \in Servers, HandleEvent(r) PROVE DeletesOnlySpawnedCompleted'
    <2>1. /\ Head(events[r]) \in Copies(r) /\ Tail(events[r]) \in Seq(Pod)
          /\ ToSet(Tail(events[r])) \subseteq ToSet(events[r])
        BY <1>3, SetOfTail DEF HandleEvent, TypeOK, Copies
    <2>2. QED
        BY <1>1, <1>3, <2>1 DEF HandleEvent
<1>4. CASE UNCHANGED deleted
    BY <1>4
<1>5. QED
    BY <1>2, <1>3, <1>4
    DEF Next, Complete, Evict, NewServer, NewServerBlind, Request, MonitorCompletedPods, List,
        ListFails, Scanned, LoopEnds, EndWatch, Stop, vars

\* Where the template makes names unique, the monitor of a server deletes pods
\* that this server created and that have completed, although it decides on
\* copies and deletes by name.
THEOREM DeletesOnly ==
    ASSUME UniqueNames
    PROVE  Spec => []DeletesOnlySpawnedCompleted
<1>1. Init => DInv
    <2> SUFFICES ASSUME Init PROVE DInv
        OBVIOUS
    <2>1. \A r \in Servers : Copies(r) = {}
        BY SetOfEmpty DEF Init, Copies
    <2>2. QED
        BY <2>1, InitTInv DEF Init, DInv, CopiesTruthful, DeletesOnlySpawnedCompleted
<1>2. DInv /\ [Next]_vars => DInv'
    BY StepTInv, EveryCopyStep, StepTruthful, StepDeleted DEF DInv, TInv
<1>3. DInv => DeletesOnlySpawnedCompleted
    BY DEF DInv
<1>4. QED
    BY <1>1, <1>2, <1>3, PTL DEF Spec
-----------------------------------------------------------------------------
(***************************************************************************)
(* What is not lost.                                                       *)
(***************************************************************************)

\* The watch of a server without faults is open while its monitor needs it.
StaysOpen ==
    \A r \in Servers \ Faulty :
        monitor[r] \in {"listing", "scanning", "watching"} => open[r]

KInv == TInv /\ StaysOpen /\ CompletedIsKnown

\* Nobody but the server itself closes it.
LEMMA StepOpen ==
    ASSUME TypeOK, StaysOpen, [Next]_vars
    PROVE  StaysOpen'
<1> USE DEF StaysOpen, TypeOK
<1>1. ASSUME NEW r \in Servers, NewServer(r) \/ NewServerBlind(r) PROVE StaysOpen'
    BY <1>1 DEF NewServer, NewServerBlind
<1>2. ASSUME NEW r \in Servers, EndWatch(r) \/ Stop(r) PROVE StaysOpen'
    BY <1>2 DEF EndWatch, Stop
<1>3. ASSUME NEW r \in Servers, List(r) \/ ListFails(r) \/ Scanned(r) \/ LoopEnds(r)
      PROVE  StaysOpen'
    BY <1>3 DEF List, ListFails, Scanned, LoopEnds
<1>4. CASE UNCHANGED <<monitor, open>>
    BY <1>4
<1>5. QED
    BY <1>1, <1>2, <1>3, <1>4
    DEF Next, Complete, Evict, Request, MonitorCompletedPods, ScanItem, HandleEvent, vars,
        monitorVars

\* A pod completes under an open watch, and its copy waits there until the pod
\* has been deleted.
LEMMA StepKnown ==
    ASSUME TInv, TypeOK', StaysOpen, CompletedIsKnown, [Next]_vars
    PROVE  CompletedIsKnown'
<1>0. TypeOK /\ IsFiniteSet(pods)
    BY DEF TInv
<1>1. \A r \in Servers : /\ Copies(r) = ToSet(items[r]) \cup ToSet(events[r])
                        /\ Copies(r)' = ToSet(items'[r]) \cup ToSet(events'[r])
    BY DEF Copies
<1> DEFINE Known(r) ==
        \A p \in pods : monitor[r] \in {"scanning", "watching"} /\ Spawned(r, p)
                            => p \in Copies(r)
<1>2. \A r \in Servers \ Faulty : Known(r)
    BY <1>1 DEF CompletedIsKnown
<1>3. ASSUME \A r \in Servers \ Faulty : Known(r)' PROVE CompletedIsKnown'
    BY <1>1, <1>3 DEF CompletedIsKnown
\* A monitor that does nothing, while pods go ...
<1>4. ASSUME NEW r \in Servers \ Faulty, monitor'[r] = monitor[r], pods' \subseteq pods,
             Copies(r) \subseteq Copies(r)'
      PROVE  Known(r)'
    <2>1. Known(r)
        BY <1>2
    <2>2. QED
        BY <1>4, <2>1 DEF Spawned, Completed
\* ... or a pod comes that the watch reports, if it is open.
<1>5. ASSUME NEW p \in Pod, pods' \subseteq pods \cup {p}, events' = Feed(p),
             UNCHANGED <<monitor, items>>, NEW r \in Servers \ Faulty
      PROVE  Known(r)'
    <2>1. ToSet(events[r]) \subseteq ToSet(events'[r]) /\ (open[r] => p \in ToSet(events'[r]))
        BY <1>0, <1>5, FeedAll
    <2>2. monitor[r] \in {"scanning", "watching"} => open[r]
        BY DEF StaysOpen
    <2>3. Known(r) /\ Copies(r) \subseteq Copies(r)'
        BY <1>1, <1>2, <1>5, <2>1
    <2>4. monitor[r] \in {"scanning", "watching"} => p \in Copies(r)'
        BY <1>1, <2>1, <2>2
    <2>5. QED
        BY <1>5, <2>3, <2>4 DEF Spawned, Completed
\* The monitor that looks at the copy p.
<1>6. ASSUME NEW r \in Servers, NEW p \in Copies(r), NEW queue \in Seq(Pod),
             ToSet(queue) \subseteq ToSet(events[r]),
             DeleteSpawnedCompletedPod(r, p, queue), UNCHANGED monitor,
             \A s \in Servers \ {r} : items'[s] = items[s],
             Copies(r) \subseteq ToSet(items'[r]) \cup ToSet(queue) \cup {p}
      PROVE  CompletedIsKnown'
    <2>1. /\ pods' \subseteq pods
          /\ \A s \in Servers \ {r} : ToSet(events[s]) \subseteq ToSet(events'[s])
          /\ ToSet(queue) \subseteq ToSet(events'[r])
          /\ r \notin Faulty /\ Spawned(r, p) => p \notin pods'
        BY <1>0, <1>6, DeleteStep
    <2>2. ASSUME NEW s \in Servers \ Faulty, s # r PROVE Known(s)'
        <3>1. Copies(s) \subseteq Copies(s)'
            BY <1>1, <1>6, <2>1, <2>2
        <3>2. QED
            BY <1>4, <1>6, <2>1, <3>1
    <2>3. ASSUME r \notin Faulty PROVE Known(r)'
        <3>1. Copies(r) \subseteq Copies(r)' \cup {p}
            BY <1>1, <1>6, <2>1
        <3>2. Known(r)
            BY <1>2, <2>3
        <3>3. QED
            BY <1>6, <2>1, <2>3, <3>1, <3>2 DEF Spawned, Completed
    <2>4. QED
        BY <1>3, <2>2, <2>3
<1>7. ASSUME NEW p \in pods, Complete(p) PROVE CompletedIsKnown'
    <2> DEFINE q == [p EXCEPT !.phase = "Completed"]
    <2>1. q \in Pod /\ pods' \subseteq pods \cup {q}
        BY <1>0, <1>7 DEF Complete, TypeOK, Pod
    <2>2. QED
        BY <1>3, <1>5, <1>7, <2>1 DEF Complete
<1>8. ASSUME NEW p \in pods, Evict(p) PROVE CompletedIsKnown'
    <2>1. p \in Pod /\ pods' \subseteq pods \cup {p}
        BY <1>0, <1>8 DEF Evict, TypeOK
    <2>2. QED
        BY <1>3, <1>5, <1>8, <2>1 DEF Evict
<1>9. ASSUME NEW r \in Servers, NEW name \in Names, Request(r, name) PROVE CompletedIsKnown'
    <2> DEFINE p == [name |-> name, id |-> created + 1, by |-> r, phase |-> "Running"]
    <2>1. p \in Pod /\ pods' \subseteq pods \cup {p}
        BY <1>9 DEF Request, TypeOK
    <2>2. QED
        BY <1>3, <1>5, <1>9, <2>1 DEF Request
<1>10. ASSUME NEW r \in Servers, ScanItem(r) PROVE CompletedIsKnown'
    <2>1. /\ Head(items[r]) \in ToSet(items[r]) /\ events[r] \in Seq(Pod)
          /\ ToSet(items[r]) \subseteq ToSet(Tail(items[r])) \cup {Head(items[r])}
        BY <1>0, <1>10, SetOfTail DEF ScanItem, TypeOK
    <2>2. /\ items'[r] = Tail(items[r]) /\ \A s \in Servers \ {r} : items'[s] = items[s]
          /\ DeleteSpawnedCompletedPod(r, Head(items[r]), events[r]) /\ UNCHANGED monitor
        BY <1>0, <1>10 DEF ScanItem, TypeOK
    <2>3. Head(items[r]) \in Copies(r)
        BY <1>1, <2>1
    <2>4. Copies(r) \subseteq ToSet(items'[r]) \cup ToSet(events[r]) \cup {Head(items[r])}
        BY <1>1, <2>1, <2>2
    <2>5. QED
        BY <1>6, <2>1, <2>2, <2>3, <2>4
<1>11. ASSUME NEW r \in Servers, HandleEvent(r) PROVE CompletedIsKnown'
    <2>1. /\ Head(events[r]) \in ToSet(events[r]) /\ Tail(events[r]) \in Seq(Pod)
          /\ ToSet(Tail(events[r])) \subseteq ToSet(events[r])
          /\ ToSet(events[r]) \subseteq ToSet(Tail(events[r])) \cup {Head(events[r])}
        BY <1>0, <1>11, SetOfTail DEF HandleEvent, TypeOK
    <2>2. /\ UNCHANGED <<items, monitor>>
          /\ DeleteSpawnedCompletedPod(r, Head(events[r]), Tail(events[r]))
        BY <1>11 DEF HandleEvent
    <2>3. Head(events[r]) \in Copies(r)
        BY <1>1, <2>1
    <2>4. Copies(r) \subseteq ToSet(items'[r]) \cup ToSet(Tail(events[r])) \cup {Head(events[r])}
        BY <1>1, <2>1, <2>2
    <2>5. QED
        BY <1>6, <2>1, <2>2, <2>3, <2>4
\* A monitor that starts or stops has nothing to know, one that lists learns of all.
<1>12. ASSUME NEW r \in Servers, UNCHANGED pods, r \notin Faulty => Known(r)',
              \A s \in Servers \ {r} :
                  monitor'[s] = monitor[s] /\ events'[s] = events[s] /\ items'[s] = items[s]
       PROVE  CompletedIsKnown'
    <2>1. ASSUME NEW s \in Servers \ Faulty, s # r PROVE Known(s)'
        BY <1>1, <1>4, <1>12, <2>1
    <2>2. QED
        BY <1>3, <1>12, <2>1
<1>13. ASSUME NEW r \in Servers, List(r) PROVE CompletedIsKnown'
    <2>1. PICK q \in SetToSeqs(pods) : items' = [items EXCEPT ![r] = q]
        BY <1>13 DEF List
    <2>2. ToSet(items'[r]) = pods /\ UNCHANGED pods
        BY <1>0, <1>13, <2>1, SetOfList DEF List, TypeOK
    <2>3. Known(r)'
        BY <1>1, <2>2
    <2>4. QED
        BY <1>0, <1>12, <1>13, <2>3 DEF List, TypeOK
<1>14. ASSUME NEW r \in Servers,
              NewServer(r) \/ NewServerBlind(r) \/ LoopEnds(r) \/ Stop(r)
       PROVE  CompletedIsKnown'
    <2>1. monitor'[r] \notin {"scanning", "watching"}
        BY <1>0, <1>14 DEF NewServer, NewServerBlind, LoopEnds, Stop, TypeOK
    <2>2. UNCHANGED pods /\ \A s \in Servers \ {r} :
             monitor'[s] = monitor[s] /\ events'[s] = events[s] /\ items'[s] = items[s]
        BY <1>0, <1>14 DEF NewServer, NewServerBlind, LoopEnds, Stop, TypeOK
    <2>3. QED
        BY <1>12, <2>1, <2>2
<1>15. ASSUME NEW r \in Servers, ListFails(r) \/ Scanned(r) PROVE CompletedIsKnown'
    <2>1. UNCHANGED <<pods, events, items>> /\ \A s \in Servers \ {r} : monitor'[s] = monitor[s]
        BY <1>0, <1>15 DEF ListFails, Scanned, TypeOK
    <2>2. ASSUME r \notin Faulty PROVE Known(r)'
        <3>1. monitor[r] = "scanning" /\ Known(r)
            BY <1>2, <1>15, <2>2 DEF ListFails, Scanned
        <3>2. QED
            BY <1>1, <2>1, <3>1 DEF Spawned, Completed
    <2>3. QED
        BY <1>12, <2>1, <2>2
<1>16. CASE UNCHANGED <<pods, monitor, events, items>>
    BY <1>1, <1>3, <1>4, <1>16
<1>17. QED
    BY <1>7, <1>8, <1>9, <1>10, <1>11, <1>13, <1>14, <1>15, <1>16
    DEF Next, MonitorCompletedPods, EndWatch, vars, monitorVars

\* A completed pod that the monitor of a faultless server has still to delete is
\* among what the List returned or in the events of the watch: opening the watch
\* before the List leaves no gap, whatever the other servers do meanwhile.
THEOREM CompletedKnown == Spec => []CompletedIsKnown
<1>1. Init => KInv
    BY InitTInv DEF Init, KInv, StaysOpen, CompletedIsKnown
<1>2. KInv /\ [Next]_vars => KInv'
    BY StepTInv, StepOpen, StepKnown DEF KInv, TInv
<1>3. KInv => CompletedIsKnown
    BY DEF KInv
<1>4. QED
    BY <1>1, <1>2, <1>3, PTL DEF Spec
=============================================================================
