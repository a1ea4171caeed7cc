-------------------------- MODULE NSFanoutProofs ---------------------------
(***************************************************************************)
(* Proofs about NSFanout, for any number of subscribers and events and any *)
(* size of the buffers, along the lines of NSEFanoutProofs: no lag here,   *)
(* but a list whose order matters and a walk along it.                     *)
(***************************************************************************)
EXTENDS NSFanout, SequenceTheorems, TLAPS

\* Where an update is in hand, it is one of the log.
Hand == \A s \in Subs : pc[s] \in {"received", "sending"} => held[s] \in 1 .. Len(log)

\* While sendEvent walks, its event is in the log.
Walk ==
    /\ remaining \in Seq(Subs)
    /\ remaining # <<>> => Len(log) \in 1 .. Len(log)

\* No subscriber is in the list, or a part of it, twice.
Distinct(q) == \A i, j \in 1 .. Len(q) : i # j => q[i] # q[j]

\* How far a subscriber has come: it is in the list while its cleanup goroutine
\* is armed or queued, its channel is closed once that has finished, and before
\* the first job of subscribeOnEvents has run nothing has happened to it.
Stage ==
    /\ Distinct(subscribers)
    /\ \A s \in Subs :
          /\ s \in ToSet(subscribers) <=> cleaner[s] \in {"armed", "queued"}
          /\ closed[s] <=> cleaner[s] = "finished"
          /\ cleaner[s] = "none" <=> pc[s] \in {"idle", "subscribing"}
          /\ cleaner[s] = "none" => channel[s] = <<>> /\ delivered[s] = <<>>

\* No two push jobs, and no two remove jobs, are of the same subscriber.
Unrepeated(q) ==
    \A i, j \in 1 .. Len(q) :
        i # j /\ q[i].type # "send" /\ q[i].type = q[j].type => q[i].sub # q[j].sub

\* The queue holds the first job of a subscriber only while its Find waits for
\* it, the second only when the cleanup goroutine has just put it there, and
\* neither of them twice.
Queue ==
    /\ \A i \in 1 .. Len(jobs) :
          /\ jobs[i].type = "push" => pc[jobs[i].sub] = "subscribing"
          /\ jobs[i].type = "remove" => cleaner[jobs[i].sub] = "queued"
    /\ Unrepeated(jobs)

\* 1 while an update is in hand.
InHand(s) == IF pc[s] \in {"received", "sending"} THEN 1 ELSE 0

\* 1 while the event of the running sendEvent is still to be put in the channel.
Missing(s) == IF s \in ToSet(remaining) THEN 1 ELSE 0

\* In hand and in the channel are the updates that follow the last one dealt
\* with, for a subscriber in the list up to the newest one it was served.
Contiguous(s) ==
    pc[s] \in Watching =>
        /\ \A j \in 1 .. Len(channel[s]) : channel[s][j] = cursor[s] + InHand(s) + j
        /\ s \in ToSet(subscribers) =>
              cursor[s] + InHand(s) + Len(channel[s]) + Missing(s) = Len(log)

\* The update in hand is the next one; what is being sent matches.
HeldIsNext(s) ==
    /\ pc[s] \in {"received", "sending"} => held[s] = cursor[s] + 1
    /\ pc[s] = "sending" => Matches(s, held[s])

WindowOf(s) == joined[s] <= cursor[s] /\ Contiguous(s) /\ HeldIsNext(s)

Window == \A s \in Subs : WindowOf(s)

\* What was delivered is what matched, each once and in order.
DeliveryOf(s) ==
    /\ \A j, k \in 1 .. Len(delivered[s]) : j < k => delivered[s][j] < delivered[s][k]
    /\ ToSet(delivered[s]) = {i \in joined[s] + 1 .. cursor[s] : Matches(s, i)}

Delivery == \A s \in Subs : DeliveryOf(s)

TInv == TypeOK /\ Hand /\ Walk

IInv == TInv /\ Stage /\ Queue /\ Window /\ Delivery
-----------------------------------------------------------------------------
(***************************************************************************)
(* Sequences, the sets of their elements, and their ends.                  *)
(***************************************************************************)

\* The elements of a sequence are of its type.
LEMMA SetOfSeq ==
    ASSUME NEW S, NEW s \in Seq(S)
    PROVE  /\ ToSet(s) \subseteq S
           /\ \A e : e \in ToSet(s) <=> \E i \in 1 .. Len(s) : s[i] = e
    BY DEF ToSet

\* A walk that is over has nobody left to serve.
LEMMA SetOfEmpty == ToSet(<<>>) = {}
    BY DEF ToSet

\* PushBack adds one element at the end; it is new if it was not in the list.
LEMMA AppendSet ==
    ASSUME NEW S, NEW q \in Seq(S), NEW e \in S
    PROVE  /\ Append(q, e) \in Seq(S)
           /\ ToSet(Append(q, e)) = ToSet(q) \cup {e}
           /\ Distinct(q) /\ e \notin ToSet(q) => Distinct(Append(q, e))
<1> DEFINE r == Append(q, e)
           n == Len(q)
<1>1. /\ r \in Seq(S) /\ Len(r) = n + 1 /\ n \in Nat
      /\ \A i \in 1 .. n : r[i] = q[i]
      /\ r[n + 1] = e
    OBVIOUS
<1> HIDE DEF r
<1>2. 1 .. n + 1 = (1 .. n) \cup {n + 1}
    BY <1>1
<1>3. ASSUME NEW x PROVE x \in ToSet(r) <=> x \in ToSet(q) \cup {e}
    <2>1. x \in ToSet(r) <=> \E i \in 1 .. n + 1 : r[i] = x
        BY <1>1, SetOfSeq
    <2>2. x \in ToSet(q) <=> \E i \in 1 .. n : q[i] = x
        BY SetOfSeq
    <2>3. QED
        BY <1>1, <1>2, <2>1, <2>2
<1>4. ASSUME Distinct(q), e \notin ToSet(q) PROVE Distinct(r)
    <2>1. SUFFICES ASSUME NEW i \in 1 .. n + 1, NEW j \in 1 .. n + 1, i # j
                   PROVE  r[i] # r[j]
        BY <1>1 DEF Distinct
    <2>2. \A k \in 1 .. n : q[k] # e
        BY <1>4, SetOfSeq
    <2>3. QED
        BY <1>1, <1>2, <1>4, <2>1, <2>2 DEF Distinct
<1>5. QED
    BY <1>1, <1>3, <1>4 DEF r

\* A step of the walk: the first element, and no other, is taken from the rest.
LEMMA TailSet ==
    ASSUME NEW S, NEW q \in Seq(S), q # <<>>, Distinct(q)
    PROVE  /\ Tail(q) \in Seq(S)
           /\ Head(q) \in ToSet(q)
           /\ ToSet(Tail(q)) = ToSet(q) \ {Head(q)}
<1> DEFINE r == Tail(q)
           n == Len(r)
<1>1. /\ r \in Seq(S) /\ n \in Nat /\ Len(q) = n + 1
      /\ Head(q) = q[1]
      /\ \A i \in 1 .. n : r[i] = q[i + 1]
    BY HeadTailProperties
<1> HIDE DEF r
<1>2. 1 \in 1 .. n + 1 /\ \A i \in 1 .. n : i + 1 \in 1 .. n + 1 /\ i + 1 # 1
    BY <1>1
<1>3. \A i \in 1 .. n + 1 : i # 1 => i - 1 \in 1 .. n /\ (i - 1) + 1 = i
    BY <1>1
<1>4. \A x : x \in ToSet(q) <=> \E i \in 1 .. n + 1 : q[i] = x
    BY <1>1, SetOfSeq
<1>5. \A x : x \in ToSet(r) <=> \E i \in 1 .. n : r[i] = x
    BY <1>1, SetOfSeq
<1>6. ASSUME NEW x \in ToSet(r) PROVE x \in ToSet(q) /\ x # q[1]
    <2>1. PICK i \in 1 .. n : r[i] = x
        BY <1>5, <1>6
    <2>2. i + 1 \in 1 .. n + 1 /\ i + 1 # 1 /\ q[i + 1] = x
        BY <1>1, <1>2, <2>1
    <2>3. QED
        BY <1>1, <1>2, <1>4, <2>2 DEF Distinct
<1>7. ASSUME NEW x \in ToSet(q), x # q[1] PROVE x \in ToSet(r)
    <2>1. PICK i \in 1 .. n + 1 : q[i] = x
        BY <1>4, <1>7
    <2>2. i - 1 \in 1 .. n /\ r[i - 1] = q[i]
        BY <1>1, <1>3, <1>7, <2>1
    <2>3. QED
        BY <1>5, <2>1, <2>2
<1>8. q[1] \in ToSet(q)
    BY <1>2, <1>4
<1>9. QED
    BY <1>1, <1>6, <1>7, <1>8 DEF r

\* Remove takes the one element at its place out of the list.
LEMMA RemoveSet ==
    ASSUME NEW S, NEW q \in Seq(S), Distinct(q), NEW i \in 1 .. Len(q)
    PROVE  /\ RemoveAt(q, i) \in Seq(S)
           /\ ToSet(RemoveAt(q, i)) = ToSet(q) \ {q[i]}
           /\ Distinct(RemoveAt(q, i))
<1> DEFINE r == RemoveAt(q, i)
           n == Len(q)
           a == SubSeq(q, 1, i - 1)
           b == SubSeq(q, i + 1, n)
<1>1. n \in Nat /\ i \in Nat /\ 1 <= i /\ i <= n /\ \A k \in 1 .. n : q[k] \in S
    BY ElementOfSeq
<1>2. /\ a \in Seq(S) /\ Len(a) = i - 1
      /\ \A k \in 1 .. i - 1 : a[k] = q[k]
    BY <1>1, SubSeqProperties
<1>3. /\ b \in Seq(S) /\ Len(b) = n - i
      /\ \A k \in 1 .. n - i : b[k] = q[k + i]
    BY <1>1, SubSeqProperties
<1> HIDE DEF a, b
<1>4. /\ a \o b \in Seq(S) /\ Len(a \o b) = n - 1
      /\ \A k \in 1 .. n - 1 : (a \o b)[k] = IF k < i THEN q[k] ELSE q[k + 1]
    <2>1. /\ a \o b \in Seq(S) /\ Len(a \o b) = Len(a) + Len(b)
          /\ \A k \in 1 .. Len(a) + Len(b) :
                (a \o b)[k] = IF k <= Len(a) THEN a[k] ELSE b[k - Len(a)]
        BY <1>2, <1>3, ConcatProperties
    <2>2. Len(a) + Len(b) = n - 1
        BY <1>1, <1>2, <1>3
    <2>3. ASSUME NEW k \in 1 .. n - 1, k < i PROVE (a \o b)[k] = q[k]
        BY <1>1, <1>2, <2>1, <2>2, <2>3
    <2>4. ASSUME NEW k \in 1 .. n - 1, ~(k < i) PROVE (a \o b)[k] = q[k + 1]
        <3>1. /\ k - (i - 1) \in 1 .. n - i /\ (k - (i - 1)) + i = k + 1
              /\ ~(k <= i - 1)
            BY <1>1, <2>4
        <3>2. (a \o b)[k] = b[k - (i - 1)]
            BY <1>2, <2>1, <2>2, <3>1
        <3>3. QED
            BY <1>3, <3>1, <3>2
    <2>5. QED
        BY <2>1, <2>2, <2>3, <2>4
<1>5. r = a \o b
    BY DEF RemoveAt, a, b
<1> HIDE DEF r
<1> DEFINE Old(k) == IF k < i THEN k ELSE k + 1
<1>6. /\ r \in Seq(S) /\ Len(r) = n - 1
      /\ \A k \in 1 .. n - 1 : r[k] = q[Old(k)] /\ Old(k) \in 1 .. n /\ Old(k) # i
    BY <1>1, <1>4, <1>5
<1>7. \A k \in 1 .. n : k # i => \E l \in 1 .. n - 1 : Old(l) = k
    <2>1. SUFFICES ASSUME NEW k \in 1 .. n, k # i PROVE \E l \in 1 .. n - 1 : Old(l) = k
        OBVIOUS
    <2>2. CASE k < i
        <3>1. k \in 1 .. n - 1 /\ Old(k) = k
            BY <1>1, <2>2
        <3>2. QED
            BY <3>1
    <2>3. CASE k > i
        <3>1. k - 1 \in 1 .. n - 1 /\ Old(k - 1) = k
            BY <1>1, <2>3
        <3>2. QED
            BY <3>1
    <2>4. QED
        BY <1>1, <2>1, <2>2, <2>3
<1>8. \A k, l \in 1 .. n - 1 : k # l => Old(k) # Old(l)
    BY <1>1
<1> HIDE DEF Old
<1>9. Distinct(r)
    BY <1>6, <1>8 DEF Distinct
<1>10. \A x : x \in ToSet(q) <=> \E k \in 1 .. n : q[k] = x
    BY SetOfSeq
<1>11. \A x : x \in ToSet(r) <=> \E k \in 1 .. n - 1 : r[k] = x
    BY <1>6, SetOfSeq
<1>12. ASSUME NEW x \in ToSet(r) PROVE x \in ToSet(q) /\ x # q[i]
    <2>1. PICK k \in 1 .. n - 1 : r[k] = x
        BY <1>11, <1>12
    <2>2. q[Old(k)] = x /\ Old(k) \in 1 .. n /\ Old(k) # i
        BY <1>6, <2>1
    <2>3. QED
        BY <1>10, <2>2 DEF Distinct
<1>13. ASSUME NEW x \in ToSet(q), x # q[i] PROVE x \in ToSet(r)
    <2>1. PICK k \in 1 .. n : q[k] = x
        BY <1>10, <1>13
    <2>2. PICK l \in 1 .. n - 1 : Old(l) = k
        BY <1>7, <1>13, <2>1
    <2>3. QED
        BY <1>6, <1>11, <2>1, <2>2
<1>14. QED
    BY <1>6, <1>9, <1>12, <1>13 DEF r

\* IsSuffix compares the ends of two sequences.
LEMMA SuffixEnds ==
    ASSUME NEW S, NEW r \in Seq(S), NEW q \in Seq(S)
    PROVE  IsSuffix(r, q) <=>
              Len(r) <= Len(q) /\ \A i \in 1 .. Len(r) : r[i] = q[Len(q) - Len(r) + i]
<1> DEFINE m == Len(r)
           n == Len(q)
           a == Reverse(r)
           b == Reverse(q)
<1>1. m \in Nat /\ n \in Nat
    OBVIOUS
<1>2. /\ a \in Seq(S) /\ Len(a) = m
      /\ \A i \in 1 .. m : a[i] = r[m - i + 1]
    BY <1>1 DEF Reverse
<1>3. /\ b \in Seq(S) /\ Len(b) = n
      /\ \A i \in 1 .. n : b[i] = q[n - i + 1]
    BY <1>1 DEF Reverse
<1> HIDE DEF a, b
<1>4. IsSuffix(r, q) <=> m <= n /\ SubSeq(a, 1, m) = SubSeq(b, 1, m)
    BY <1>2, <1>3 DEF IsSuffix, IsPrefix, a, b
<1>5. CASE m <= n
    <2>1. /\ SubSeq(a, 1, m) \in Seq(S) /\ Len(SubSeq(a, 1, m)) = m
          /\ \A i \in 1 .. m : SubSeq(a, 1, m)[i] = a[i]
        BY <1>1, <1>2
    <2>2. /\ SubSeq(b, 1, m) \in Seq(S) /\ Len(SubSeq(b, 1, m)) = m
          /\ \A i \in 1 .. m : SubSeq(b, 1, m)[i] = b[i]
        BY <1>1, <1>3, <1>5
    <2>3. SubSeq(a, 1, m) = SubSeq(b, 1, m) <=> \A i \in 1 .. m : a[i] = b[i]
        BY <2>1, <2>2, SeqEqual
    <2>4. ASSUME NEW i \in 1 .. m PROVE a[i] = b[i] <=> r[m - i + 1] = q[n - i + 1]
        <3>1. i \in 1 .. n
            BY <1>1, <1>5
        <3>2. a[i] = r[m - i + 1]
            BY <1>2
        <3>3. b[i] = q[n - i + 1]
            BY <1>3, <3>1
        <3>4. QED
            BY <3>2, <3>3
    <2>5. (\A i \in 1 .. m : r[m - i + 1] = q[n - i + 1])
              <=> \A i \in 1 .. m : r[i] = q[n - m + i]
        <3>1. \A i \in 1 .. m : /\ m - i + 1 \in 1 .. m
                                /\ m - (m - i + 1) + 1 = i
                                /\ n - (m - i + 1) + 1 = n - m + i
                                /\ n - m + (m - i + 1) = n - i + 1
            BY <1>1
        <3>2. QED
            BY <3>1
    <2>6. QED
        BY <1>4, <1>5, <2>3, <2>4, <2>5
<1>6. QED
    BY <1>4, <1>5

\* Every sequence ends with itself and with nothing, and the tail of one of its
\* ends is one.
LEMMA SuffixKept ==
    ASSUME NEW S, NEW r \in Seq(S), NEW q \in Seq(S)
    PROVE  /\ IsSuffix(q, q)
           /\ IsSuffix(<<>>, q)
           /\ IsSuffix(r, q) /\ r # <<>> => IsSuffix(Tail(r), q)
<1>1. IsSuffix(q, q)
    BY SuffixEnds
<1>2. IsSuffix(<<>>, q)
    <2>1. <<>> \in Seq(S) /\ Len(<<>>) = 0 /\ Len(q) \in Nat
        BY EmptySeq
    <2>2. Len(<<>>) <= Len(q) /\ \A i \in 1 .. Len(<<>>) : <<>>[i] = q[Len(q) - Len(<<>>) + i]
        BY <2>1
    <2>3. QED
        BY <2>1, <2>2, SuffixEnds
<1>3. ASSUME IsSuffix(r, q), r # <<>> PROVE IsSuffix(Tail(r), q)
    <2>1. Len(r) <= Len(q) /\ \A i \in 1 .. Len(r) : r[i] = q[Len(q) - Len(r) + i]
        BY <1>3, SuffixEnds
    <2>2. /\ Tail(r) \in Seq(S) /\ Len(r) \in Nat /\ Len(q) \in Nat
          /\ Len(Tail(r)) = Len(r) - 1
          /\ \A i \in 1 .. Len(Tail(r)) : Tail(r)[i] = r[i + 1] /\ i + 1 \in 1 .. Len(r)
        BY <1>3, HeadTailProperties
    <2>3. ASSUME NEW i \in 1 .. Len(Tail(r))
          PROVE  Tail(r)[i] = q[Len(q) - Len(Tail(r)) + i]
        <3>1. Len(q) - Len(r) + (i + 1) = Len(q) - Len(Tail(r)) + i
            BY <2>2
        <3>2. QED
            BY <2>1, <2>2, <3>1
    <2>4. Len(Tail(r)) <= Len(q)
        BY <2>1, <2>2
    <2> DEFINE u == Tail(r)
    <2>5. /\ u \in Seq(S) /\ Len(u) <= Len(q)
          /\ \A i \in 1 .. Len(u) : u[i] = q[Len(q) - Len(u) + i]
        BY <2>2, <2>3, <2>4
    <2> HIDE DEF u
    <2>6. IsSuffix(u, q)
        BY <2>5, SuffixEnds
    <2>7. QED
        BY <2>6 DEF u
<1>4. QED
    BY <1>1, <1>2, <1>3

\* An end of a list without repetitions has none, and lists nobody else.
LEMMA SuffixSet ==
    ASSUME NEW S, NEW r \in Seq(S), NEW q \in Seq(S), IsSuffix(r, q)
    PROVE  /\ ToSet(r) \subseteq ToSet(q)
           /\ Distinct(q) => Distinct(r)
<1>1. /\ Len(r) \in Nat /\ Len(q) \in Nat /\ Len(r) <= Len(q)
      /\ \A i \in 1 .. Len(r) : r[i] = q[Len(q) - Len(r) + i]
    BY SuffixEnds
<1>2. \A i \in 1 .. Len(r) : Len(q) - Len(r) + i \in 1 .. Len(q)
    BY <1>1
<1>3. ASSUME NEW x \in ToSet(r) PROVE x \in ToSet(q)
    <2>1. PICK i \in 1 .. Len(r) : r[i] = x
        BY <1>3, SetOfSeq
    <2>2. QED
        BY <1>1, <1>2, <2>1, SetOfSeq
<1>4. ASSUME Distinct(q), NEW i \in 1 .. Len(r), NEW j \in 1 .. Len(r), i # j
      PROVE  r[i] # r[j]
    <2>1. Len(q) - Len(r) + i # Len(q) - Len(r) + j
        BY <1>1, <1>4
    <2>2. QED
        BY <1>1, <1>2, <1>4, <2>1 DEF Distinct
<1>5. QED
    BY <1>3, <1>4 DEF Distinct
-----------------------------------------------------------------------------
(***************************************************************************)
(* Type correctness.                                                       *)
(***************************************************************************)

\* The next job is one of a type that names its own fields.
LEMMA HeadJob ==
    ASSUME TypeOK, jobs # <<>>
    PROVE  /\ Tail(jobs) \in Seq(Job)
           /\ Head(jobs).type = "send" => Head(jobs).event \in Events
           /\ Head(jobs).type \in {"push", "remove"} => Head(jobs).sub \in Subs
<1>1. Head(jobs) \in Job /\ Tail(jobs) \in Seq(Job)
    BY HeadTailProperties DEF TypeOK
<1>2. QED
    BY <1>1 DEF Job

\* What fits a shorter log fits a longer one.
LEMMA SeqGrows ==
    ASSUME NEW m \in Nat, NEW q \in Seq(1 .. m)
    PROVE  q \in Seq(1 .. m + 1)
<1>1. 1 .. m \subseteq 1 .. m + 1
    OBVIOUS
<1>2. QED
    BY <1>1, SeqMonotonic

\* Types hold at the start ...
LEMMA InitTInv == Init => TInv
<1> SUFFICES ASSUME Init PROVE TInv
    OBVIOUS
<1>1. Len(log) = 0 /\ BufferSize \in Nat
    BY FanoutAssumption DEF Init
<1>2. subscribers \in Seq(Subs) /\ remaining \in Seq(Subs) /\ IsSuffix(remaining, subscribers)
    <2>1. <<>> \in Seq(Subs)
        BY EmptySeq
    <2>2. IsSuffix(<<>>, <<>>)
        BY <2>1, SuffixKept
    <2>3. QED
        BY <2>1, <2>2 DEF Init
<1>3. QED
    BY <1>1, <1>2 DEF Init, TInv, TypeOK, Hand, Walk, Watching, Returned

\* Where a Find goroutine goes on, with another update in hand or none, the rest
\* of the server stays as it is.
LEMMA FindTInv ==
    ASSUME TInv, NEW s \in Subs, NEW h \in 0 .. Len(log),
           NEW p \in {"idle", "subscribing"} \cup Watching \cup Returned,
           UNCHANGED <<executorVars, closed, cleaner, joined>>,
           pc' = [pc EXCEPT ![s] = p],
           held' = [held EXCEPT ![s] = h],
           p \in {"received", "sending"} => h # 0,
           ctxDone' \in {ctxDone, [ctxDone EXCEPT ![s] = TRUE]},
           cursor' \in {cursor, [cursor EXCEPT ![s] = held[s]]},
           \/ channel' = channel
           \/ /\ channel' \in [Subs -> Seq(1 .. Len(log))]
              /\ \A t \in Subs : Len(channel'[t]) <= BufferSize,
           delivered' = delivered \/ delivered' \in [Subs -> Seq(1 .. Len(log))]
    PROVE  TInv'
<1>0. TypeOK /\ Hand /\ Walk /\ Len(log) \in Nat
    BY DEF TInv, TypeOK
<1>1. UNCHANGED <<jobs, subscribers, remaining, log, closed, cleaner, joined>>
    BY DEF executorVars
<1>2. /\ pc' \in [Subs -> {"idle", "subscribing"} \cup Watching \cup Returned] /\ pc'[s] = p
      /\ held' \in [Subs -> 0 .. Len(log)] /\ held'[s] = h
      /\ \A t \in Subs \ {s} : pc'[t] = pc[t] /\ held'[t] = held[t]
    BY <1>0 DEF TypeOK
<1>3. /\ ctxDone' \in [Subs -> BOOLEAN] /\ cursor' \in [Subs -> 0 .. Len(log)]
      /\ delivered' \in [Subs -> Seq(1 .. Len(log))]
    <2>1. /\ ctxDone \in [Subs -> BOOLEAN] /\ cursor \in [Subs -> 0 .. Len(log)]
          /\ held[s] \in 0 .. Len(log)
          /\ delivered \in [Subs -> Seq(1 .. Len(log))]
        BY <1>0 DEF TypeOK
    <2>2. ctxDone' \in [Subs -> BOOLEAN]
        BY <2>1
    <2>3. cursor' \in [Subs -> 0 .. Len(log)]
        BY <2>1
    <2>4. QED
        BY <2>1, <2>2, <2>3
<1>4. /\ channel' \in [Subs -> Seq(1 .. Len(log))]
      /\ \A t \in Subs : Len(channel'[t]) <= BufferSize
    BY <1>0 DEF TypeOK
<1>5. TypeOK'
    BY <1>0, <1>1, <1>2, <1>3, <1>4 DEF TypeOK
<1>6. ASSUME NEW t \in Subs, pc'[t] \in {"received", "sending"} PROVE held'[t] \in 1 .. Len(log')
    <2>1. CASE t = s
        <3>1. h # 0
            BY <1>2, <1>6, <2>1
        <3>2. QED
            BY <1>0, <1>1, <1>2, <2>1, <3>1
    <2>2. CASE t # s
        BY <1>0, <1>1, <1>2, <1>6, <2>2 DEF Hand
    <2>3. QED
        BY <2>1, <2>2
<1>7. Walk'
    BY <1>0, <1>1 DEF Walk
<1>8. QED
    BY <1>5, <1>6, <1>7 DEF TInv, Hand

\* ... and every step keeps them.
LEMMA StepTInv == TInv /\ [Next]_vars => TInv'
<1> SUFFICES ASSUME TInv, [Next]_vars PROVE TInv'
    OBVIOUS
<1> USE FanoutAssumption
<1>0. /\ TypeOK /\ Hand /\ Walk /\ Len(log) \in Nat
      /\ subscribers \in Seq(Subs) /\ remaining \in Seq(Subs)
    BY DEF TInv, TypeOK, Walk
<1>1. ASSUME NEW e \in Events, Broadcast(e) PROVE TInv'
    <2>1. SendJob(e) \in Job
        BY DEF SendJob, Job
    <2>2. jobs' \in Seq(Job)
        BY <1>0, <1>1, <2>1 DEF Broadcast, AsyncExec, TypeOK
    <2>3. QED
        BY <1>0, <1>1, <2>2 DEF Broadcast, TInv, TypeOK, Hand, Walk, findVars, history
<1>2. CASE StartSendEvent
    <2>1. /\ jobs' \in Seq(Job)
          /\ log' \in Seq(Events)
          /\ Len(log') = Len(log) + 1
        BY <1>0, <1>2, HeadJob DEF StartSendEvent, NextJob, TypeOK
    <2>2. /\ channel' \in [Subs -> Seq(1 .. Len(log'))]
          /\ \A s \in Subs : Len(channel'[s]) <= BufferSize
        BY <1>0, <1>2, <2>1, SeqGrows DEF StartSendEvent, TypeOK
    <2>3. delivered' \in [Subs -> Seq(1 .. Len(log'))]
        BY <1>0, <1>2, <2>1, SeqGrows DEF StartSendEvent, TypeOK, history
    <2>4. /\ held' \in [Subs -> 0 .. Len(log')]
          /\ joined' \in [Subs -> 0 .. Len(log')]
          /\ cursor' \in [Subs -> 0 .. Len(log')]
        <3>1. \A i \in 0 .. Len(log) : i \in 0 .. Len(log')
            BY <1>0, <2>1
        <3>2. UNCHANGED <<held, joined, cursor>>
            BY <1>2 DEF StartSendEvent, findVars, history
        <3>3. /\ held \in [Subs -> 0 .. Len(log)]
              /\ joined \in [Subs -> 0 .. Len(log)]
              /\ cursor \in [Subs -> 0 .. Len(log)]
            BY <1>0 DEF TypeOK
        <3>4. QED
            BY <3>1, <3>2, <3>3
    <2>5. Hand'
        BY <1>0, <1>2, <2>1 DEF StartSendEvent, Hand, findVars
    <2>6. Walk'
        BY <1>0, <1>2, <2>1 DEF StartSendEvent, Walk
    <2>7. subscribers' \in Seq(Subs) /\ IsSuffix(remaining', subscribers')
        BY <1>0, <1>2, SuffixKept DEF StartSendEvent
    <2>8. /\ closed' = closed /\ pc' = pc /\ ctxDone' = ctxDone /\ cleaner' = cleaner
        BY <1>2 DEF StartSendEvent, findVars
    <2>9. TypeOK'
        BY <1>0, <2>1, <2>2, <2>3, <2>4, <2>7, <2>8 DEF TypeOK
    <2>10. QED
        BY <2>5, <2>6, <2>9 DEF TInv
<1>3. CASE SendToNode
    <2> DEFINE s == Head(remaining)
    <2>1. remaining # <<>> /\ s \in Subs /\ Tail(remaining) \in Seq(Subs)
        BY <1>0, <1>3, HeadTailProperties DEF SendToNode
    <2>2. /\ channel' \in [Subs -> Seq(1 .. Len(log))]
          /\ \A t \in Subs : Len(channel'[t]) <= BufferSize
        <3>0. ~Full(s)
            BY <1>3 DEF SendToNode
        <3>1. channel[s] \in Seq(1 .. Len(log)) /\ Len(channel[s]) < BufferSize
            <4> HIDE DEF s
            <4>1. channel[s] \in Seq(1 .. Len(log)) /\ Len(channel[s]) <= BufferSize
                BY <1>0, <2>1 DEF TypeOK
            <4>2. QED
                BY <3>0, <4>1 DEF Full
        <3>2. Len(log) \in 1 .. Len(log)
            BY <1>0, <2>1 DEF Walk
        <3>3. /\ Append(channel[s], Len(log)) \in Seq(1 .. Len(log))
              /\ Len(Append(channel[s], Len(log))) <= BufferSize
            BY <3>1, <3>2
        <3>4. channel' = [channel EXCEPT ![s] = Append(channel[s], Len(log))]
            BY <1>3 DEF SendToNode
        <3> HIDE DEF s
        <3>5. QED
            BY <1>0, <2>1, <3>3, <3>4 DEF TypeOK
    <2>3. IsSuffix(remaining', subscribers)
        BY <1>0, <1>3, <2>1, SuffixKept DEF SendToNode, TypeOK
    <2>4. /\ UNCHANGED <<jobs, subscribers, log, closed, cleaner>>
          /\ UNCHANGED <<pc, held, ctxDone, joined, cursor, delivered>>
          /\ remaining' = Tail(remaining)
        BY <1>3 DEF SendToNode, findVars, history
    <2>5. TypeOK'
        BY <1>0, <2>2, <2>3, <2>4 DEF TypeOK
    <2>6. Hand' /\ Walk'
        BY <1>0, <2>1, <2>4 DEF Hand, Walk
    <2>7. QED
        BY <2>5, <2>6 DEF TInv
<1>4. CASE PushBack
    <2>1. /\ Head(jobs).sub \in Subs
          /\ jobs' \in Seq(Job)
        BY <1>0, <1>4, HeadJob DEF PushBack, NextJob
    <2>2. /\ UNCHANGED <<remaining, log, channel, closed>>
          /\ UNCHANGED <<held, ctxDone, delivered>>
          /\ remaining = <<>>
        BY <1>4 DEF PushBack, NextJob
    <2>3. subscribers' \in Seq(Subs)
        BY <1>0, <1>4, <2>1 DEF PushBack
    <2>4. IsSuffix(remaining', subscribers')
        BY <1>0, <2>2, <2>3, SuffixKept
    <2>5. /\ pc' \in [Subs -> {"idle", "subscribing"} \cup Watching \cup Returned]
          /\ cleaner' \in [Subs -> {"none", "armed", "queued", "finished"}]
        BY <1>0, <1>4, <2>1 DEF PushBack, TypeOK, Watching
    <2>6. joined' \in [Subs -> 0 .. Len(log)] /\ cursor' \in [Subs -> 0 .. Len(log)]
        BY <1>0, <1>4, <2>1 DEF PushBack, TypeOK
    <2>7. TypeOK'
        BY <1>0, <2>1, <2>2, <2>3, <2>4, <2>5, <2>6 DEF TypeOK
    <2>8. Hand'
        BY <1>0, <1>4, <2>1, <2>2 DEF PushBack, Hand, TypeOK
    <2>9. QED
        BY <1>0, <2>2, <2>7, <2>8 DEF TInv, Walk
<1>5. CASE RemoveClose
    <2>1. /\ Head(jobs).sub \in Subs
          /\ jobs' \in Seq(Job)
        BY <1>0, <1>5, HeadJob DEF RemoveClose, NextJob
    <2>2. /\ UNCHANGED <<remaining, log, channel>>
          /\ UNCHANGED <<pc, held, ctxDone, joined, cursor, delivered>>
          /\ remaining = <<>>
        BY <1>5 DEF RemoveClose, NextJob, findVars, history
    <2>3. subscribers' \in Seq(Subs)
        <3>1. PICK i \in 1 .. Len(subscribers) : subscribers' = RemoveAt(subscribers, i)
            BY <1>5 DEF RemoveClose, RemoveNode
        <3>2. /\ SubSeq(subscribers, 1, i - 1) \in Seq(Subs)
              /\ SubSeq(subscribers, i + 1, Len(subscribers)) \in Seq(Subs)
            BY <1>0
        <3>3. QED
            BY <3>1, <3>2, ConcatProperties DEF RemoveAt
    <2>4. IsSuffix(remaining', subscribers')
        BY <1>0, <2>2, <2>3, SuffixKept
    <2>5. /\ closed' \in [Subs -> BOOLEAN]
          /\ cleaner' \in [Subs -> {"none", "armed", "queued", "finished"}]
        BY <1>0, <1>5, <2>1 DEF RemoveClose, TypeOK
    <2>6. TypeOK'
        BY <1>0, <2>1, <2>2, <2>3, <2>4, <2>5 DEF TypeOK
    <2>7. QED
        BY <1>0, <2>2, <2>6 DEF TInv, Hand, Walk
<1>6. ASSUME NEW s \in Subs, Subscribe(s) PROVE TInv'
    <2>1. jobs' \in Seq(Job)
        BY <1>0, <1>6 DEF Subscribe, AsyncExec, PushJob, Job, TypeOK
    <2>2. QED
        BY <1>0, <1>6, <2>1 DEF Subscribe, TInv, TypeOK, Hand, Walk, history
<1>7. ASSUME NEW s \in Subs, Disconnect(s) PROVE TInv'
    BY <1>0, <1>7 DEF Disconnect, executorVars, TInv, TypeOK, Hand, Walk, history
<1>8. ASSUME NEW s \in Subs, Cleanup(s) PROVE TInv'
    <2>1. jobs' \in Seq(Job)
        BY <1>0, <1>8 DEF Cleanup, AsyncExec, RemoveJob, Job, TypeOK
    <2>2. QED
        BY <1>0, <1>8, <2>1 DEF Cleanup, TInv, TypeOK, Hand, Walk, findVars, history
<1>9. ASSUME NEW s \in Subs, Receive(s) PROVE TInv'
    <2>1. /\ Head(channel[s]) \in 1 .. Len(log)
          /\ Tail(channel[s]) \in Seq(1 .. Len(log))
          /\ Len(Tail(channel[s])) <= BufferSize
        <3> DEFINE q == channel[s]
                   L == 1 .. Len(log)
        <3>1. q \in Seq(L) /\ q # <<>> /\ Len(q) <= BufferSize
            BY <1>0, <1>9 DEF Receive, TypeOK
        <3> HIDE DEF q, L
        <3>2. Head(q) \in L /\ Tail(q) \in Seq(L) /\ Len(Tail(q)) = Len(q) - 1
            BY <3>1, HeadTailProperties
        <3>3. Len(Tail(q)) <= BufferSize
            BY <3>1, <3>2, FanoutAssumption, LenProperties DEF FanoutAssumption
        <3>4. QED
            BY <3>2, <3>3 DEF q, L
    <2>2. /\ channel' \in [Subs -> Seq(1 .. Len(log))]
          /\ \A t \in Subs : Len(channel'[t]) <= BufferSize
        BY <1>0, <1>9, <2>1 DEF Receive, TypeOK
    <2>3. /\ pc' = [pc EXCEPT ![s] = "received"]
          /\ held' = [held EXCEPT ![s] = Head(channel[s])]
          /\ UNCHANGED <<executorVars, closed, ctxDone, cleaner, joined, cursor, delivered>>
        BY <1>9 DEF Receive, history
    <2>4. /\ Head(channel[s]) \in 0 .. Len(log) /\ Head(channel[s]) # 0
          /\ "received" \in {"idle", "subscribing"} \cup Watching \cup Returned
        BY <2>1 DEF Watching
    <2>5. QED
        BY <2>2, <2>3, <2>4, FindTInv
<1>10. ASSUME NEW s \in Subs, NEW outcome \in Returned, Return(s, outcome),
             UNCHANGED <<executorVars, channel, closed, cleaner, history>>
      PROVE  TInv'
    <2>1. /\ outcome \in {"idle", "subscribing"} \cup Watching \cup Returned
          /\ outcome \notin {"received", "sending"}
          /\ 0 \in 0 .. Len(log)
        BY <1>0 DEF Returned
    <2>2. /\ pc' = [pc EXCEPT ![s] = outcome] /\ held' = [held EXCEPT ![s] = 0]
          /\ ctxDone' = [ctxDone EXCEPT ![s] = TRUE]
          /\ UNCHANGED <<executorVars, channel, closed, cleaner, joined, cursor, delivered>>
        BY <1>10 DEF Return, history
    <2>3. QED
        BY <2>1, <2>2, FindTInv
<1>11. ASSUME NEW s \in Subs, SkipUpdate(s) PROVE TInv'
    <2>1. "receiving" \in {"idle", "subscribing"} \cup Watching \cup Returned /\ 0 \in 0 .. Len(log)
        BY <1>0 DEF Watching
    <2>2. /\ pc' = [pc EXCEPT ![s] = "receiving"] /\ held' = [held EXCEPT ![s] = 0]
          /\ cursor' = [cursor EXCEPT ![s] = held[s]]
          /\ UNCHANGED <<executorVars, channel, closed, ctxDone, cleaner, joined, delivered>>
        BY <1>11 DEF SkipUpdate
    <2>3. QED
        BY <2>1, <2>2, FindTInv
<1>12. ASSUME NEW s \in Subs, StartSend(s) PROVE TInv'
    <2>1. /\ "sending" \in {"idle", "subscribing"} \cup Watching \cup Returned
          /\ held[s] \in 0 .. Len(log)
        BY <1>0 DEF TypeOK, Watching
    <2>2. held[s] # 0
        BY <1>0, <1>12 DEF StartSend, Hand
    <2>3. held' = [held EXCEPT ![s] = held[s]]
        BY <1>0, <1>12 DEF StartSend, TypeOK
    <2>4. /\ pc' = [pc EXCEPT ![s] = "sending"]
          /\ UNCHANGED <<executorVars, channel, closed, ctxDone, cleaner, joined, cursor,
                         delivered>>
        BY <1>12 DEF StartSend, history
    <2>5. QED
        BY <2>1, <2>2, <2>3, <2>4, FindTInv
<1>13. ASSUME NEW s \in Subs, SendOk(s) PROVE TInv'
    <2>1. "receiving" \in {"idle", "subscribing"} \cup Watching \cup Returned /\ 0 \in 0 .. Len(log)
        BY <1>0 DEF Watching
    <2>2. Append(delivered[s], held[s]) \in Seq(1 .. Len(log))
        BY <1>0, <1>13 DEF SendOk, TypeOK, Hand
    <2>3. delivered' \in [Subs -> Seq(1 .. Len(log))]
        BY <1>0, <1>13, <2>2 DEF SendOk, TypeOK
    <2>4. /\ pc' = [pc EXCEPT ![s] = "receiving"] /\ held' = [held EXCEPT ![s] = 0]
          /\ cursor' = [cursor EXCEPT ![s] = held[s]]
          /\ UNCHANGED <<executorVars, channel, closed, ctxDone, cleaner, joined>>
        BY <1>13 DEF SendOk
    <2>5. QED
        BY <2>1, <2>3, <2>4, FindTInv
<1>14. CASE UNCHANGED vars
    BY <1>0, <1>14 DEF vars, executorVars, findVars, history, TInv, TypeOK, Hand, Walk
<1>15. QED
    BY <1>1, <1>2, <1>3, <1>4, <1>5, <1>6, <1>7, <1>8, <1>9, <1>10, <1>11, <1>12, <1>13, <1>14
    DEF Next, Executor, WatchLoop, ReceiveClosed, SendError, Returned

\* Every variable keeps the type TypeOK gives it: in particular no channel ever
\* holds more than updateChannelSize updates, and sendEvent has still to serve
\* the last ones of the list, in its order.
THEOREM TypeCorrect == Spec => []TypeOK
<1>1. TInv => TypeOK
    BY DEF TInv
<1>2. QED
    BY <1>1, InitTInv, StepTInv, PTL DEF Spec
-----------------------------------------------------------------------------
(***************************************************************************)
(* The list, the channels and the queue.                                   *)
(***************************************************************************)

\* A job added at the end keeps the rest of the queue in place.
LEMMA AppendJob ==
    ASSUME NEW q \in Seq(Job), NEW job \in Job
    PROVE  /\ Len(Append(q, job)) = Len(q) + 1
           /\ \A i \in 1 .. Len(q) : Append(q, job)[i] = q[i]
           /\ Append(q, job)[Len(q) + 1] = job
    OBVIOUS

\* The job taken is the first one, the others move up by one.
LEMMA TakeJob ==
    ASSUME NEW q \in Seq(Job), q # <<>>
    PROVE  /\ Len(Tail(q)) = Len(q) - 1
           /\ \A i \in 1 .. Len(Tail(q)) : i + 1 \in 1 .. Len(q) /\ Tail(q)[i] = q[i + 1]
           /\ 1 \in 1 .. Len(q)
           /\ q[1] = Head(q)
    OBVIOUS

\* No job is repeated when one that is not there yet is added ...
LEMMA UnrepeatedAppend ==
    ASSUME NEW q \in Seq(Job), NEW job \in Job, Unrepeated(q),
           \A i \in 1 .. Len(q) :
              job.type # "send" /\ q[i].type = job.type => q[i].sub # job.sub
    PROVE  Unrepeated(Append(q, job))
<1> DEFINE r == Append(q, job)
<1> SUFFICES ASSUME NEW i \in 1 .. Len(r), NEW j \in 1 .. Len(r), i # j,
                    r[i].type # "send", r[i].type = r[j].type
             PROVE  r[i].sub # r[j].sub
    BY DEF Unrepeated
<1>1. CASE i \in 1 .. Len(q) /\ j \in 1 .. Len(q)
    BY <1>1, AppendJob DEF Unrepeated
<1>2. CASE i \in 1 .. Len(q) /\ j = Len(q) + 1
    BY <1>2, AppendJob
<1>3. CASE i = Len(q) + 1 /\ j \in 1 .. Len(q)
    BY <1>3, AppendJob
<1>4. QED
    BY <1>1, <1>2, <1>3, AppendJob

\* ... or one is taken.
LEMMA UnrepeatedTail ==
    ASSUME NEW q \in Seq(Job), q # <<>>, Unrepeated(q)
    PROVE  Unrepeated(Tail(q))
<1> SUFFICES ASSUME NEW i \in 1 .. Len(Tail(q)), NEW j \in 1 .. Len(Tail(q)), i # j,
                    Tail(q)[i].type # "send", Tail(q)[i].type = Tail(q)[j].type
             PROVE  Tail(q)[i].sub # Tail(q)[j].sub
    BY DEF Unrepeated
<1>1. /\ i + 1 \in 1 .. Len(q) /\ Tail(q)[i] = q[i + 1]
      /\ j + 1 \in 1 .. Len(q) /\ Tail(q)[j] = q[j + 1]
      /\ i + 1 # j + 1
    BY TakeJob
<1>2. QED
    BY <1>1 DEF Unrepeated

\* The job at the head of the queue finds its subscriber in the stage it is for.
LEMMA HeadStage ==
    ASSUME TypeOK, Queue, jobs # <<>>
    PROVE  /\ Head(jobs).type = "push" =>
                 Head(jobs).sub \in Subs /\ pc[Head(jobs).sub] = "subscribing"
           /\ Head(jobs).type = "remove" =>
                 Head(jobs).sub \in Subs /\ cleaner[Head(jobs).sub] = "queued"
<1>1. 1 \in 1 .. Len(jobs) /\ jobs[1] = Head(jobs)
    BY TakeJob DEF TypeOK
<1>2. /\ jobs[1].type = "push" => pc[jobs[1].sub] = "subscribing"
      /\ jobs[1].type = "remove" => cleaner[jobs[1].sub] = "queued"
    BY <1>1 DEF Queue
<1>3. Head(jobs).type \in {"push", "remove"} => Head(jobs).sub \in Subs
    BY HeadJob
<1>4. QED
    BY <1>1, <1>2, <1>3

\* The walk is along the list, and meets nobody twice.
LEMMA WalkServes ==
    ASSUME TInv, Stage, SendToNode
    PROVE  /\ Head(remaining) \in Subs
           /\ Head(remaining) \in ToSet(subscribers)
           /\ Head(remaining) \in ToSet(remaining)
           /\ ToSet(remaining') = ToSet(remaining) \ {Head(remaining)}
<1>1. /\ remaining \in Seq(Subs) /\ subscribers \in Seq(Subs)
      /\ IsSuffix(remaining, subscribers) /\ Distinct(subscribers)
      /\ remaining # <<>> /\ remaining' = Tail(remaining)
    BY DEF TInv, TypeOK, Walk, Stage, SendToNode
<1>2. Distinct(remaining) /\ ToSet(remaining) \subseteq ToSet(subscribers)
    BY <1>1, SuffixSet
<1>3. Head(remaining) \in Subs
    BY <1>1, HeadTailProperties
<1>4. QED
    BY <1>1, <1>2, <1>3, TailSet

\* The push job puts one that was not there at the end of the list ...
LEMMA PushJoins ==
    ASSUME TInv, Stage, Queue, PushBack, NEW s, s = Head(jobs).sub
    PROVE  /\ s \in Subs /\ pc[s] = "subscribing" /\ cleaner[s] = "none"
           /\ s \notin ToSet(subscribers)
           /\ ToSet(subscribers') = ToSet(subscribers) \cup {s}
           /\ Distinct(subscribers')
<1>1. TypeOK /\ subscribers \in Seq(Subs) /\ Distinct(subscribers)
    BY DEF TInv, TypeOK, Stage
<1>2. /\ jobs # <<>> /\ Head(jobs).type = "push"
      /\ subscribers' = Append(subscribers, s)
    BY DEF PushBack, NextJob
<1>3. s \in Subs /\ pc[s] = "subscribing"
    BY <1>1, <1>2, HeadStage
<1>4. cleaner[s] = "none" /\ s \notin ToSet(subscribers)
    BY <1>3 DEF Stage
<1>5. QED
    BY <1>1, <1>2, <1>3, <1>4, AppendSet

\* ... and the remove job takes it out.
LEMMA RemoveLeaves ==
    ASSUME TInv, Stage, Queue, RemoveClose, NEW s, s = Head(jobs).sub
    PROVE  /\ s \in Subs /\ cleaner[s] = "queued"
           /\ ToSet(subscribers') = ToSet(subscribers) \ {s}
           /\ Distinct(subscribers')
<1>1. TypeOK /\ subscribers \in Seq(Subs) /\ Distinct(subscribers)
    BY DEF TInv, TypeOK, Stage
<1>2. /\ jobs # <<>> /\ Head(jobs).type = "remove" /\ RemoveNode(s)
    BY DEF RemoveClose, NextJob
<1>3. s \in Subs /\ cleaner[s] = "queued"
    BY <1>1, <1>2, HeadStage
<1>4. PICK i \in 1 .. Len(subscribers) :
          subscribers[i] = s /\ subscribers' = RemoveAt(subscribers, i)
    BY <1>2 DEF RemoveNode
<1>5. QED
    BY <1>1, <1>3, <1>4, RemoveSet

\* At the start nothing is queued and nobody is in the list.
LEMMA InitStageQueue == Init => Stage /\ Queue
<1> SUFFICES ASSUME Init PROVE Stage /\ Queue
    OBVIOUS
<1>1. subscribers = <<>> /\ Distinct(subscribers) /\ ToSet(subscribers) = {}
    BY SetOfEmpty DEF Init, Distinct
<1>2. Stage
    BY <1>1 DEF Init, Stage
<1>3. Queue
    BY DEF Init, Queue, Unrepeated
<1>4. QED
    BY <1>2, <1>3

\* The executor moves a subscriber through its stages: the push job puts it in
\* the list, the remove job takes it out and closes its channel in one go.
LEMMA StepStage ==
    ASSUME TInv, Stage, Queue, [Next]_vars
    PROVE  Stage'
<1>0. TypeOK
    BY DEF TInv
<1>1. ASSUME NEW e \in Events, Broadcast(e) PROVE Stage'
    BY <1>1 DEF Broadcast, Stage, findVars, history
<1>2. CASE StartSendEvent
    BY <1>2 DEF StartSendEvent, Stage, findVars, history
<1>3. CASE SendToNode
    <2>1. PICK s \in Subs : s = Head(remaining) /\ s \in ToSet(subscribers)
        BY <1>3, WalkServes
    <2>2. cleaner[s] # "none"
        BY <2>1 DEF Stage
    <2>3. /\ UNCHANGED <<subscribers, cleaner, closed, pc, delivered>>
          /\ \A t \in Subs : t # s => channel'[t] = channel[t]
        BY <1>0, <1>3, <2>1 DEF SendToNode, TypeOK, findVars, history
    <2>4. QED
        BY <2>2, <2>3 DEF Stage
<1>4. CASE PushBack
    <2>1. PICK s \in Subs :
              /\ s = Head(jobs).sub
              /\ cleaner[s] = "none"
              /\ ToSet(subscribers') = ToSet(subscribers) \cup {s}
              /\ Distinct(subscribers')
        BY <1>4, PushJoins
    <2>2. /\ pc' = [pc EXCEPT ![s] = "receiving"]
          /\ cleaner' = [cleaner EXCEPT ![s] = "armed"]
          /\ closed' = closed /\ channel' = channel /\ delivered' = delivered
        BY <1>4, <2>1 DEF PushBack
    <2>3. QED
        BY <1>0, <2>1, <2>2 DEF Stage, TypeOK
<1>5. CASE RemoveClose
    <2>1. PICK s \in Subs :
              /\ s = Head(jobs).sub
              /\ cleaner[s] = "queued"
              /\ ToSet(subscribers') = ToSet(subscribers) \ {s}
              /\ Distinct(subscribers')
        BY <1>5, RemoveLeaves
    <2>2. /\ closed' = [closed EXCEPT ![s] = TRUE]
          /\ cleaner' = [cleaner EXCEPT ![s] = "finished"]
          /\ pc' = pc /\ channel' = channel /\ delivered' = delivered
        BY <1>5, <2>1 DEF RemoveClose, findVars, history
    <2>3. QED
        BY <1>0, <2>1, <2>2 DEF Stage, TypeOK
<1>6. ASSUME NEW s \in Subs, Subscribe(s) PROVE Stage'
    BY <1>0, <1>6 DEF Subscribe, Stage, TypeOK, history
<1>7. ASSUME NEW s \in Subs, Disconnect(s) PROVE Stage'
    BY <1>7 DEF Disconnect, executorVars, Stage, history
<1>8. ASSUME NEW s \in Subs, Cleanup(s) PROVE Stage'
    BY <1>0, <1>8 DEF Cleanup, Stage, TypeOK, findVars, history
<1>9. ASSUME NEW s \in Subs, Receive(s) PROVE Stage'
    BY <1>0, <1>9 DEF Receive, executorVars, Stage, TypeOK, history
<1>10. ASSUME NEW s \in Subs, NEW outcome \in Returned, Return(s, outcome),
             pc[s] \in Watching,
             UNCHANGED <<executorVars, channel, closed, cleaner, history>>
      PROVE  Stage'
    BY <1>0, <1>10 DEF Return, executorVars, Stage, TypeOK, Returned, Watching, history
<1>11. ASSUME NEW s \in Subs, SkipUpdate(s) PROVE Stage'
    BY <1>0, <1>11 DEF SkipUpdate, executorVars, Stage, TypeOK
<1>12. ASSUME NEW s \in Subs, StartSend(s) PROVE Stage'
    BY <1>0, <1>12 DEF StartSend, executorVars, Stage, TypeOK, history
<1>13. ASSUME NEW s \in Subs, SendOk(s) PROVE Stage'
    BY <1>0, <1>13 DEF SendOk, executorVars, Stage, TypeOK
<1>14. CASE UNCHANGED vars
    BY <1>14 DEF vars, executorVars, findVars, history, Stage
<1>15. QED
    BY <1>1, <1>2, <1>3, <1>4, <1>5, <1>6, <1>7, <1>8, <1>9, <1>10, <1>11, <1>12, <1>13, <1>14
    DEF Next, Executor, WatchLoop, ReceiveClosed, SendError, Returned, Watching

\* subscribeOnEvents queues each of its two jobs once, in the stage it is for.
LEMMA StepQueue ==
    ASSUME TInv, Stage, Queue, [Next]_vars
    PROVE  Queue'
<1>0. TypeOK
    BY DEF TInv
<1>1. ASSUME NEW e \in Events, Broadcast(e) PROVE Queue'
    <2>1. SendJob(e) \in Job /\ SendJob(e).type = "send"
        BY DEF SendJob, Job
    <2>2. jobs' = Append(jobs, SendJob(e)) /\ pc' = pc /\ cleaner' = cleaner
        BY <1>1 DEF Broadcast, AsyncExec, findVars
    <2>3. Unrepeated(jobs')
        BY <1>0, <2>1, <2>2, UnrepeatedAppend DEF Queue, TypeOK
    <2>4. QED
        BY <1>0, <2>1, <2>2, <2>3, AppendJob DEF Queue, TypeOK
<1>2. CASE StartSendEvent
    <2>1. /\ jobs # <<>> /\ jobs' = Tail(jobs)
          /\ pc' = pc /\ cleaner' = cleaner
        BY <1>2 DEF StartSendEvent, NextJob, findVars
    <2>2. Unrepeated(jobs')
        BY <1>0, <2>1, UnrepeatedTail DEF Queue, TypeOK
    <2>3. QED
        BY <1>0, <2>1, <2>2, TakeJob DEF Queue, TypeOK
<1>3. CASE PushBack
    <2> DEFINE s == Head(jobs).sub
    <2>1. /\ jobs # <<>> /\ Head(jobs).type = "push"
          /\ jobs' = Tail(jobs)
        BY <1>3 DEF PushBack, NextJob
    <2>2. s \in Subs
        BY <1>0, <2>1, HeadJob
    <2>3. ASSUME NEW i \in 1 .. Len(jobs'), jobs'[i].type = "push"
          PROVE  pc'[jobs'[i].sub] = "subscribing"
        <3>1. /\ jobs'[i] = jobs[i + 1] /\ i + 1 \in 1 .. Len(jobs)
              /\ 1 \in 1 .. Len(jobs) /\ jobs[1] = Head(jobs)
            BY <1>0, <2>1, TakeJob DEF TypeOK
        <3>2. jobs[i + 1].sub # s /\ pc[jobs[i + 1].sub] = "subscribing"
            BY <2>1, <2>3, <3>1 DEF Queue, Unrepeated
        <3>3. QED
            BY <1>0, <1>3, <3>1, <3>2 DEF PushBack, TypeOK
    <2>4. ASSUME NEW i \in 1 .. Len(jobs'), jobs'[i].type = "remove"
          PROVE  cleaner'[jobs'[i].sub] = "queued"
        <3>1. /\ jobs'[i] = jobs[i + 1] /\ i + 1 \in 1 .. Len(jobs)
              /\ 1 \in 1 .. Len(jobs) /\ jobs[1] = Head(jobs)
            BY <1>0, <2>1, TakeJob DEF TypeOK
        <3>2. cleaner[jobs[i + 1].sub] = "queued" /\ pc[s] = "subscribing"
            BY <2>1, <2>4, <3>1 DEF Queue
        <3>3. jobs[i + 1].sub # s
            BY <2>2, <3>2 DEF Stage
        <3>4. QED
            BY <1>0, <1>3, <3>1, <3>2, <3>3 DEF PushBack, TypeOK
    <2>5. Unrepeated(jobs')
        BY <1>0, <2>1, UnrepeatedTail DEF Queue, TypeOK
    <2>6. QED
        BY <2>3, <2>4, <2>5 DEF Queue
<1>4. CASE RemoveClose
    <2> DEFINE s == Head(jobs).sub
    <2>1. /\ jobs # <<>> /\ Head(jobs).type = "remove"
          /\ jobs' = Tail(jobs)
        BY <1>4 DEF RemoveClose, NextJob
    <2>2. ASSUME NEW i \in 1 .. Len(jobs'), jobs'[i].type = "remove"
          PROVE  cleaner'[jobs'[i].sub] = "queued"
        <3>1. /\ jobs'[i] = jobs[i + 1] /\ i + 1 \in 1 .. Len(jobs)
              /\ 1 \in 1 .. Len(jobs) /\ jobs[1] = Head(jobs)
            BY <1>0, <2>1, TakeJob DEF TypeOK
        <3>2. jobs[i + 1].sub # s /\ cleaner[jobs[i + 1].sub] = "queued"
            BY <2>1, <2>2, <3>1 DEF Queue, Unrepeated
        <3>3. QED
            BY <1>0, <1>4, <3>1, <3>2 DEF RemoveClose, TypeOK
    <2>3. ASSUME NEW i \in 1 .. Len(jobs'), jobs'[i].type = "push"
          PROVE  pc'[jobs'[i].sub] = "subscribing"
        BY <1>0, <1>4, <2>1, <2>3, TakeJob DEF RemoveClose, Queue, TypeOK, findVars
    <2>4. Unrepeated(jobs')
        BY <1>0, <2>1, UnrepeatedTail DEF Queue, TypeOK
    <2>5. QED
        BY <2>2, <2>3, <2>4 DEF Queue
<1>5. ASSUME NEW s \in Subs, Subscribe(s) PROVE Queue'
    <2>1. PushJob(s) \in Job /\ PushJob(s).type = "push" /\ PushJob(s).sub = s
        BY DEF PushJob, Job
    <2>2. ASSUME NEW i \in 1 .. Len(jobs), jobs[i].type = "push"
          PROVE  jobs[i].sub # s
        BY <1>5, <2>2 DEF Subscribe, Queue
    <2>3. jobs' = Append(jobs, PushJob(s)) /\ cleaner' = cleaner
        BY <1>5 DEF Subscribe, AsyncExec
    <2>4. ASSUME NEW i \in 1 .. Len(jobs'), jobs'[i].type = "push"
          PROVE  pc'[jobs'[i].sub] = "subscribing"
        BY <1>0, <1>5, <2>1, <2>2, <2>3, <2>4, AppendJob DEF Subscribe, Queue, TypeOK
    <2>5. ASSUME NEW i \in 1 .. Len(jobs'), jobs'[i].type = "remove"
          PROVE  cleaner'[jobs'[i].sub] = "queued"
        BY <1>0, <2>1, <2>3, <2>5, AppendJob DEF Queue, TypeOK
    <2>6. Unrepeated(jobs')
        BY <1>0, <2>1, <2>2, <2>3, UnrepeatedAppend DEF Queue, TypeOK
    <2>7. QED
        BY <2>4, <2>5, <2>6 DEF Queue
<1>6. ASSUME NEW s \in Subs, Disconnect(s) PROVE Queue'
    BY <1>6 DEF Disconnect, executorVars, Queue
<1>7. ASSUME NEW s \in Subs, Cleanup(s) PROVE Queue'
    <2>1. RemoveJob(s) \in Job /\ RemoveJob(s).type = "remove" /\ RemoveJob(s).sub = s
        BY DEF RemoveJob, Job
    <2>2. ASSUME NEW i \in 1 .. Len(jobs), jobs[i].type = "remove"
          PROVE  jobs[i].sub # s
        BY <1>7, <2>2 DEF Cleanup, Queue
    <2>3. jobs' = Append(jobs, RemoveJob(s)) /\ pc' = pc
        BY <1>7 DEF Cleanup, AsyncExec, findVars
    <2>4. ASSUME NEW i \in 1 .. Len(jobs'), jobs'[i].type = "push"
          PROVE  pc'[jobs'[i].sub] = "subscribing"
        BY <1>0, <2>1, <2>3, <2>4, AppendJob DEF Queue, TypeOK
    <2>5. ASSUME NEW i \in 1 .. Len(jobs'), jobs'[i].type = "remove"
          PROVE  cleaner'[jobs'[i].sub] = "queued"
        BY <1>0, <1>7, <2>1, <2>2, <2>3, <2>5, AppendJob DEF Cleanup, Queue, TypeOK
    <2>6. Unrepeated(jobs')
        BY <1>0, <2>1, <2>2, <2>3, UnrepeatedAppend DEF Queue, TypeOK
    <2>7. QED
        BY <2>4, <2>5, <2>6 DEF Queue
<1>8. ASSUME NEW s \in Subs, jobs' = jobs, cleaner' = cleaner, pc[s] \in Watching,
             NEW p, pc' = [pc EXCEPT ![s] = p]
      PROVE  Queue'
    <2>1. ASSUME NEW i \in 1 .. Len(jobs), jobs[i].type = "push"
          PROVE  pc'[jobs'[i].sub] = "subscribing"
        <3>1. pc[jobs[i].sub] = "subscribing" /\ jobs[i].sub # s
            BY <1>8, <2>1 DEF Queue, Watching
        <3>2. pc \in [Subs -> {"idle", "subscribing"} \cup Watching \cup Returned]
            BY <1>0 DEF TypeOK
        <3>3. QED
            BY <1>8, <3>1, <3>2
    <2>2. Unrepeated(jobs')
        BY <1>8 DEF Queue
    <2>3. QED
        BY <1>8, <2>1, <2>2 DEF Queue
<1>9. CASE UNCHANGED vars
    BY <1>9 DEF vars, executorVars, findVars, Queue
<1>10. CASE SendToNode
    BY <1>10 DEF SendToNode, findVars, Queue
<1>11. ASSUME NEW s \in Subs, WatchLoop(s) \/ SendOk(s) \/ SendError(s) PROVE Queue'
    BY <1>8, <1>11
    DEF WatchLoop, Receive, ReceiveClosed, SkipUpdate, StartSend,
        SendOk, SendError, Return, Watching, executorVars
<1>12. QED
    BY <1>1, <1>2, <1>3, <1>4, <1>5, <1>6, <1>7, <1>9, <1>11, <1>10
    DEF Next, Executor
-----------------------------------------------------------------------------
(***************************************************************************)
(* What lies between the last update dealt with and the newest one.        *)
(***************************************************************************)

\* At the start no watch is running.
LEMMA InitWindow == Init => Window
    BY DEF Init, Window, WindowOf, Contiguous, HeldIsNext, Watching

\* The window of a subscriber is not touched by a step that leaves it and the
\* log alone, be it taken out of the list or not.
LEMMA FrameWindow ==
    ASSUME NEW t \in Subs, WindowOf(t), log' = log,
           channel'[t] = channel[t], pc'[t] = pc[t],
           held'[t] = held[t], joined'[t] = joined[t], cursor'[t] = cursor[t],
           t \in ToSet(subscribers') => t \in ToSet(subscribers),
           t \in ToSet(remaining') <=> t \in ToSet(remaining)
    PROVE  WindowOf(t)'
<1>1. InHand(t)' = InHand(t) /\ Missing(t)' = Missing(t)
    BY DEF InHand, Missing
<1>2. QED
    BY <1>1 DEF WindowOf, Contiguous, HeldIsNext, Matches

\* An update added at the end of a channel keeps the others in place ...
LEMMA AppendUpdate ==
    ASSUME NEW m \in Nat, NEW q \in Seq(1 .. m), NEW x
    PROVE  /\ Len(q) \in Nat
           /\ Len(Append(q, x)) = Len(q) + 1
           /\ \A j \in 1 .. Len(q) : Append(q, x)[j] = q[j]
           /\ Append(q, x)[Len(q) + 1] = x
           /\ Append(q, x) # <<>>
<1>1. Len(q) \in Nat /\ q = [i \in 1 .. Len(q) |-> q[i]]
    OBVIOUS
<1>2. QED
    BY <1>1

\* ... and one taken moves the others up.
LEMMA TakeUpdate ==
    ASSUME NEW m \in Nat, NEW q \in Seq(1 .. m), q # <<>>
    PROVE  /\ Len(q) \in Nat
           /\ Len(Tail(q)) = Len(q) - 1
           /\ 1 \in 1 .. Len(q) /\ Head(q) = q[1]
           /\ \A j \in 1 .. Len(Tail(q)) : j + 1 \in 1 .. Len(q) /\ Tail(q)[j] = q[j + 1]
    OBVIOUS

\* When sendEvent starts, its event is missing to everyone in the list.
LEMMA StartWindow ==
    ASSUME TInv, Window, StartSendEvent, NEW s \in Subs
    PROVE  WindowOf(s)'
<1>1. /\ TypeOK /\ Hand /\ WindowOf(s)
      /\ Len(log) \in Nat /\ Len(channel[s]) \in Nat /\ cursor[s] \in Nat
    BY DEF TInv, TypeOK, Window
<1>2. /\ log' = Append(log, Head(jobs).event)
      /\ Len(log') = Len(log) + 1
      /\ \A i \in 1 .. Len(log) : log'[i] = log[i]
    BY <1>1, HeadJob DEF StartSendEvent, NextJob, TypeOK
<1>3. /\ subscribers' = subscribers /\ pc' = pc /\ held' = held /\ channel' = channel
      /\ joined' = joined /\ cursor' = cursor
      /\ remaining = <<>> /\ remaining' = subscribers
    BY DEF StartSendEvent, NextJob, findVars, history
<1>4. InHand(s) \in Nat /\ InHand(s)' = InHand(s)
    BY <1>3 DEF InHand
<1>5. Missing(s) = 0 /\ (s \in ToSet(subscribers) => Missing(s)' = 1)
    BY <1>3, SetOfEmpty DEF Missing
<1>6. Contiguous(s)'
    <2>1. ASSUME pc[s] \in Watching, s \in ToSet(subscribers)
          PROVE  cursor'[s] + InHand(s)' + Len(channel'[s]) + Missing(s)' = Len(log')
        <3>1. cursor[s] + InHand(s) + Len(channel[s]) + 0 = Len(log)
            BY <1>1, <1>5, <2>1 DEF WindowOf, Contiguous
        <3>2. QED
            BY <1>1, <1>2, <1>3, <1>4, <1>5, <2>1, <3>1
    <2>2. ASSUME pc[s] \in Watching, NEW j \in 1 .. Len(channel[s])
          PROVE  channel'[s][j] = cursor'[s] + InHand(s)' + j
        BY <1>1, <1>3, <1>4, <2>2 DEF WindowOf, Contiguous
    <2>3. QED
        BY <1>3, <2>1, <2>2 DEF Contiguous
<1>7. HeldIsNext(s)'
    BY <1>1, <1>2, <1>3 DEF WindowOf, HeldIsNext, Matches, Hand
<1>8. QED
    BY <1>1, <1>3, <1>6, <1>7 DEF WindowOf

\* Serving a subscriber puts the event that was missing into its channel.
LEMMA ServeWindow ==
    ASSUME TInv, Stage, Window, SendToNode, NEW s \in Subs, s = Head(remaining)
    PROVE  WindowOf(s)'
<1>1. /\ TypeOK /\ WindowOf(s)
      /\ Len(log) \in Nat /\ cursor[s] \in Nat
      /\ channel[s] \in Seq(1 .. Len(log)) /\ Len(channel[s]) \in Nat
    <2>1. TypeOK /\ WindowOf(s)
        BY DEF TInv, Window
    <2>2. /\ Len(log) \in Nat /\ cursor[s] \in 0 .. Len(log)
          /\ channel[s] \in Seq(1 .. Len(log))
        BY <2>1 DEF TypeOK
    <2>3. QED
        BY <2>1, <2>2
<1>2. /\ log' = log /\ subscribers' = subscribers /\ pc' = pc /\ held' = held
      /\ joined' = joined /\ cursor' = cursor
      /\ s \in ToSet(subscribers) /\ s \in ToSet(remaining) /\ s \notin ToSet(remaining')
    BY WalkServes DEF SendToNode, findVars, history
<1>3. /\ InHand(s) \in Nat /\ InHand(s)' = InHand(s)
      /\ Missing(s) = 1 /\ Missing(s)' = 0
    BY <1>2 DEF InHand, Missing
<1>4. HeldIsNext(s)'
    BY <1>1, <1>2 DEF WindowOf, HeldIsNext, Matches
<1>5. channel'[s] = Append(channel[s], Len(log))
    BY <1>1 DEF SendToNode, TypeOK
<1> DEFINE r == channel'[s]
           n == Len(channel[s])
           k == cursor[s] + InHand(s)
<1>6. /\ n \in Nat /\ k \in Nat /\ Len(r) = n + 1
      /\ \A j \in 1 .. n : r[j] = channel[s][j]
      /\ r[n + 1] = Len(log)
    BY <1>1, <1>3, <1>5, AppendUpdate
<1>7. Contiguous(s)'
    <2>1. SUFFICES ASSUME pc[s] \in Watching
                   PROVE  /\ \A j \in 1 .. Len(r) : r[j] = k + j
                          /\ k + Len(r) + 0 = Len(log)
        BY <1>2, <1>3 DEF Contiguous
    <2>2. /\ \A j \in 1 .. n : channel[s][j] = k + j
          /\ k + n + 1 = Len(log)
        BY <1>1, <1>2, <1>3, <2>1 DEF WindowOf, Contiguous
    <2> HIDE DEF r, n, k
    <2>3. k + (n + 1) = Len(log) /\ k + Len(r) + 0 = Len(log)
        BY <1>6, <2>2
    <2>4. ASSUME NEW j \in 1 .. n + 1 PROVE r[j] = k + j
        <3>1. CASE j \in 1 .. n
            BY <1>6, <2>2, <3>1 DEF n
        <3>2. CASE j = n + 1
            BY <1>6, <2>3, <3>2
        <3>3. QED
            BY <1>6, <3>1, <3>2
    <2>5. QED
        BY <1>6, <2>3, <2>4
<1>8. QED
    BY <1>1, <1>2, <1>4, <1>7 DEF WindowOf

\* Every step keeps the window of a subscriber: nothing is ever lost from it.
LEMMA StepWindow ==
    ASSUME TInv, Stage, Queue, Window, [Next]_vars
    PROVE  Window'
<1> SUFFICES ASSUME NEW t \in Subs PROVE WindowOf(t)'
    BY DEF Window
<1>0. /\ TypeOK /\ Hand /\ WindowOf(t)
      /\ Len(log) \in Nat /\ cursor[t] \in Nat /\ joined[t] \in Nat
      /\ channel[t] \in Seq(1 .. Len(log))
    BY DEF TInv, TypeOK, Window
<1>1. ASSUME NEW e \in Events, Broadcast(e) PROVE WindowOf(t)'
    BY <1>0, <1>1, FrameWindow DEF Broadcast, findVars, history
<1>2. CASE StartSendEvent
    BY <1>2, StartWindow
<1>3. CASE SendToNode
    <2>1. PICK s \in Subs :
              s = Head(remaining) /\ ToSet(remaining') = ToSet(remaining) \ {s}
        BY <1>3, WalkServes
    <2>2. CASE s = t
        BY <1>3, <2>1, <2>2, ServeWindow
    <2>3. CASE s # t
        <3>1. /\ UNCHANGED <<subscribers, log, pc, held, joined, cursor>>
              /\ channel'[t] = channel[t]
            BY <1>0, <1>3, <2>1, <2>3 DEF SendToNode, TypeOK, findVars, history
        <3>2. QED
            BY <1>0, <2>1, <2>3, <3>1, FrameWindow
    <2>4. QED
        BY <2>2, <2>3
<1>4. CASE PushBack
    <2>1. PICK s \in Subs :
              /\ s = Head(jobs).sub
              /\ cleaner[s] = "none"
              /\ ToSet(subscribers') = ToSet(subscribers) \cup {s}
        BY <1>4, PushJoins
    <2>2. /\ pc' = [pc EXCEPT ![s] = "receiving"]
          /\ joined' = [joined EXCEPT ![s] = Len(log)]
          /\ cursor' = [cursor EXCEPT ![s] = Len(log)]
          /\ remaining = <<>> /\ remaining' = <<>>
          /\ log' = log /\ channel' = channel /\ held' = held
        BY <1>4, <2>1 DEF PushBack, NextJob
    <2>3. CASE s = t
        <3>1. channel'[t] = <<>>
            BY <2>1, <2>2, <2>3 DEF Stage
        <3>2. pc'[t] = "receiving" /\ joined'[t] = Len(log) /\ cursor'[t] = Len(log)
            BY <1>0, <2>2, <2>3 DEF TypeOK
        <3>3. InHand(t)' = 0 /\ Missing(t)' = 0 /\ Len(channel'[t]) = 0
            BY <2>2, <3>1, <3>2, SetOfEmpty DEF InHand, Missing
        <3>4. Contiguous(t)'
            BY <1>0, <2>2, <3>2, <3>3 DEF Contiguous
        <3>5. HeldIsNext(t)'
            BY <3>2 DEF HeldIsNext
        <3>6. QED
            BY <1>0, <3>2, <3>4, <3>5 DEF WindowOf
    <2>4. CASE s # t
        <3>1. pc'[t] = pc[t] /\ joined'[t] = joined[t] /\ cursor'[t] = cursor[t]
            BY <1>0, <2>2, <2>4 DEF TypeOK
        <3>2. QED
            BY <1>0, <2>1, <2>2, <2>4, <3>1, FrameWindow
    <2>5. QED
        BY <2>3, <2>4
<1>5. CASE RemoveClose
    <2>1. ToSet(subscribers') \subseteq ToSet(subscribers)
        BY <1>5, RemoveLeaves
    <2>2. UNCHANGED <<remaining, log, channel, pc, held, joined, cursor>>
        BY <1>5 DEF RemoveClose, findVars, history
    <2>3. QED
        BY <1>0, <2>1, <2>2, FrameWindow
<1>6. ASSUME NEW s \in Subs, Subscribe(s) PROVE WindowOf(t)'
    <2>1. CASE s = t
        BY <1>0, <1>6, <2>1
        DEF Subscribe, Stage, TypeOK, WindowOf, Contiguous, HeldIsNext, Watching, history
    <2>2. CASE s # t
        BY <1>0, <1>6, <2>2, FrameWindow DEF Subscribe, TypeOK, history
    <2>3. QED
        BY <2>1, <2>2
<1>7. ASSUME NEW s \in Subs, Disconnect(s) PROVE WindowOf(t)'
    BY <1>0, <1>7, FrameWindow DEF Disconnect, executorVars, history
<1>8. ASSUME NEW s \in Subs, Cleanup(s) PROVE WindowOf(t)'
    BY <1>0, <1>8, FrameWindow DEF Cleanup, findVars, history
<1>9. ASSUME NEW s \in Subs, Receive(s) PROVE WindowOf(t)'
    <2>1. CASE s # t
        BY <1>0, <1>9, <2>1, FrameWindow DEF Receive, executorVars, TypeOK, history
    <2>2. CASE s = t
        <3>1. /\ pc[t] = "receiving" /\ pc'[t] = "received" /\ log' = log
              /\ channel[t] # <<>> /\ channel'[t] = Tail(channel[t]) /\ held'[t] = Head(channel[t])
              /\ cursor'[t] = cursor[t] /\ joined'[t] = joined[t]
              /\ subscribers' = subscribers /\ remaining' = remaining
            BY <1>0, <1>9, <2>2 DEF Receive, executorVars, TypeOK, history
        <3> DEFINE q == channel[t]
                   r == channel'[t]
                   n == Len(r)
                   c == cursor[t]
        <3>2. /\ n \in Nat /\ Len(q) = n + 1 /\ c \in Nat
              /\ \A j \in 1 .. n : j + 1 \in 1 .. Len(q) /\ r[j] = q[j + 1]
              /\ 1 \in 1 .. Len(q) /\ held'[t] = q[1]
            BY <1>0, <3>1, TakeUpdate
        <3>3. \A j \in 1 .. Len(q) : q[j] = c + j
            BY <1>0, <3>1 DEF WindowOf, Contiguous, InHand, Watching
        <3>4. t \in ToSet(subscribers) => c + Len(q) + Missing(t) = Len(log)
            BY <1>0, <3>1 DEF WindowOf, Contiguous, InHand, Watching
        <3>5. InHand(t)' = 1 /\ Missing(t)' = Missing(t) /\ Missing(t) \in Nat
            BY <3>1 DEF InHand, Missing
        <3> HIDE DEF q, r, n, c
        <3>6. held'[t] = c + 1
            BY <3>2, <3>3
        <3>7. \A j \in 1 .. n : r[j] = c + 1 + j
            <4>1. \A j \in 1 .. n : c + (j + 1) = c + 1 + j
                BY <3>2
            <4>2. QED
                BY <3>2, <3>3, <4>1
        <3>8. t \in ToSet(subscribers) => c + 1 + n + Missing(t) = Len(log)
            BY <1>0, <3>2, <3>4, <3>5
        <3>9. Contiguous(t)'
            BY <3>1, <3>5, <3>7, <3>8 DEF Contiguous, c, r, n
        <3>10. HeldIsNext(t)'
            BY <3>1, <3>6 DEF HeldIsNext, c
        <3>11. QED
            BY <1>0, <3>1, <3>9, <3>10 DEF WindowOf
    <2>3. QED
        BY <2>1, <2>2
<1>10. ASSUME NEW s \in Subs, NEW outcome \in Returned, Return(s, outcome),
             UNCHANGED <<executorVars, channel, closed, cleaner, history>>
      PROVE  WindowOf(t)'
    <2>1. CASE s # t
        BY <1>0, <1>10, <2>1, FrameWindow DEF Return, executorVars, TypeOK, history
    <2>2. CASE s = t
        <3>1. pc'[t] \in Returned
            BY <1>0, <1>10, <2>2 DEF Return, TypeOK
        <3>2. QED
            BY <1>0, <1>10, <3>1
            DEF Returned, executorVars, WindowOf, Contiguous, HeldIsNext, Watching, history
    <2>3. QED
        BY <2>1, <2>2
<1>11. ASSUME NEW s \in Subs, SkipUpdate(s) \/ SendOk(s) PROVE WindowOf(t)'
    <2>1. CASE s # t
        BY <1>0, <1>11, <2>1, FrameWindow DEF SkipUpdate, SendOk, executorVars, TypeOK
    <2>2. CASE s = t
        <3>1. /\ pc[t] \in {"received", "sending"}
              /\ pc'[t] = "receiving" /\ log' = log /\ channel'[t] = channel[t]
              /\ cursor'[t] = held[t] /\ joined'[t] = joined[t]
              /\ subscribers' = subscribers /\ remaining' = remaining
            BY <1>0, <1>11, <2>2 DEF SkipUpdate, SendOk, executorVars, TypeOK
        <3>2. held[t] = cursor[t] + 1 /\ InHand(t) = 1 /\ InHand(t)' = 0
            BY <1>0, <3>1 DEF WindowOf, HeldIsNext, InHand
        <3>3. Missing(t)' = Missing(t) /\ Missing(t) \in Nat
            BY <3>1 DEF Missing
        <3>4. Contiguous(t)'
            <4>1. pc[t] \in Watching /\ Contiguous(t)
                BY <1>0, <3>1 DEF WindowOf, Watching
            <4>2. cursor'[t] = cursor[t] + InHand(t) /\ cursor[t] + InHand(t) \in Nat
                BY <1>0, <3>1, <3>2 DEF TypeOK
            <4>3. cursor'[t] + InHand(t)' = cursor[t] + InHand(t)
                BY <3>2, <4>2
            <4>4. QED
                BY <3>1, <3>3, <4>1, <4>3 DEF Contiguous
        <3>5. HeldIsNext(t)'
            BY <3>1 DEF HeldIsNext
        <3>6. QED
            BY <1>0, <3>1, <3>2, <3>4, <3>5 DEF WindowOf
    <2>3. QED
        BY <2>1, <2>2
<1>12. ASSUME NEW s \in Subs, StartSend(s) PROVE WindowOf(t)'
    <2>1. CASE s # t
        BY <1>0, <1>12, <2>1, FrameWindow DEF StartSend, executorVars, TypeOK, history
    <2>2. CASE s = t
        BY <1>0, <1>12, <2>2
        DEF StartSend, executorVars, TypeOK, WindowOf, Contiguous, HeldIsNext, InHand, Missing,
            Matches, Watching, history
    <2>3. QED
        BY <2>1, <2>2
<1>13. CASE UNCHANGED vars
    BY <1>0, <1>13, FrameWindow DEF vars, executorVars, findVars, history
<1>14. QED
    BY <1>1, <1>2, <1>3, <1>4, <1>5, <1>6, <1>7, <1>8, <1>9, <1>10, <1>11, <1>12, <1>13
    DEF Next, Executor, WatchLoop, ReceiveClosed, SendError, Returned
-----------------------------------------------------------------------------
(***************************************************************************)
(* What has been delivered.                                                *)
(***************************************************************************)

\* At the start nothing is delivered.
LEMMA InitDelivery == Init => Delivery
<1> SUFFICES ASSUME Init, NEW s \in Subs PROVE DeliveryOf(s)
    BY DEF Delivery
<1>1. /\ delivered[s] = <<>> /\ Len(delivered[s]) = 0 /\ joined[s] = 0 /\ cursor[s] = 0
    BY DEF Init
<1>2. ToSet(delivered[s]) = {} /\ joined[s] + 1 .. cursor[s] = {}
    BY <1>1, SetOfEmpty
<1>3. QED
    BY <1>1, <1>2 DEF DeliveryOf

\* Only a longer log, and nothing else that DeliveryOf reads.
LEMMA FrameDelivery ==
    ASSUME TypeOK, NEW t \in Subs, DeliveryOf(t),
           \A i \in 1 .. Len(log) : log'[i] = log[i],
           delivered'[t] = delivered[t], joined'[t] = joined[t], cursor'[t] = cursor[t]
    PROVE  DeliveryOf(t)'
<1>1. /\ cursor[t] \in 0 .. Len(log) /\ joined[t] \in 0 .. Len(log) /\ Len(log) \in Nat
    BY DEF TypeOK
<1>2. \A i \in joined[t] + 1 .. cursor[t] : Matches(t, i)' <=> Matches(t, i)
    <2>1. \A i \in joined[t] + 1 .. cursor[t] : i \in 1 .. Len(log)
        BY <1>1
    <2>2. QED
        BY <2>1 DEF Matches
<1>3. QED
    BY <1>2 DEF DeliveryOf

\* The watcher deals with the next update: by a Send if it matches.
LEMMA NextDelivery ==
    ASSUME TypeOK, NEW t \in Subs, DeliveryOf(t), log' = log, joined'[t] = joined[t],
           joined[t] <= cursor[t], cursor[t] + 1 <= Len(log),
           cursor'[t] = cursor[t] + 1,
           \/ ~Matches(t, cursor[t] + 1) /\ delivered'[t] = delivered[t]
           \/ Matches(t, cursor[t] + 1) /\ delivered'[t] = Append(delivered[t], cursor[t] + 1)
    PROVE  DeliveryOf(t)'
<1> DEFINE d == delivered[t]
           c == cursor[t]
           n == Len(d)
           Sent(m) == {i \in joined[t] + 1 .. m : Matches(t, i)}
<1>1. /\ c \in Nat /\ joined[t] \in Nat /\ Len(log) \in Nat
      /\ d \in Seq(1 .. Len(log)) /\ c + 1 \in 1 .. Len(log)
    <2>1. /\ c \in Nat /\ joined[t] \in Nat /\ Len(log) \in Nat
          /\ d \in Seq(1 .. Len(log))
        BY DEF TypeOK
    <2>2. QED
        BY <2>1
<1>2. \A i : Matches(t, i)' <=> Matches(t, i)
    BY DEF Matches
<1>3. joined[t] + 1 .. c + 1 = (joined[t] + 1 .. c) \cup {c + 1}
    BY <1>1
<1>4. CASE ~Matches(t, c + 1) /\ delivered'[t] = d
    <2>1. Sent(c + 1) = Sent(c)
        BY <1>3, <1>4
    <2>2. QED
        BY <1>2, <1>4, <2>1 DEF DeliveryOf
<1>5. CASE Matches(t, c + 1) /\ delivered'[t] = Append(d, c + 1)
    <2> DEFINE r == Append(d, c + 1)
    <2>1. /\ n \in Nat /\ Len(r) = n + 1
          /\ \A k \in 1 .. n : r[k] = d[k]
          /\ r[n + 1] = c + 1
        BY <1>1, AppendUpdate
    <2>2. ToSet(r) = ToSet(d) \cup {c + 1}
        BY <1>1, AppendSet
    <2>3. Sent(c + 1) = Sent(c) \cup {c + 1}
        BY <1>3, <1>5
    <2>4. ToSet(d) = Sent(c) /\ \A j, k \in 1 .. n : j < k => d[j] < d[k]
        BY DEF DeliveryOf
    <2>5. \A k \in 1 .. n : d[k] < c + 1
        <3>1. SUFFICES ASSUME NEW k \in 1 .. n PROVE d[k] < c + 1
            OBVIOUS
        <3>2. d[k] \in Sent(c)
            <4>1. \A e : e \in ToSet(d) <=> \E i \in 1 .. Len(d) : d[i] = e
                BY <1>1, SetOfSeq
            <4>2. d[k] \in ToSet(d)
                BY <4>1
            <4>3. QED
                BY <2>4, <4>2
        <3>3. QED
            BY <1>1, <3>2
    <2> HIDE DEF r, n, d, c, Sent
    <2>6. ASSUME NEW j \in 1 .. n + 1, NEW k \in 1 .. n + 1, j < k
          PROVE  r[j] < r[k]
        <3>1. j \in 1 .. n
            BY <2>1, <2>6
        <3>2. CASE k \in 1 .. n
            BY <2>1, <2>4, <2>6, <3>1, <3>2
        <3>3. CASE k = n + 1
            BY <2>1, <2>5, <3>1, <3>3
        <3>4. QED
            BY <2>1, <3>2, <3>3
    <2>7. delivered'[t] = r /\ cursor'[t] = c + 1
        BY <1>5 DEF r, d, c
    <2>8. ToSet(r) = Sent(c + 1)
        BY <2>2, <2>3, <2>4
    <2>9. QED
        BY <1>2, <2>1, <2>6, <2>7, <2>8 DEF DeliveryOf, Sent
<1>6. QED
    BY <1>4, <1>5

\* Every step keeps it: what is sent is the next update.
LEMMA StepDelivery ==
    ASSUME TInv, Stage, Queue, Window, Delivery, [Next]_vars
    PROVE  Delivery'
<1> SUFFICES ASSUME NEW t \in Subs PROVE DeliveryOf(t)'
    BY DEF Delivery
<1>0. /\ TypeOK /\ Hand /\ DeliveryOf(t) /\ WindowOf(t)
      /\ Len(log) \in Nat /\ cursor[t] \in Nat /\ joined[t] \in Nat
    BY DEF TInv, TypeOK, Window, Delivery
<1>1. CASE StartSendEvent
    <2>1. \A i \in 1 .. Len(log) : log'[i] = log[i]
        BY <1>0, <1>1, HeadJob DEF StartSendEvent, NextJob, TypeOK
    <2>2. QED
        BY <1>0, <1>1, <2>1, FrameDelivery DEF StartSendEvent, history
<1>2. CASE PushBack
    <2>1. PICK s \in Subs : s = Head(jobs).sub /\ cleaner[s] = "none"
        BY <1>2, PushJoins
    <2>2. /\ joined' = [joined EXCEPT ![s] = Len(log)]
          /\ cursor' = [cursor EXCEPT ![s] = Len(log)]
          /\ log' = log /\ delivered' = delivered
        BY <1>2, <2>1 DEF PushBack
    <2>3. CASE s = t
        <3>1. delivered'[t] = <<>> /\ Len(delivered'[t]) = 0
            BY <2>1, <2>2, <2>3 DEF Stage
        <3>2. joined'[t] = Len(log) /\ cursor'[t] = Len(log)
            BY <1>0, <2>2, <2>3 DEF TypeOK
        <3>3. ToSet(delivered'[t]) = {} /\ joined'[t] + 1 .. cursor'[t] = {}
            BY <1>0, <3>1, <3>2, SetOfEmpty
        <3>4. QED
            BY <3>1, <3>3 DEF DeliveryOf
    <2>4. CASE s # t
        <3>1. joined'[t] = joined[t] /\ cursor'[t] = cursor[t]
            BY <1>0, <2>2, <2>4 DEF TypeOK
        <3>2. QED
            BY <1>0, <2>2, <3>1, FrameDelivery
    <2>5. QED
        BY <2>3, <2>4
<1>3. ASSUME NEW s \in Subs, SkipUpdate(s) \/ SendOk(s) PROVE DeliveryOf(t)'
    <2>1. CASE s # t
        BY <1>0, <1>3, <2>1, FrameDelivery DEF SkipUpdate, SendOk, executorVars, TypeOK
    <2>2. CASE s = t
        <3>1. held[t] = cursor[t] + 1 /\ held[t] \in 1 .. Len(log)
            BY <1>0, <1>3, <2>2 DEF SkipUpdate, SendOk, WindowOf, HeldIsNext, Hand
        <3>2. /\ log' = log /\ joined'[t] = joined[t] /\ joined[t] <= cursor[t]
              /\ cursor'[t] = cursor[t] + 1 /\ cursor[t] + 1 <= Len(log)
            BY <1>0, <1>3, <2>2, <3>1 DEF SkipUpdate, SendOk, executorVars, TypeOK, WindowOf
        <3>3. \/ ~Matches(t, cursor[t] + 1) /\ delivered'[t] = delivered[t]
              \/ Matches(t, cursor[t] + 1) /\ delivered'[t] = Append(delivered[t], cursor[t] + 1)
            BY <1>0, <1>3, <2>2, <3>1
            DEF SkipUpdate, SendOk, executorVars, TypeOK, WindowOf, HeldIsNext
        <3>4. QED
            BY <1>0, <3>2, <3>3, NextDelivery
    <2>3. QED
        BY <2>1, <2>2
<1>4. ASSUME UNCHANGED <<log, history>> PROVE DeliveryOf(t)'
    BY <1>0, <1>4, FrameDelivery DEF history
<1>5. QED
    BY <1>1, <1>2, <1>3, <1>4
    DEF Next, Executor, SendToNode, executorVars, Broadcast, RemoveClose, Subscribe, Disconnect,
        Cleanup, WatchLoop, Receive, ReceiveClosed, StartSend, SendError, vars
-----------------------------------------------------------------------------
(***************************************************************************)
(* The inductive invariant, and what follows from it.                      *)
(***************************************************************************)

\* Every step keeps the whole of IInv.
LEMMA StepIInv == IInv /\ [Next]_vars => IInv'
    BY StepTInv, StepStage, StepQueue, StepWindow, StepDelivery DEF IInv

\* In every reachable state the list, the queue of jobs, the channels and the
\* history fit together as IInv says.
THEOREM Inductive == Spec => []IInv
<1>1. Init => IInv
    BY InitTInv, InitStageQueue, InitWindow, InitDelivery DEF IInv
<1>2. QED
    BY <1>1, StepIInv, PTL DEF Spec

\* sendEvent never finds a channel closed, neither the one it waits on nor one
\* it has still to serve: Remove and close wait for it in the executor.
THEOREM NeverSendsOnClosed == Spec => []NoSendOnClosed
<1>1. IInv => NoSendOnClosed
    <2> SUFFICES ASSUME IInv, NEW s \in ToSet(remaining) \cup ToSet(subscribers)
                 PROVE  ~closed[s]
        BY DEF NoSendOnClosed
    <2>1. /\ remaining \in Seq(Subs) /\ subscribers \in Seq(Subs)
          /\ IsSuffix(remaining, subscribers)
        BY DEF IInv, TInv, TypeOK, Walk
    <2>2. s \in ToSet(subscribers) /\ s \in Subs
        BY <2>1, SuffixSet, SetOfSeq
    <2>3. QED
        BY <2>2 DEF IInv, Stage
<1>2. QED
    BY <1>1, Inductive, PTL

\* In hand, in the channel and in the running sendEvent, in this order, are the
\* updates from the one after the cursor to the newest.
LEMMA NothingLost ==
    ASSUME IInv, NEW s \in Subs, pc[s] \in Watching, s \in ToSet(subscribers)
    PROVE  (IF pc[s] = "receiving" THEN <<>> ELSE <<held[s]>>)
              \o channel[s]
              \o (IF s \in ToSet(remaining) THEN <<Len(log)>> ELSE <<>>)
           = [k \in 1 .. Len(log) - cursor[s] |-> cursor[s] + k]
<1> DEFINE a == IF pc[s] = "receiving" THEN <<>> ELSE <<held[s]>>
           b == channel[s]
           e == IF s \in ToSet(remaining) THEN <<Len(log)>> ELSE <<>>
           c == cursor[s]
           l == Len(log)
           h == InHand(s)
           n == Len(b)
           m == Missing(s)
<1>1. /\ l \in Nat /\ c \in Nat /\ n \in Nat /\ h \in {0, 1} /\ m \in {0, 1}
      /\ held[s] \in Nat /\ b \in Seq(1 .. l) /\ c <= l
    BY DEF IInv, TInv, TypeOK, InHand, Missing
<1>2. /\ \A j \in 1 .. n : b[j] = c + h + j
      /\ c + h + n + m = l
      /\ h = 1 => held[s] = c + 1
    BY DEF IInv, Window, WindowOf, Contiguous, HeldIsNext, InHand
<1>3. /\ a \in Seq(Nat) /\ Len(a) = h
      /\ \A j \in 1 .. h : a[j] = held[s]
    <2>1. CASE pc[s] = "receiving"
        BY <2>1 DEF InHand
    <2>2. CASE pc[s] # "receiving"
        BY <1>1, <2>2 DEF InHand, Watching
    <2>3. QED
        BY <2>1, <2>2
<1>4. /\ e \in Seq(Nat) /\ Len(e) = m
      /\ \A j \in 1 .. m : e[j] = l
    BY <1>1 DEF Missing
<1>5. b \in Seq(Nat)
    <2>1. 1 .. l \subseteq Nat
        BY <1>1
    <2>2. QED
        BY <1>1, <2>1, SeqMonotonic
<1> HIDE DEF a, b, e, c, l, h, n, m
<1> DEFINE u == a \o b
           w == u \o e
<1>6. /\ u \in Seq(Nat) /\ Len(u) = h + n
      /\ \A j \in 1 .. h + n : u[j] = IF j <= h THEN a[j] ELSE b[j - h]
    BY <1>1, <1>3, <1>5, ConcatProperties DEF n
<1> HIDE DEF u
<1>7. /\ w \in Seq(Nat) /\ Len(w) = h + n + m
      /\ \A j \in 1 .. h + n + m : w[j] = IF j <= h + n THEN u[j] ELSE e[j - (h + n)]
    <2>1. u \in Seq(Nat) /\ e \in Seq(Nat) /\ Len(u) = h + n /\ Len(e) = m
        BY <1>4, <1>6
    <2>2. /\ w \in Seq(Nat) /\ Len(w) = Len(u) + Len(e)
          /\ \A j \in 1 .. Len(u) + Len(e) :
                w[j] = IF j <= Len(u) THEN u[j] ELSE e[j - Len(u)]
        BY <2>1, ConcatProperties
    <2>3. QED
        BY <2>1, <2>2
<1> HIDE DEF w
<1>8. ASSUME NEW j \in 1 .. h + n + m PROVE w[j] = c + j
    <2>1. CASE j <= h
        <3>1. j = 1 /\ h = 1 /\ w[j] = held[s]
            BY <1>1, <1>3, <1>6, <1>7, <2>1
        <3>2. QED
            BY <1>2, <3>1
    <2>2. CASE h < j /\ j <= h + n
        <3>1. j - h \in 1 .. n /\ j \in 1 .. h + n
            BY <1>1, <2>2
        <3>2. u[j] = b[j - h]
            <4>1. ~(j <= h)
                BY <1>1, <2>2
            <4>2. u[j] = IF j <= h THEN a[j] ELSE b[j - h]
                BY <1>6, <3>1
            <4>3. QED
                BY <4>1, <4>2
        <3>3. w[j] = u[j]
            BY <1>7, <2>2
        <3>4. w[j] = c + h + (j - h)
            BY <1>2, <3>1, <3>2, <3>3
        <3>5. QED
            BY <1>1, <3>4
    <2>3. CASE h + n < j
        <3>1. j - (h + n) \in 1 .. m /\ j = h + n + m
            BY <1>1, <2>3
        <3>2. w[j] = l
            BY <1>1, <1>4, <1>7, <2>3, <3>1
        <3>3. QED
            BY <1>1, <1>2, <3>1, <3>2
    <2>4. QED
        BY <1>1, <2>1, <2>2, <2>3
<1> DEFINE z == [k \in 1 .. l - c |-> c + k]
<1>9. l - c = h + n + m /\ l - c \in Nat
    BY <1>1, <1>2
<1>10. z \in Seq(Nat) /\ Len(z) = h + n + m /\ \A j \in 1 .. h + n + m : z[j] = c + j
    BY <1>1, <1>9
<1> HIDE DEF z
<1>11. w = z
    <2>1. Len(w) = Len(z)
        BY <1>7, <1>10
    <2>2. \A j \in 1 .. Len(w) : w[j] = z[j]
        BY <1>7, <1>8, <1>10
    <2>3. QED
        BY <1>7, <1>10, <2>1, <2>2, SeqEqual
<1>12. QED
    BY <1>11 DEF w, u, z, a, b, e, c, l

\* However the blocking walk of sendEvent interleaves with watchers that come,
\* read and leave, none is sent an update twice, out of order or against its
\* query, and while it watches none is lost.
THEOREM DropsNothing == Spec => []NothingDropped
<1>1. IInv => NothingDropped
    <2>1. IInv => \A s \in Subs : DeliveryOf(s)
        BY DEF IInv, Delivery
    <2>2. QED
        BY <2>1, NothingLost DEF NothingDropped, DeliveryOf
<1>2. QED
    BY <1>1, Inductive, PTL
-----------------------------------------------------------------------------
(***************************************************************************)
(* The refinement of EventFeed.                                            *)
(***************************************************************************)

\* The watch of s as EventFeed sees it, the expression NSFanout substitutes
\* for status.
Status == [s \in Subs |-> IF pc[s] \in {"idle", "subscribing"} THEN "off"
                          ELSE IF pc[s] \in Watching THEN "live"
                          ELSE pc[s]]

FeedVars == <<log, Status, cursor, delivered>>

FeedStep == EventFeedRefined!Next \/ UNCHANGED FeedVars

\* Every step is one of EventFeed, or leaves what EventFeed sees alone.
LEMMA StepFeed ==
    ASSUME IInv, [Next]_vars
    PROVE  FeedStep
<1>0. TInv /\ TypeOK /\ Hand /\ Stage /\ Queue /\ Window
    BY DEF IInv, TInv
<1>1. CASE StartSendEvent
    <2>1. Head(jobs).event \in Events
        BY <1>0, <1>1, HeadJob DEF StartSendEvent, NextJob
    <2>2. EventFeedRefined!Publish(Head(jobs).event)
        BY <1>1 DEF StartSendEvent, EventFeedRefined!Publish, findVars, history
    <2>3. QED
        BY <2>1, <2>2 DEF FeedStep, EventFeedRefined!Next
<1>2. CASE PushBack
    <2>1. PICK s \in Subs : s = Head(jobs).sub /\ pc[s] = "subscribing"
        BY <1>0, <1>2, PushJoins
    <2>2. /\ pc' = [pc EXCEPT ![s] = "receiving"]
          /\ cursor' = [cursor EXCEPT ![s] = Len(log)]
          /\ UNCHANGED <<log, delivered>>
        BY <1>2, <2>1 DEF PushBack
    <2>3. Status[s] = "off" /\ Status' = [Status EXCEPT ![s] = "live"]
        BY <1>0, <2>1, <2>2 DEF Status, TypeOK, Watching
    <2>4. EventFeedRefined!Join(s)
        BY <2>1, <2>2, <2>3 DEF EventFeedRefined!Join, Status
    <2>5. QED
        BY <2>4 DEF FeedStep, EventFeedRefined!Next
<1>3. ASSUME NEW s \in Subs, NEW outcome \in Returned, pc[s] \in Watching, Return(s, outcome),
             UNCHANGED <<executorVars, history>>
      PROVE  FeedStep
    <2>1. Status[s] = "live"
        BY <1>3 DEF Status, Watching
    <2>2. Status' = [Status EXCEPT ![s] = outcome]
        BY <1>0, <1>3 DEF Return, Status, TypeOK, Watching, Returned
    <2>3. EventFeedRefined!End(s, outcome)
        BY <1>3, <2>1, <2>2
        DEF EventFeedRefined!End, EventFeedRefined!Active, Status, Returned, executorVars, history
    <2>4. QED
        BY <2>3 DEF FeedStep, EventFeedRefined!Next, EventFeedRefined!Outcomes, Returned
<1>4. ASSUME NEW s \in Subs, ReceiveClosed(s) \/ SendError(s) PROVE FeedStep
    <2>1. pc[s] \in Watching
        BY <1>4 DEF ReceiveClosed, SendError, Watching
    <2>2. QED
        BY <1>3, <1>4, <2>1 DEF ReceiveClosed, SendError, Returned
<1>5. ASSUME NEW s \in Subs, SkipUpdate(s) PROVE FeedStep
    <2>1. held[s] = cursor[s] + 1 /\ held[s] \in 1 .. Len(log)
        BY <1>0, <1>5 DEF SkipUpdate, Window, WindowOf, HeldIsNext, Hand
    <2>2. /\ pc[s] \in Watching /\ log[cursor[s] + 1] \notin Interest[s]
          /\ cursor[s] < Len(log)
        BY <1>0, <1>5, <2>1 DEF SkipUpdate, Matches, Watching, TypeOK
    <2>3. Status' = Status
        BY <1>0, <1>5, <2>2 DEF SkipUpdate, Status, TypeOK, Watching
    <2>4. EventFeedRefined!Skip(s)
        BY <1>0, <1>5, <2>1, <2>2, <2>3
        DEF SkipUpdate, Status, EventFeedRefined!Skip, EventFeedRefined!Advance,
            EventFeedRefined!Active, executorVars, TypeOK, Watching
    <2>5. QED
        BY <2>4 DEF FeedStep, EventFeedRefined!Next
<1>6. ASSUME NEW s \in Subs, SendOk(s) PROVE FeedStep
    <2>1. held[s] = cursor[s] + 1 /\ held[s] \in 1 .. Len(log) /\ Matches(s, held[s])
        BY <1>0, <1>6 DEF SendOk, Window, WindowOf, HeldIsNext, Hand
    <2>2. /\ pc[s] \in Watching /\ log[cursor[s] + 1] \in Interest[s]
          /\ cursor[s] < Len(log)
        BY <1>0, <1>6, <2>1 DEF SendOk, Matches, Watching, TypeOK
    <2>3. Status' = Status
        BY <1>0, <1>6, <2>2 DEF SendOk, Status, TypeOK, Watching
    <2>4. EventFeedRefined!Deliver(s)
        BY <1>0, <1>6, <2>1, <2>2, <2>3
        DEF SendOk, Status, EventFeedRefined!Deliver, EventFeedRefined!Advance,
            EventFeedRefined!Active, executorVars, TypeOK, Watching
    <2>5. QED
        BY <2>4 DEF FeedStep, EventFeedRefined!Next
<1>7. ASSUME NEW s \in Subs, Subscribe(s) \/ Receive(s) \/ StartSend(s) PROVE FeedStep
    <2>1. Status' = Status
        BY <1>0, <1>7 DEF Subscribe, Receive, StartSend, Status, TypeOK, Watching
    <2>2. QED
        BY <1>7, <2>1 DEF Subscribe, Receive, StartSend, FeedStep, FeedVars, executorVars, history
<1>8. ASSUME UNCHANGED <<log, pc, history>> PROVE FeedStep
    BY <1>8 DEF FeedStep, FeedVars, Status, history
<1>9. ASSUME NEW e \in Events, Broadcast(e) PROVE FeedStep
    BY <1>8, <1>9 DEF Broadcast, findVars
<1>10. CASE SendToNode \/ RemoveClose
    BY <1>8, <1>10 DEF SendToNode, RemoveClose, findVars
<1>11. ASSUME NEW s \in Subs, Disconnect(s) \/ Cleanup(s) PROVE FeedStep
    BY <1>8, <1>11 DEF Disconnect, Cleanup, executorVars, findVars
<1>12. CASE UNCHANGED vars
    BY <1>8, <1>12 DEF vars, executorVars, findVars
<1>13. QED
    BY <1>1, <1>2, <1>4, <1>5, <1>6, <1>7, <1>9, <1>10, <1>11, <1>12
    DEF Next, Executor, WatchLoop

\* The blocking fan-out implements EventFeed, the promise of the one that drops
\* and marks, and never needs the steps for a watcher that was overrun.
THEOREM Refinement == Spec => ImplementsFeed
<1>1. Init => EventFeedRefined!Init
    BY DEF Init, EventFeedRefined!Init
<1>2. FeedStep => [EventFeedRefined!Next]_(EventFeedRefined!feedVars)
    BY DEF FeedStep, FeedVars, Status, EventFeedRefined!feedVars
<1>3. QED
    BY <1>1, <1>2, StepFeed, Inductive, PTL DEF Spec, ImplementsFeed, EventFeedRefined!Spec
-----------------------------------------------------------------------------
(***************************************************************************)
(* The wedge.                                                              *)
(***************************************************************************)

\* Every job waits for the end of the walk; a watch that has returned takes no
\* step, and nobody else reads its channel.
LEMMA StepWedged ==
    ASSUME TInv, NEW s \in Subs, WedgedOn(s), [Next]_vars
    PROVE  /\ WedgedOn(s)'
           /\ \A t \in Subs : pc[t] = "subscribing" => pc'[t] = "subscribing"
<1>0. TypeOK
    BY DEF TInv
<1>1. remaining # <<>> /\ Head(remaining) = s /\ Full(s) /\ pc[s] \in Returned
    BY DEF WedgedOn
<1>2. ~Executor
    BY <1>1 DEF Executor, StartSendEvent, SendToNode, PushBack, RemoveClose, NextJob
<1>3. ASSUME remaining' = remaining, channel'[s] = channel[s], pc'[s] = pc[s],
             \A t \in Subs : pc[t] = "subscribing" => pc'[t] = "subscribing"
      PROVE  /\ WedgedOn(s)'
             /\ \A t \in Subs : pc[t] = "subscribing" => pc'[t] = "subscribing"
    BY <1>1, <1>3 DEF WedgedOn, Full
<1>4. ASSUME NEW e \in Events, Broadcast(e)
      PROVE  UNCHANGED <<remaining, channel, pc>>
    BY <1>4 DEF Broadcast, findVars
<1>5. ASSUME NEW t \in Subs, Disconnect(t) \/ Cleanup(t)
      PROVE  UNCHANGED <<remaining, channel, pc>>
    BY <1>5 DEF Disconnect, Cleanup, executorVars, findVars
<1>6. ASSUME NEW t \in Subs, Subscribe(t)
      PROVE  /\ UNCHANGED <<remaining, channel>>
             /\ pc[t] = "idle"
             /\ pc' = [pc EXCEPT ![t] = "subscribing"]
    BY <1>6 DEF Subscribe
<1>7. ASSUME NEW t \in Subs, WatchLoop(t) \/ SendOk(t) \/ SendError(t)
      PROVE  /\ pc[t] \in Watching /\ remaining' = remaining
             /\ \E p : pc' = [pc EXCEPT ![t] = p]
             /\ \A r \in Subs : r # t => channel'[r] = channel[r]
    <2>1. CASE Receive(t)
        BY <1>0, <2>1 DEF Receive, Watching, executorVars, TypeOK
    <2>2. CASE ReceiveClosed(t)
        BY <2>2 DEF ReceiveClosed, Return, Watching, executorVars
    <2>3. CASE SkipUpdate(t)
        BY <2>3 DEF SkipUpdate, Watching, executorVars
    <2>4. CASE StartSend(t)
        BY <2>4 DEF StartSend, Watching, executorVars
    <2>5. CASE SendOk(t) \/ SendError(t)
        BY <2>5 DEF SendOk, SendError, Return, Watching, executorVars
    <2>6. QED
        BY <1>7, <2>1, <2>2, <2>3, <2>4, <2>5 DEF WatchLoop
<1>8. CASE UNCHANGED <<remaining, channel, pc>>
    BY <1>3, <1>8
<1>9. ASSUME NEW t \in Subs, Subscribe(t)
      PROVE  /\ WedgedOn(s)'
             /\ \A r \in Subs : pc[r] = "subscribing" => pc'[r] = "subscribing"
    <2>1. t # s
        BY <1>1, <1>6, <1>9 DEF Returned
    <2>2. pc'[s] = pc[s] /\ \A r \in Subs : pc[r] = "subscribing" => pc'[r] = "subscribing"
        BY <1>0, <1>6, <1>9, <2>1 DEF TypeOK
    <2>3. QED
        BY <1>3, <1>6, <1>9, <2>2
<1>10. ASSUME NEW t \in Subs, WatchLoop(t) \/ SendOk(t) \/ SendError(t)
       PROVE  /\ WedgedOn(s)'
              /\ \A r \in Subs : pc[r] = "subscribing" => pc'[r] = "subscribing"
    <2>1. /\ pc[t] \in Watching /\ remaining' = remaining
          /\ \E p : pc' = [pc EXCEPT ![t] = p]
          /\ \A r \in Subs : r # t => channel'[r] = channel[r]
        BY <1>7, <1>10
    <2>2. t # s /\ pc[t] # "subscribing"
        BY <1>1, <2>1 DEF Returned, Watching
    <2>3. pc'[s] = pc[s] /\ \A r \in Subs : pc[r] = "subscribing" => pc'[r] = "subscribing"
        BY <1>0, <2>1, <2>2 DEF TypeOK
    <2>4. QED
        BY <1>3, <2>1, <2>2, <2>3
<1>11. UNCHANGED vars => UNCHANGED <<remaining, channel, pc>>
    BY DEF vars, executorVars, findVars
<1>12. QED
    BY <1>2, <1>4, <1>5, <1>8, <1>9, <1>10, <1>11 DEF Next

\* Once sendEvent waits for room in the channel of a watch that has returned, it
\* waits for ever, and so does every Find in wg.Wait(): not for want of fairness,
\* no step of any goroutine leads out of it.
THEOREM StaysWedged == Spec => WedgedForGood
<1>1. TInv /\ [Next]_vars =>
         \A s \in Subs : WedgedOn(s) =>
            /\ WedgedOn(s)'
            /\ \A t \in Subs : pc[t] = "subscribing" => pc'[t] = "subscribing"
    BY StepWedged
<1>2. QED
    BY <1>1, InitTInv, StepTInv, PTL DEF Spec, WedgedForGood
=============================================================================
