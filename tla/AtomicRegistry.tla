--------------------------- MODULE AtomicRegistry ---------------------------
(***************************************************************************)
(* What a set of registry replicas over one API server promises about the  *)
(* entries.  A Register in flight puts its whole payload in one step, at   *)
(* most once, and returns without error only after it did.  An entry goes  *)
(* away in one of three ways: an Unregister of its name is in flight, the  *)
(* replica that wrote that very version gives it up, or its ExpirationTime *)
(* is past.                                                                *)
(*                                                                         *)
(* A slot is a pair <<replica, name>>: a replica runs one call at a time   *)
(* for a name.                                                             *)
(***************************************************************************)
EXTENDS Naturals

CONSTANTS Slots,    \* the pairs <<replica, name>>
          Keys,     \* the keys of the store
          Homes,    \* the placements: replica -> namespace it registers into
          Times,    \* the expiration times, 0 when there is none
          NoEntry   \* the value of a free key

VARIABLES home,     \* the placement, chosen once
          entry,    \* what is registered under a key
          serial,   \* the number of puts so far; each gets a version of its own
          now,      \* the clock
          call,     \* the call in flight in a slot
          owned     \* the version whose expiry the slot watches over, 0 if none

registryVars == <<home, entry, serial, now, call, owned>>

Idle == [op |-> "none"]
Registering(t) == [op |-> "register", expires |-> t]
Registered(v) == [op |-> "registered", version |-> v]
Removing(c, v) == [op |-> "remove", cause |-> c, version |-> v]

Expired(t) == t # 0 /\ t < now

\* The key that the slot x works on.
KeyAt(x) == <<home[x[1]], x[2]>>

Init ==
    /\ home \in Homes
    /\ entry = [k \in Keys |-> NoEntry]
    /\ serial = 0
    /\ now = 0
    /\ call = [x \in Slots |-> Idle]
    /\ owned = [x \in Slots |-> 0]

SetCall(x, c) == call' = [call EXCEPT ![x] = c]

BeginRegister(x, t) ==
    /\ call[x] = Idle
    /\ SetCall(x, Registering(t))
    /\ UNCHANGED <<entry, serial, now, owned>>

\* The put; the call is over at once when its answer is lost.
Put(x) ==
    /\ call[x].op = "register"
    /\ entry' = [entry EXCEPT ![KeyAt(x)] =
                     [version |-> serial + 1, by |-> x[1], expires |-> call[x].expires]]
    /\ serial' = serial + 1
    /\ SetCall(x, Registered(serial + 1)) \/ SetCall(x, Idle)
    /\ UNCHANGED <<now, owned>>

ReturnOk(x) ==
    /\ call[x].op = "registered"
    /\ SetCall(x, Idle)
    /\ owned' = [owned EXCEPT ![x] = call[x].version]
    /\ UNCHANGED <<entry, serial, now>>

\* An Unregister by a caller takes away whatever version there is, the expiry
\* of a registration only that one.
BeginRemove(x) ==
    /\ call[x] = Idle
    /\ \/ SetCall(x, Removing("caller", 0))
       \/ owned[x] # 0 /\ SetCall(x, Removing("timer", owned[x]))
    /\ owned' = [owned EXCEPT ![x] = 0]
    /\ UNCHANGED <<entry, serial, now>>

Remove(x) ==
    /\ call[x].op = "remove"
    /\ entry[KeyAt(x)] # NoEntry
    /\ call[x].cause = "timer" => call[x].version = entry[KeyAt(x)].version
    /\ entry' = [entry EXCEPT ![KeyAt(x)] = NoEntry]
    /\ SetCall(x, Idle)
    /\ UNCHANGED <<serial, now, owned>>

\* Any call may end without effect.
GiveUp(x) ==
    /\ SetCall(x, Idle)
    /\ UNCHANGED <<entry, serial, now, owned>>

Collect(k) ==
    /\ entry[k] # NoEntry
    /\ Expired(entry[k].expires)
    /\ entry' = [entry EXCEPT ![k] = NoEntry]
    /\ UNCHANGED <<serial, now, call, owned>>

\* The slots X of a replica forget all they knew: it restarted.
Forget(X) ==
    /\ call' = [x \in Slots |-> IF x \in X THEN Idle ELSE call[x]]
    /\ owned' = [x \in Slots |-> IF x \in X THEN 0 ELSE owned[x]]
    /\ UNCHANGED <<entry, serial, now>>

Tick ==
    /\ now' = now + 1
    /\ UNCHANGED <<entry, serial, call, owned>>

Next ==
    \/ \E x \in Slots :
          \/ \E t \in Times : BeginRegister(x, t)
          \/ Put(x)
          \/ ReturnOk(x)
          \/ BeginRemove(x)
          \/ Remove(x)
          \/ GiveUp(x)
    \/ \E k \in Keys : Collect(k)
    \/ \E y \in Slots : Forget({x \in Slots : x[1] = y[1]})
    \/ Tick

Spec == Init /\ [][UNCHANGED home /\ Next]_registryVars
=============================================================================
