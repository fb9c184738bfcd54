------------------------------ MODULE KVStore ------------------------------
(***************************************************************************)
(* What the public API of the engine promises to one client: a map from    *)
(* keys to values.  put and put_with_ttl set a key, delete clears it, a     *)
(* key whose time-to-live has run out reads as missing, and nothing else    *)
(* ever changes what a key reads as.  Flushes, compactions, manifest saves  *)
(* and log truncations do not exist at this level.                          *)
(***************************************************************************)
EXTENDS Integers

CONSTANTS
    Keys,      \* keys a client uses
    Vals,      \* values a client writes
    Absent,    \* what get returns for a key with no live value
    TTLs       \* time-to-live arguments of put_with_ttl, in seconds

VARIABLES
    store,     \* what get returns for each key
    expiry,    \* when the value of a key expires; Never when it does not
    now        \* wall clock, in seconds

vars == <<store, expiry, now>>

Never == -1

Init ==
    /\ store = [k \in Keys |-> Absent]
    /\ expiry = [k \in Keys |-> Never]
    /\ now = 0

(* Writing a value that has already expired leaves the key missing.        *)
Write(k, v, e) ==
    /\ IF e # Never /\ e <= now
       THEN /\ store' = [store EXCEPT ![k] = Absent]
            /\ expiry' = [expiry EXCEPT ![k] = Never]
       ELSE /\ store' = [store EXCEPT ![k] = v]
            /\ expiry' = [expiry EXCEPT ![k] = e]
    /\ UNCHANGED now

Put(k, v) == Write(k, v, Never)

PutTtl(k, v, ttl) == Write(k, v, now + ttl)

Delete(k) ==
    /\ store' = [store EXCEPT ![k] = Absent]
    /\ expiry' = [expiry EXCEPT ![k] = Never]
    /\ UNCHANGED now

(* A second passes: exactly the values whose time has come disappear.      *)
Tick ==
    /\ now' = now + 1
    /\ LET gone == {k \in Keys : expiry[k] # Never /\ expiry[k] <= now'}
       IN  /\ store' = [k \in Keys |-> IF k \in gone THEN Absent ELSE store[k]]
           /\ expiry' = [k \in Keys |-> IF k \in gone THEN Never ELSE expiry[k]]

Next ==
    \/ \E k \in Keys, v \in Vals : Put(k, v)
    \/ \E k \in Keys, v \in Vals, ttl \in TTLs : PutTtl(k, v, ttl)
    \/ \E k \in Keys : Delete(k)
    \/ Tick

Spec == Init /\ [][Next]_vars
=============================================================================
