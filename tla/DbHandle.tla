------------------------------ MODULE DbHandle ------------------------------
(***************************************************************************)
(* The thread-safe handle DB of src/src/engine.rs, an Arc around a mutex    *)
(* around the engine, and the HTTP server that shares one handle among its  *)
(* requests.  Owners are threads that may hold a handle of their own: they  *)
(* clone, drop and close it.  Requests are the handler tasks of the server. *)
(*                                                                         *)
(* The engine is what the calls can tell of it: how many writes it has      *)
(* applied.  A method reads that state first and changes it last, so that   *)
(* two methods running at once would lose a write.                          *)
(***************************************************************************)
EXTENDS Integers, FiniteSets

CONSTANTS
    Owners,      \* threads that may hold a handle
    Requests,    \* handler tasks of the HTTP server
    Server,      \* the server's own handle, in AppState
    Nobody,      \* no thread
    MaxCalls     \* bound: calls in all

Threads == Owners \cup Requests

ASSUME ThreadsAssumption ==
    /\ IsFiniteSet(Owners) /\ IsFiniteSet(Requests) /\ Owners \cap Requests = {}
    /\ Server \notin Threads /\ Nobody \notin Threads
    /\ MaxCalls \in Nat

VARIABLES
    refs,             \* holders of the Arc
    holder,           \* thread inside the mutex, or Nobody
    poisoned,         \* a thread panicked inside the mutex
    engine,           \* "open", "closed" by close, or "dropped" without it
    applied,          \* writes applied to the engine
    writes, deletes, reads,   \* Metrics
    pc, method,       \* what each thread is doing, and in which method
    found,            \* applied as the running method found it; at the end, its answer
    asked,            \* history: writes acknowledged when the call began
    acked, begun,     \* history: writes acknowledged, writes asked for
    batches,          \* history: batches applied
    calls             \* calls so far

metrics == <<writes, deletes, reads>>
local == <<pc, method, found, asked>>
counts == <<acked, begun, calls>>
vars == <<refs, holder, poisoned, engine, applied, metrics, local, counts, batches>>

(* put stands for put_with_ttl too, scan for prefix_scan and get_at, and    *)
(* metrics for snapshot.                                                    *)
Methods == {"put", "delete", "batch", "get", "scan", "metrics"}
Mutating == {"put", "delete", "batch"}

TypeOK ==
    /\ refs \subseteq Owners \cup {Server}
    /\ holder \in Threads \cup {Nobody} /\ poisoned \in BOOLEAN
    /\ engine \in {"open", "closed", "dropped"}
    /\ applied \in Nat /\ writes \in Nat /\ deletes \in Nat /\ reads \in Nat
    /\ pc \in [Threads -> {"idle", "calling", "inside", "done", "failed",
                           "unwrapped", "refused", "gone"}]
    /\ method \in [Threads -> Methods] /\ found \in [Threads -> Nat]
    /\ asked \in [Threads -> Nat]
    /\ acked \in Nat /\ begun \in Nat /\ batches \in Nat /\ calls \in Nat

(* One thread opens the database; or the server does, or both have a handle. *)
Init ==
    /\ \E o \in Owners : refs \in {{o}, {o, Server}}
    /\ holder = Nobody /\ poisoned = FALSE /\ engine = "open"
    /\ applied = 0 /\ writes = 0 /\ deletes = 0 /\ reads = 0
    /\ pc = [t \in Threads |-> "idle"] /\ method = [t \in Threads |-> "get"]
    /\ found = [t \in Threads |-> 0] /\ asked = [t \in Threads |-> 0]
    /\ acked = 0 /\ begun = 0 /\ batches = 0 /\ calls = 0

(* A request borrows the handle of the server.                              *)
Handle(t) == IF t \in Requests THEN Server ELSE t

----------------------------------------------------------------------------
(* A method of DB is called.                                                *)
Call(t, m) ==
    /\ pc[t] = "idle" /\ Handle(t) \in refs /\ calls < MaxCalls
    /\ pc' = [pc EXCEPT ![t] = "calling"]
    /\ method' = [method EXCEPT ![t] = m]
    /\ asked' = [asked EXCEPT ![t] = acked]
    /\ begun' = IF m \in Mutating THEN begun + 1 ELSE begun
    /\ calls' = calls + 1
    /\ UNCHANGED <<refs, holder, poisoned, engine, applied, metrics, found, acked, batches>>

(* The routes of the server that call the database; the other handlers      *)
(* (health, stats, compact) touch nothing.                                  *)
GetKey(t) == Call(t, "get")
PutKey(t) == Call(t, "put")
DeleteKey(t) == Call(t, "delete")
MetricsPage(t) == Call(t, "metrics")

HttpRequest(t) == GetKey(t) \/ PutKey(t) \/ DeleteKey(t) \/ MetricsPage(t)

(* Mutant of Lock: the thread goes by what it saw before it had the lock.   *)
LockStale(t) ==
    /\ pc[t] = "calling" /\ holder = Nobody /\ ~poisoned
    /\ holder' = t
    /\ pc' = [pc EXCEPT ![t] = "inside"]
    /\ UNCHANGED <<refs, poisoned, engine, applied, metrics, method, found, asked, counts, batches>>

(* Mutant of Lock: the mutex notes the handle, not the thread.              *)
LockByHandle(t) ==
    /\ pc[t] = "calling" /\ holder = Nobody /\ ~poisoned
    /\ holder' = Handle(t)
    /\ pc' = [pc EXCEPT ![t] = "inside"]
    /\ found' = [found EXCEPT ![t] = applied]
    /\ UNCHANGED <<refs, poisoned, engine, applied, metrics, method, asked, counts, batches>>

(* Mutant of Lock: the poison of an earlier panic is ignored.               *)
LockPoisoned(t) ==
    /\ pc[t] = "calling" /\ holder = Nobody
    /\ holder' = t
    /\ pc' = [pc EXCEPT ![t] = "inside"]
    /\ found' = [found EXCEPT ![t] = applied]
    /\ UNCHANGED <<refs, poisoned, engine, applied, metrics, method, asked, counts, batches>>

(* lock() succeeds and the method begins.                                   *)
Lock(t) ==
    /\ pc[t] = "calling" /\ holder = Nobody /\ ~poisoned
    /\ holder' = t
    /\ pc' = [pc EXCEPT ![t] = "inside"]
    /\ found' = [found EXCEPT ![t] = applied]
    /\ UNCHANGED <<refs, poisoned, engine, applied, metrics, method, asked, counts, batches>>

(* The locals of a call end with it.                                        *)
Forget(t) ==
    /\ method' = [method EXCEPT ![t] = "get"]
    /\ found' = [found EXCEPT ![t] = 0] /\ asked' = [asked EXCEPT ![t] = 0]

(* The Arc loses holders; with the last one the engine is dropped.          *)
Release(gone) ==
    /\ refs' = refs \ gone
    /\ engine' = IF refs \ gone = {} /\ engine = "open" THEN "dropped" ELSE engine

(* A panic unwinds an owner's thread and drops its handle; it ends a        *)
(* request, and the task is free for the next one.                          *)
Unwind(t) ==
    /\ pc' = [pc EXCEPT ![t] = IF t \in Owners THEN "gone" ELSE "idle"]
    /\ Release({t})

(* Mutant of LockPanics: a poisoned mutex never opens again.                *)
LockPanicsNever(t) == FALSE /\ UNCHANGED vars

(* unwrap of lock() on a poisoned mutex panics.                             *)
LockPanics(t) ==
    /\ pc[t] = "calling" /\ holder = Nobody /\ poisoned
    /\ Unwind(t) /\ Forget(t)
    /\ UNCHANGED <<holder, poisoned, applied, metrics, counts, batches>>

(* Mutant of Effect: a delete counts as a write as well.                    *)
EffectTwice(t) ==
    /\ applied' = IF method[t] \in Mutating THEN found[t] + 1 ELSE applied
    /\ writes' = IF method[t] \in {"put", "delete"} THEN writes + 1 ELSE writes
    /\ deletes' = IF method[t] = "delete" THEN deletes + 1 ELSE deletes
    /\ reads' = IF method[t] = "get" THEN reads + 1 ELSE reads
    /\ batches' = IF method[t] = "batch" THEN batches + 1 ELSE batches

(* The engine's part of the method.  A read counts itself first.            *)
Effect(t) ==
    /\ applied' = IF method[t] \in Mutating THEN found[t] + 1 ELSE applied
    /\ writes' = IF method[t] = "put" THEN writes + 1 ELSE writes
    /\ deletes' = IF method[t] = "delete" THEN deletes + 1 ELSE deletes
    /\ reads' = IF method[t] = "get" THEN reads + 1 ELSE reads
    /\ batches' = IF method[t] = "batch" THEN batches + 1 ELSE batches

(* The method returns and the guard is dropped.  An error leaves the effect *)
(* (flush or compaction failed after the memtable was written) or none (the *)
(* log could not be written).                                               *)
Finish(t) ==
    /\ pc[t] = "inside"
    /\ holder' = Nobody
    /\ \/ Effect(t) /\ pc' = [pc EXCEPT ![t] = "done"]
       \/ /\ method[t] # "metrics"
          /\ Effect(t) \/ (method[t] \in Mutating /\ UNCHANGED <<applied, metrics, batches>>)
          /\ pc' = [pc EXCEPT ![t] = "failed"]
    /\ UNCHANGED <<refs, poisoned, engine, method, found, asked, counts>>

(* The method panics somewhere on its way, before its effect, behind it, or *)
(* between the write and its counter: the mutex is poisoned.                *)
Panic(t) ==
    /\ pc[t] = "inside"
    /\ holder' = Nobody /\ poisoned' = TRUE
    /\ \/ Effect(t)
       \/ /\ applied' \in {applied, IF method[t] \in Mutating THEN found[t] + 1 ELSE applied}
          /\ UNCHANGED <<metrics, batches>>
    /\ Unwind(t) /\ Forget(t)
    /\ UNCHANGED counts

(* The caller has its answer.                                               *)
Return(t) ==
    /\ pc[t] \in {"done", "failed"}
    /\ pc' = [pc EXCEPT ![t] = "idle"]
    /\ acked' = IF pc[t] = "done" /\ method[t] \in Mutating THEN acked + 1 ELSE acked
    /\ Forget(t)
    /\ UNCHANGED <<refs, holder, poisoned, engine, applied, metrics, begun, calls, batches>>

----------------------------------------------------------------------------
Clone(o, p) ==
    /\ pc[o] = "idle" /\ o \in refs
    /\ pc[p] = "idle" /\ p \notin refs
    /\ refs' = refs \cup {p}
    /\ UNCHANGED <<holder, poisoned, engine, applied, metrics, local, counts, batches>>

DropHandle(o) ==
    /\ pc[o] = "idle" /\ o \in refs
    /\ Release({o})
    /\ UNCHANGED <<holder, poisoned, applied, metrics, local, counts, batches>>

(* Mutant of Close: the engine is taken out although others hold it.        *)
CloseShared(o) ==
    /\ pc[o] = "idle" /\ o \in refs
    /\ refs' = refs \ {o} /\ pc' = [pc EXCEPT ![o] = "unwrapped"]
    /\ UNCHANGED <<holder, poisoned, engine, applied, metrics, method, found, asked, counts,
                   batches>>

(* close: try_unwrap takes the engine out of its Arc when this handle is    *)
(* the only one (a poisoned mutex makes into_inner().unwrap() panic), and   *)
(* otherwise hands the Arc back ...                                         *)
Close(o) ==
    /\ pc[o] = "idle" /\ o \in refs
    /\ IF refs # {o}
       THEN UNCHANGED <<refs, engine>> /\ pc' = [pc EXCEPT ![o] = "refused"]
       ELSE IF poisoned THEN Unwind(o)
       ELSE refs' = {} /\ UNCHANGED engine /\ pc' = [pc EXCEPT ![o] = "unwrapped"]
    /\ UNCHANGED <<holder, poisoned, applied, metrics, method, found, asked, counts, batches>>

(* ... which map_err drops: a moment later it may have become the last.     *)
CloseRefused(o) ==
    /\ pc[o] = "refused"
    /\ pc' = [pc EXCEPT ![o] = "gone"]
    /\ Release({o})
    /\ UNCHANGED <<holder, poisoned, applied, metrics, method, found, asked, counts, batches>>

(* Engine::close on the engine that was taken out; it may fail.             *)
CloseEngine(o) ==
    /\ pc[o] = "unwrapped"
    /\ pc' = [pc EXCEPT ![o] = "gone"]
    /\ engine' \in {"closed", "dropped"}
    /\ UNCHANGED <<refs, holder, poisoned, applied, metrics, method, found, asked, counts,
                   batches>>

----------------------------------------------------------------------------
(* What a thread does by itself once it is in a call or in close.           *)
Progress(t) ==
    \/ Lock(t) \/ LockPanics(t) \/ Finish(t) \/ Panic(t) \/ Return(t)
    \/ CloseRefused(t) \/ CloseEngine(t)

Next ==
    \/ \E t \in Threads : Progress(t)
    \/ \E t \in Requests : HttpRequest(t)
    \/ \E o \in Owners, m \in Methods : Call(o, m)
    \/ \E o, p \in Owners : Clone(o, p)
    \/ \E o \in Owners : DropHandle(o) \/ Close(o)

Spec == Init /\ [][Next]_vars
FairSpec == Spec /\ \A t \in Threads : WF_vars(Progress(t))

----------------------------------------------------------------------------
(* Exclusive: one thread at a time is inside the engine, the one that holds *)
(* the mutex; the engine is taken out only when no handle is left and no    *)
(* call is under way, and once it is closed or dropped none ever is.        *)
Busy(t) == pc[t] \in {"calling", "inside", "done", "failed"}

Exclusive ==
    /\ \A t \in Threads : pc[t] = "inside" <=> holder = t
    /\ \A o \in Owners : pc[o] = "unwrapped" =>
           /\ refs = {} /\ engine = "open"
           /\ \A t \in Threads \ {o} : ~Busy(t) /\ pc[t] # "unwrapped"
    /\ engine # "open" => refs = {} /\ \A t \in Threads : ~Busy(t)

(* ReadsRecent: a call sees every write that was acknowledged before it     *)
(* began, on whichever thread.                                              *)
ReadsRecent == \A t \in Threads : pc[t] \in {"inside", "done"} => found[t] >= asked[t]

(* MetricsExact: outside the mutex, and unless a method panicked, the       *)
(* counters agree with the engine: every write is counted once, whether the *)
(* call returned an error or not, apart from batches, which are not counted.*)
MetricsExact ==
    holder = Nobody /\ ~poisoned =>
        /\ applied = writes + deletes + batches
        /\ acked <= applied /\ applied <= begun

(* PanicHidden: after a panic inside the engine nobody changes or reads it  *)
(* again: what the panic left half done is never seen, and never closed.    *)
HiddenStep ==
    poisoned => /\ UNCHANGED <<applied, metrics>>
                /\ engine' = "closed" => engine = "closed"

PanicHidden == [][HiddenStep]_vars

(* CallsReturn: a call comes back, with an answer or a panic, as long as    *)
(* the others do not call for ever; nobody waits for a lock that is kept.   *)
CallsReturn == \A t \in Threads : pc[t] # "idle" ~> pc[t] \in {"idle", "gone"}
=============================================================================
