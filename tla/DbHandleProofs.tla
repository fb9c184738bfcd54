--------------------------- MODULE DbHandleProofs ---------------------------
(***************************************************************************)
(* Proofs about the shared handle, for any number of threads and requests.  *)
(***************************************************************************)
EXTENDS DbHandle, FiniteSetTheorems, TLAPS

(* Who holds what: a thread in a call, and one whose close was refused,     *)
(* still hold a reference; an engine that was taken out of its Arc belongs  *)
(* to one thread, and nobody holds a closed or dropped one.                 *)
LockInv == \A t \in Threads : pc[t] = "inside" <=> holder = t

RefsInv ==
    \A t \in Threads : /\ Busy(t) => Handle(t) \in refs
                       /\ pc[t] = "refused" => t \in refs

TakenInv ==
    /\ \A t \in Threads : pc[t] = "unwrapped" =>
           /\ refs = {} /\ engine = "open"
           /\ \A u \in Threads \ {t} : pc[u] # "unwrapped"
    /\ engine # "open" => refs = {}

LifeInv == TypeOK /\ LockInv /\ RefsInv /\ TakenInv

LEMMA InitLife == Init => LifeInv
<1> SUFFICES ASSUME Init PROVE LifeInv
  OBVIOUS
<1>1. PICK o \in Owners : refs = {o} \/ refs = {o, Server}
  BY DEF Init
<1>2. refs \subseteq Owners \cup {Server}
  BY <1>1
<1>3. TypeOK
  BY <1>2 DEF Init, TypeOK, Methods
<1> QED
  BY <1>3, ThreadsAssumption DEF Init, LifeInv, LockInv, RefsInv, TakenInv, Busy

(* The methods: a call, the lock, the end of a method.                      *)
LEMMA CallLife ==
  ASSUME LifeInv, NEW t \in Threads, NEW m \in Methods, Call(t, m)
  PROVE  LifeInv'
  BY ThreadsAssumption DEF LifeInv, TypeOK, LockInv, RefsInv, TakenInv, Busy, Handle, Threads,
     Call, metrics

LEMMA LockLife ==
  ASSUME LifeInv, NEW t \in Threads, Lock(t)
  PROVE  LifeInv'
  BY ThreadsAssumption DEF LifeInv, TypeOK, LockInv, RefsInv, TakenInv, Busy, Handle, Threads,
     Lock, metrics, counts

LEMMA LockPanicsLife ==
  ASSUME LifeInv, NEW t \in Threads, LockPanics(t)
  PROVE  LifeInv'
  BY ThreadsAssumption DEF LifeInv, TypeOK, LockInv, RefsInv, TakenInv, Busy, Handle, Threads,
     LockPanics, Unwind, Release, Forget, metrics, counts, Methods

LEMMA FinishLife ==
  ASSUME LifeInv, NEW t \in Threads, Finish(t)
  PROVE  LifeInv'
  BY ThreadsAssumption DEF LifeInv, TypeOK, LockInv, RefsInv, TakenInv, Busy, Handle, Threads,
     Finish, Effect, metrics, counts

LEMMA PanicLife ==
  ASSUME LifeInv, NEW t \in Threads, Panic(t)
  PROVE  LifeInv'
  BY ThreadsAssumption DEF LifeInv, TypeOK, LockInv, RefsInv, TakenInv, Busy, Handle, Threads,
     Panic, Effect, Unwind, Release, Forget, metrics, counts, Methods

LEMMA ReturnLife ==
  ASSUME LifeInv, NEW t \in Threads, Return(t)
  PROVE  LifeInv'
  BY ThreadsAssumption DEF LifeInv, TypeOK, LockInv, RefsInv, TakenInv, Busy, Handle, Threads,
     Return, Forget, metrics, Methods

(* The handles: clone, drop, close.                                         *)
LEMMA CloneLife ==
  ASSUME LifeInv, NEW o \in Owners, NEW p \in Owners, Clone(o, p)
  PROVE  LifeInv'
  BY ThreadsAssumption DEF LifeInv, TypeOK, LockInv, RefsInv, TakenInv, Busy, Handle, Threads,
     Clone, metrics, local, counts

LEMMA DropHandleLife ==
  ASSUME LifeInv, NEW o \in Owners, DropHandle(o)
  PROVE  LifeInv'
  BY ThreadsAssumption DEF LifeInv, TypeOK, LockInv, RefsInv, TakenInv, Busy, Handle, Threads,
     DropHandle, Release, metrics, local, counts

LEMMA CloseLife ==
  ASSUME LifeInv, NEW o \in Owners, Close(o)
  PROVE  LifeInv'
  BY ThreadsAssumption DEF LifeInv, TypeOK, LockInv, RefsInv, TakenInv, Busy, Handle, Threads,
     Close, Unwind, Release, metrics, counts

LEMMA CloseRefusedLife ==
  ASSUME LifeInv, NEW t \in Threads, CloseRefused(t)
  PROVE  LifeInv'
  BY ThreadsAssumption DEF LifeInv, TypeOK, LockInv, RefsInv, TakenInv, Busy, Handle, Threads,
     CloseRefused, Release, metrics, counts

LEMMA CloseEngineLife ==
  ASSUME LifeInv, NEW t \in Threads, CloseEngine(t)
  PROVE  LifeInv'
  BY ThreadsAssumption DEF LifeInv, TypeOK, LockInv, RefsInv, TakenInv, Busy, Handle, Threads,
     CloseEngine, metrics, counts

(* A request is a call, so that Next has one case per action.               *)
LEMMA RequestIsCall ==
  ASSUME NEW t \in Requests, HttpRequest(t)
  PROVE  \E m \in Methods : Call(t, m)
  BY DEF HttpRequest, GetKey, PutKey, DeleteKey, MetricsPage, Methods

LEMMA StutterLife ==
  ASSUME LifeInv, UNCHANGED vars
  PROVE  LifeInv'
  BY DEF LifeInv, TypeOK, LockInv, RefsInv, TakenInv, Busy, vars, metrics, local, counts

LEMMA LifeStep ==
  ASSUME LifeInv, [Next]_vars
  PROVE  LifeInv'
<1>1. CASE UNCHANGED vars
  BY <1>1, StutterLife
<1>2. ASSUME NEW t \in Threads, Progress(t) PROVE LifeInv'
  BY <1>2, LockLife, LockPanicsLife, FinishLife, PanicLife, ReturnLife, CloseRefusedLife,
     CloseEngineLife DEF Progress
<1>3. ASSUME NEW t \in Requests, HttpRequest(t) PROVE LifeInv'
  <2>1. t \in Threads
    BY DEF Threads
  <2> QED
    BY <1>3, <2>1, RequestIsCall, CallLife
<1>4. ASSUME NEW o \in Owners, NEW m \in Methods, Call(o, m) PROVE LifeInv'
  <2>1. o \in Threads
    BY DEF Threads
  <2> QED
    BY <1>4, <2>1, CallLife
<1>5. ASSUME NEW o \in Owners, NEW p \in Owners, Clone(o, p) PROVE LifeInv'
  BY <1>5, CloneLife
<1>6. ASSUME NEW o \in Owners, DropHandle(o) \/ Close(o) PROVE LifeInv'
  BY <1>6, DropHandleLife, CloseLife
<1> QED
  BY <1>1, <1>2, <1>3, <1>4, <1>5, <1>6 DEF Next

LEMMA LifeInvariant == Spec => []LifeInv
<1>1. Init => LifeInv
  BY InitLife
<1>2. LifeInv /\ [Next]_vars => LifeInv'
  BY LifeStep
<1> QED
  BY <1>1, <1>2, PTL DEF Spec

(* HandleTyped: every variable of the shared handle keeps its type (DB,     *)
(* Metrics and the HTTP server's AppState).                                 *)
THEOREM HandleTyped == Spec => []TypeOK
<1>1. LifeInv => TypeOK
  BY DEF LifeInv
<1> QED
  BY <1>1, LifeInvariant, PTL

(* HandleExclusive: for any number of threads and requests, one at a time   *)
(* is inside the engine, and close takes the engine out only when nobody    *)
(* else can reach it (the mutex and Arc::try_unwrap of DB::close).          *)
THEOREM HandleExclusive == Spec => []Exclusive
<1>1. LifeInv => Exclusive
  BY ThreadsAssumption DEF LifeInv, LockInv, RefsInv, TakenInv, Exclusive, Threads
<1> QED
  BY <1>1, LifeInvariant, PTL

----------------------------------------------------------------------------
(* What the counts amount to.  Answered calls whose caller has not been     *)
(* told yet are applied and not acknowledged; calls that have not reached   *)
(* their effect are begun and not applied.                                  *)
Done == {t \in Threads : pc[t] = "done" /\ method[t] \in Mutating}
Pending == {t \in Threads : pc[t] \in {"calling", "inside"} /\ method[t] \in Mutating}

FoundInv == \A t \in Threads : pc[t] = "inside" => found[t] = applied

SumInv == ~poisoned => applied = writes + deletes + batches

AckedInv == acked + Cardinality(Done) <= applied

BegunInv == applied + Cardinality(Pending) <= begun

RecentInv ==
    /\ \A t \in Threads : asked[t] <= acked
    /\ \A t \in Threads : pc[t] \in {"inside", "done"} => asked[t] <= found[t]

CountInv == FoundInv /\ SumInv /\ AckedInv /\ BegunInv /\ RecentInv

LEMMA ThreadsFinite == IsFiniteSet(Threads)
  BY ThreadsAssumption, FS_Union DEF Threads

LEMMA CountsFinite ==
  /\ IsFiniteSet(Done) /\ Cardinality(Done) \in Nat
  /\ IsFiniteSet(Pending) /\ Cardinality(Pending) \in Nat
<1>1. Done \subseteq Threads /\ Pending \subseteq Threads
  BY DEF Done, Pending
<1> QED
  BY <1>1, ThreadsFinite, FS_Subset, FS_CardinalityType

LEMMA CountsFiniteNext ==
  /\ IsFiniteSet(Done') /\ Cardinality(Done') \in Nat
  /\ IsFiniteSet(Pending') /\ Cardinality(Pending') \in Nat
<1>1. Done' \subseteq Threads /\ Pending' \subseteq Threads
  BY DEF Done, Pending
<1> QED
  BY <1>1, ThreadsFinite, FS_Subset, FS_CardinalityType

(* Two finite sets that agree but for one element.                          *)
LEMMA OneApart ==
  ASSUME NEW S, NEW T, NEW x, IsFiniteSet(S), IsFiniteSet(T), S \ {x} = T \ {x}
  PROVE  /\ x \in S /\ x \in T => Cardinality(T) = Cardinality(S)
         /\ x \notin S /\ x \notin T => Cardinality(T) = Cardinality(S)
         /\ x \in S /\ x \notin T => Cardinality(T) = Cardinality(S) - 1
         /\ x \notin S /\ x \in T => Cardinality(T) = Cardinality(S) + 1
<1>1. Cardinality(S) \in Nat /\ Cardinality(T) \in Nat
  BY FS_CardinalityType
<1>2. Cardinality(S \ {x}) = IF x \in S THEN Cardinality(S) - 1 ELSE Cardinality(S)
  BY FS_RemoveElement
<1>3. Cardinality(T \ {x}) = IF x \in T THEN Cardinality(T) - 1 ELSE Cardinality(T)
  BY FS_RemoveElement
<1> QED
  BY <1>1, <1>2, <1>3

(* How a step of thread t moves t in and out of the two sets; every other   *)
(* thread stays where it is.                                                *)
LEMMA StepCounts ==
  ASSUME NEW t \in Threads,
         \A u \in Threads \ {t} : pc'[u] = pc[u] /\ method'[u] = method[u]
  PROVE  /\ t \in Done /\ t \in Done' => Cardinality(Done') = Cardinality(Done)
         /\ t \notin Done /\ t \notin Done' => Cardinality(Done') = Cardinality(Done)
         /\ t \in Done /\ t \notin Done' => Cardinality(Done') = Cardinality(Done) - 1
         /\ t \notin Done /\ t \in Done' => Cardinality(Done') = Cardinality(Done) + 1
         /\ t \in Pending /\ t \in Pending' => Cardinality(Pending') = Cardinality(Pending)
         /\ t \notin Pending /\ t \notin Pending' => Cardinality(Pending') = Cardinality(Pending)
         /\ t \in Pending /\ t \notin Pending' => Cardinality(Pending') = Cardinality(Pending) - 1
         /\ t \notin Pending /\ t \in Pending' => Cardinality(Pending') = Cardinality(Pending) + 1
<1>1. Done \ {t} = Done' \ {t}
  BY DEF Done
<1>2. Pending \ {t} = Pending' \ {t}
  BY DEF Pending
<1> QED
  BY <1>1, <1>2, CountsFinite, CountsFiniteNext, OneApart

LEMMA InitCount == Init => CountInv
<1> SUFFICES ASSUME Init PROVE CountInv
  OBVIOUS
<1>1. Done = {} /\ Pending = {}
  BY DEF Init, Done, Pending
<1>2. Cardinality(Done) = 0 /\ Cardinality(Pending) = 0
  BY <1>1, FS_EmptySet
<1> QED
  BY <1>2 DEF Init, CountInv, FoundInv, SumInv, AckedInv, BegunInv, RecentInv

(* A call that begins waits for its effect.                                 *)
LEMMA CallCount ==
  ASSUME LifeInv, CountInv, NEW t \in Threads, NEW m \in Methods, Call(t, m)
  PROVE  CountInv'
<1>1. /\ t \notin Done /\ t \notin Pending /\ t \notin Done'
      /\ t \in Pending' <=> m \in Mutating
  BY DEF LifeInv, TypeOK, Call, Done, Pending
<1>2. \A u \in Threads \ {t} : pc'[u] = pc[u] /\ method'[u] = method[u]
  BY DEF LifeInv, TypeOK, Call
<1>3. AckedInv' /\ BegunInv'
  BY <1>1, <1>2, StepCounts, CountsFinite DEF LifeInv, TypeOK, CountInv, AckedInv, BegunInv, Call
<1>4. FoundInv' /\ SumInv'
  BY DEF LifeInv, TypeOK, CountInv, FoundInv, SumInv, Call, metrics
<1>5. RecentInv'
  BY DEF LifeInv, TypeOK, CountInv, RecentInv, Call
<1> QED
  BY <1>3, <1>4, <1>5 DEF CountInv

(* The lock is had: the method finds what is applied, and no less was       *)
(* acknowledged.                                                            *)
LEMMA LockCount ==
  ASSUME LifeInv, CountInv, NEW t \in Threads, Lock(t)
  PROVE  CountInv'
<1>1. /\ t \notin Done /\ t \notin Done'
      /\ t \in Pending' <=> t \in Pending
  BY DEF LifeInv, TypeOK, Lock, Done, Pending
<1>2. \A u \in Threads \ {t} : pc'[u] = pc[u] /\ method'[u] = method[u]
  BY DEF LifeInv, TypeOK, Lock
<1>3. AckedInv' /\ BegunInv'
  BY <1>1, <1>2, StepCounts, CountsFinite
     DEF LifeInv, TypeOK, CountInv, AckedInv, BegunInv, Lock, counts
<1>4. FoundInv' /\ SumInv'
  BY DEF LifeInv, TypeOK, CountInv, FoundInv, SumInv, Lock, metrics
<1>5. acked <= applied
  BY CountsFinite DEF LifeInv, TypeOK, CountInv, AckedInv
<1>6. RecentInv'
  BY <1>5 DEF LifeInv, TypeOK, CountInv, RecentInv, Lock, counts
<1> QED
  BY <1>3, <1>4, <1>6 DEF CountInv

LEMMA LockPanicsCount ==
  ASSUME LifeInv, CountInv, NEW t \in Threads, LockPanics(t)
  PROVE  CountInv'
<1>1. t \notin Done /\ t \notin Done' /\ t \notin Pending'
  BY DEF LifeInv, TypeOK, LockPanics, Unwind, Forget, Done, Pending
<1>2. \A u \in Threads \ {t} : pc'[u] = pc[u] /\ method'[u] = method[u]
  BY DEF LifeInv, TypeOK, LockPanics, Unwind, Forget
<1>3. AckedInv' /\ BegunInv'
  BY <1>1, <1>2, StepCounts, CountsFinite
     DEF LifeInv, TypeOK, CountInv, AckedInv, BegunInv, LockPanics, counts
<1>4. FoundInv' /\ SumInv'
  BY DEF LifeInv, TypeOK, CountInv, FoundInv, SumInv, LockPanics, Unwind, Forget, metrics
<1>5. RecentInv'
  BY DEF LifeInv, TypeOK, CountInv, RecentInv, LockPanics, Unwind, Forget, counts
<1> QED
  BY <1>3, <1>4, <1>5 DEF CountInv

(* The effect adds one to what the method found, which is what is applied:  *)
(* nobody else has been inside.  Whoever was inside was this thread.        *)
LEMMA FinishCount ==
  ASSUME LifeInv, CountInv, NEW t \in Threads, Finish(t)
  PROVE  CountInv'
<1>1. found[t] = applied
  BY DEF CountInv, FoundInv, Finish
<1>2. /\ t \notin Done /\ t \notin Pending'
      /\ t \in Pending <=> method[t] \in Mutating
      /\ t \in Done' <=> pc'[t] = "done" /\ method[t] \in Mutating
  BY DEF LifeInv, TypeOK, Finish, Done, Pending
<1>3. \A u \in Threads \ {t} : pc'[u] = pc[u] /\ method'[u] = method[u]
  BY DEF LifeInv, TypeOK, Finish
<1>4. /\ applied' = applied + 1 \/ applied' = applied
      /\ applied' = applied + 1 => method[t] \in Mutating
      /\ pc'[t] = "done" /\ method[t] \in Mutating => applied' = applied + 1
  BY <1>1 DEF LifeInv, TypeOK, Finish, Effect
<1>5. AckedInv' /\ BegunInv'
  BY <1>2, <1>3, <1>4, StepCounts, CountsFinite
     DEF LifeInv, TypeOK, CountInv, AckedInv, BegunInv, Finish, counts
<1>6. \A u \in Threads : pc'[u] # "inside"
  BY DEF LifeInv, TypeOK, LockInv, Finish
<1>7. FoundInv'
  BY <1>6 DEF FoundInv
<1>8. SumInv'
  <2>1. UNCHANGED <<applied, writes, deletes, batches>> => SumInv'
    BY DEF CountInv, SumInv, Finish
  <2>2. Effect(t) => SumInv'
    BY <1>1 DEF LifeInv, TypeOK, CountInv, SumInv, Finish, Effect, Mutating, Methods
  <2> QED
    BY <2>1, <2>2 DEF Finish, metrics
<1>9. RecentInv'
  BY DEF LifeInv, TypeOK, CountInv, RecentInv, Finish, counts
<1> QED
  BY <1>5, <1>7, <1>8, <1>9 DEF CountInv

LEMMA PanicCount ==
  ASSUME LifeInv, CountInv, NEW t \in Threads, Panic(t)
  PROVE  CountInv'
<1>1. found[t] = applied
  BY DEF CountInv, FoundInv, Panic
<1>2. /\ t \notin Done /\ t \notin Pending' /\ t \notin Done'
      /\ t \in Pending <=> method[t] \in Mutating
  BY DEF LifeInv, TypeOK, Panic, Unwind, Forget, Done, Pending
<1>3. \A u \in Threads \ {t} : pc'[u] = pc[u] /\ method'[u] = method[u]
  BY DEF LifeInv, TypeOK, Panic, Unwind, Forget
<1>4. /\ applied' = applied + 1 \/ applied' = applied
      /\ applied' = applied + 1 => method[t] \in Mutating
  BY <1>1 DEF LifeInv, TypeOK, Panic, Effect
<1>5. AckedInv' /\ BegunInv'
  BY <1>2, <1>3, <1>4, StepCounts, CountsFinite
     DEF LifeInv, TypeOK, CountInv, AckedInv, BegunInv, Panic, counts
<1>6. \A u \in Threads : pc'[u] # "inside"
  BY DEF LifeInv, TypeOK, LockInv, Panic, Unwind
<1>7. FoundInv' /\ SumInv'
  BY <1>6 DEF FoundInv, SumInv, Panic
<1>8. RecentInv'
  BY DEF LifeInv, TypeOK, CountInv, RecentInv, Panic, Unwind, Forget, counts
<1> QED
  BY <1>5, <1>7, <1>8 DEF CountInv

(* An acknowledged write leaves Done.                                       *)
LEMMA ReturnCount ==
  ASSUME LifeInv, CountInv, NEW t \in Threads, Return(t)
  PROVE  CountInv'
<1>1. /\ t \notin Done' /\ t \notin Pending /\ t \notin Pending'
      /\ t \in Done <=> pc[t] = "done" /\ method[t] \in Mutating
  BY DEF LifeInv, TypeOK, Return, Forget, Done, Pending
<1>2. \A u \in Threads \ {t} : pc'[u] = pc[u] /\ method'[u] = method[u]
  BY DEF LifeInv, TypeOK, Return, Forget
<1>3. AckedInv' /\ BegunInv'
  BY <1>1, <1>2, StepCounts, CountsFinite
     DEF LifeInv, TypeOK, CountInv, AckedInv, BegunInv, Return
<1>4. FoundInv' /\ SumInv'
  BY DEF LifeInv, TypeOK, CountInv, FoundInv, SumInv, Return, Forget, metrics
<1>5. RecentInv'
  BY DEF LifeInv, TypeOK, CountInv, RecentInv, Return, Forget
<1> QED
  BY <1>3, <1>4, <1>5 DEF CountInv

(* The steps of clone, drop and close neither begin nor end a call.         *)
QuietStep ==
    /\ \A u \in Threads : /\ \/ pc'[u] = pc[u]
                             \/ {pc[u], pc'[u]} \subseteq {"idle", "refused", "unwrapped", "gone"}
                          /\ method'[u] = method[u] /\ found'[u] = found[u] /\ asked'[u] = asked[u]
    /\ UNCHANGED <<poisoned, applied, metrics, counts, batches>>

LEMMA QuietCount ==
  ASSUME LifeInv, CountInv, QuietStep
  PROVE  CountInv'
<1>1. Done' = Done /\ Pending' = Pending
  BY DEF QuietStep, Done, Pending
<1>2. AckedInv' /\ BegunInv'
  BY <1>1 DEF QuietStep, CountInv, AckedInv, BegunInv, counts
<1>3. FoundInv' /\ SumInv' /\ RecentInv'
  BY DEF QuietStep, CountInv, FoundInv, SumInv, RecentInv, metrics, counts
<1> QED
  BY <1>2, <1>3 DEF CountInv

LEMMA HandleStepsQuiet ==
  ASSUME LifeInv, NEW t \in Threads,
         \/ CloseRefused(t) \/ CloseEngine(t) \/ DropHandle(t) \/ Close(t)
         \/ \E p \in Owners : Clone(t, p)
  PROVE  QuietStep
<1>1. CASE CloseRefused(t)
  BY <1>1 DEF LifeInv, TypeOK, CloseRefused, QuietStep
<1>2. CASE CloseEngine(t)
  BY <1>2 DEF LifeInv, TypeOK, CloseEngine, QuietStep
<1>3. CASE DropHandle(t)
  BY <1>3 DEF DropHandle, QuietStep, local
<1>4. CASE Close(t)
  BY <1>4 DEF LifeInv, TypeOK, Close, Unwind, QuietStep
<1>5. CASE \E p \in Owners : Clone(t, p)
  BY <1>5 DEF Clone, QuietStep, local
<1> QED
  BY <1>1, <1>2, <1>3, <1>4, <1>5

LEMMA CountStep ==
  ASSUME LifeInv, CountInv, [Next]_vars
  PROVE  CountInv'
<1>1. CASE UNCHANGED vars
  <2>1. QuietStep
    BY <1>1 DEF vars, local, QuietStep
  <2> QED
    BY <2>1, QuietCount
<1>2. ASSUME NEW t \in Threads, Progress(t) PROVE CountInv'
  BY <1>2, LockCount, LockPanicsCount, FinishCount, PanicCount, ReturnCount, HandleStepsQuiet,
     QuietCount DEF Progress
<1>3. ASSUME NEW t \in Requests, HttpRequest(t) PROVE CountInv'
  <2>1. t \in Threads
    BY DEF Threads
  <2> QED
    BY <1>3, <2>1, RequestIsCall, CallCount
<1>4. ASSUME NEW o \in Owners, NEW m \in Methods, Call(o, m) PROVE CountInv'
  <2>1. o \in Threads
    BY DEF Threads
  <2> QED
    BY <1>4, <2>1, CallCount
<1>5. ASSUME NEW o \in Owners, DropHandle(o) \/ Close(o) \/ \E p \in Owners : Clone(o, p)
      PROVE  CountInv'
  <2>1. o \in Threads
    BY DEF Threads
  <2> QED
    BY <1>5, <2>1, HandleStepsQuiet, QuietCount
<1> QED
  BY <1>1, <1>2, <1>3, <1>4, <1>5 DEF Next

LEMMA CountInvariant == Spec => []CountInv
<1>1. Init => CountInv
  BY InitCount
<1>2. LifeInv /\ CountInv /\ [Next]_vars => CountInv'
  BY CountStep
<1> QED
  BY <1>1, <1>2, LifeInvariant, PTL DEF Spec

(* HandleCounts: outside the mutex the counters of Metrics agree with what  *)
(* the engine has applied, and no acknowledged write is missing from it,    *)
(* however many threads and requests write at once and whichever of their   *)
(* calls fail.                                                              *)
THEOREM HandleCounts == Spec => []MetricsExact
<1>1. LifeInv /\ CountInv => MetricsExact
  BY CountsFinite DEF LifeInv, TypeOK, CountInv, SumInv, AckedInv, BegunInv, MetricsExact
<1> QED
  BY <1>1, LifeInvariant, CountInvariant, PTL

(* HandleReads: a call on any thread sees every write acknowledged to any   *)
(* thread before the call began (each method of DB locks before it reads).  *)
THEOREM HandleReads == Spec => []ReadsRecent
<1>1. LifeInv /\ CountInv => ReadsRecent
  BY DEF LifeInv, TypeOK, CountInv, RecentInv, ReadsRecent
<1> QED
  BY <1>1, LifeInvariant, CountInvariant, PTL

----------------------------------------------------------------------------
(* Once the mutex is poisoned nobody is inside, and nobody took the engine  *)
(* out: the thread that panicked still held a reference.                    *)
PoisonInv ==
    poisoned => holder = Nobody /\ \A t \in Threads : pc[t] # "unwrapped"

LEMMA PoisonStep ==
  ASSUME LifeInv, PoisonInv, [Next]_vars
  PROVE  PoisonInv'
<1>1. CASE UNCHANGED vars
  BY <1>1 DEF PoisonInv, vars, local
<1>2. ASSUME NEW t \in Threads, Progress(t) PROVE PoisonInv'
  <2>1. CASE Lock(t)
    BY <2>1 DEF PoisonInv, Lock
  <2>2. CASE LockPanics(t)
    BY <2>2 DEF LifeInv, TypeOK, PoisonInv, LockPanics, Unwind
  <2>3. CASE Finish(t)
    BY <2>3 DEF LifeInv, TypeOK, PoisonInv, Finish
  <2>4. CASE Panic(t)
    BY <2>4 DEF LifeInv, TypeOK, RefsInv, TakenInv, Busy, PoisonInv, Panic, Unwind
  <2>5. CASE Return(t)
    BY <2>5 DEF LifeInv, TypeOK, PoisonInv, Return
  <2>6. CASE CloseRefused(t)
    BY <2>6 DEF LifeInv, TypeOK, PoisonInv, CloseRefused
  <2>7. CASE CloseEngine(t)
    BY <2>7 DEF LifeInv, TypeOK, PoisonInv, CloseEngine
  <2> QED
    BY <1>2, <2>1, <2>2, <2>3, <2>4, <2>5, <2>6, <2>7 DEF Progress
<1>3. ASSUME NEW t \in Threads, NEW m \in Methods, Call(t, m) PROVE PoisonInv'
  BY <1>3 DEF LifeInv, TypeOK, PoisonInv, Call
<1>4. ASSUME NEW t \in Requests, HttpRequest(t) PROVE PoisonInv'
  BY <1>3, <1>4, RequestIsCall DEF Threads
<1>5. ASSUME NEW o \in Owners, DropHandle(o) \/ \E p \in Owners : Clone(o, p) PROVE PoisonInv'
  BY <1>5 DEF PoisonInv, DropHandle, Clone, local
<1>6. ASSUME NEW o \in Owners, Close(o) PROVE PoisonInv'
  BY <1>6 DEF LifeInv, TypeOK, PoisonInv, Close, Unwind
<1>7. Owners \subseteq Threads
  BY DEF Threads
<1> QED
  BY <1>1, <1>2, <1>3, <1>4, <1>5, <1>6, <1>7 DEF Next

LEMMA HiddenNext ==
  ASSUME LifeInv, PoisonInv, [Next]_vars
  PROVE  HiddenStep
<1> SUFFICES ASSUME poisoned
             PROVE  UNCHANGED <<applied, metrics>> /\ (engine' = "closed" => engine = "closed")
  BY DEF HiddenStep
<1>1. CASE UNCHANGED vars
  BY <1>1 DEF vars
<1>2. \A t \in Threads : pc[t] # "inside" /\ pc[t] # "unwrapped"
  BY ThreadsAssumption DEF LifeInv, LockInv, PoisonInv
<1>3. ASSUME NEW t \in Threads, Progress(t)
      PROVE  UNCHANGED <<applied, metrics>> /\ (engine' = "closed" => engine = "closed")
  BY <1>2, <1>3 DEF Progress, Lock, LockPanics, Finish, Panic, Return, CloseRefused, CloseEngine,
     Unwind, Release
<1>4. ASSUME NEW t \in Threads, NEW m \in Methods, Call(t, m)
      PROVE  UNCHANGED <<applied, metrics>> /\ (engine' = "closed" => engine = "closed")
  BY <1>4 DEF Call
<1>5. ASSUME NEW t \in Requests, HttpRequest(t)
      PROVE  UNCHANGED <<applied, metrics>> /\ (engine' = "closed" => engine = "closed")
  BY <1>4, <1>5, RequestIsCall DEF Threads
<1>6. ASSUME NEW o \in Owners, \/ DropHandle(o) \/ Close(o) \/ \E p \in Owners : Clone(o, p)
      PROVE  UNCHANGED <<applied, metrics>> /\ (engine' = "closed" => engine = "closed")
  BY <1>6 DEF DropHandle, Close, Clone, Unwind, Release
<1>7. Owners \subseteq Threads
  BY DEF Threads
<1> QED
  BY <1>1, <1>3, <1>4, <1>5, <1>6, <1>7 DEF Next

(* HandlePoisoned: after a panic inside a method of DB no call reads or     *)
(* changes the engine again, and close cannot reach it (unwrap of lock and  *)
(* of into_inner).                                                          *)
THEOREM HandlePoisoned == Spec => PanicHidden
<1>1. Init => PoisonInv
  BY DEF Init, PoisonInv
<1>2. LifeInv /\ PoisonInv /\ [Next]_vars => PoisonInv'
  BY PoisonStep
<1>3. LifeInv /\ PoisonInv /\ [Next]_vars => [HiddenStep]_vars
  BY HiddenNext
<1> QED
  BY <1>1, <1>2, <1>3, LifeInvariant, PTL DEF Spec, PanicHidden
=============================================================================
