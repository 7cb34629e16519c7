--------------------------- MODULE SyncLockProofs ---------------------------
(***************************************************************************)
(* What SyncLock promises for every number of clients and of attempts.     *)
(* None of it depends on the calls to the iPhone succeeding.               *)
(***************************************************************************)
EXTENDS SyncLock, TLAPS

-----------------------------------------------------------------------------
(* Types.                                                                  *)

LEMMA StartedType ==
  ASSUME BracketsOK, NEW a \in Client, NEW who, Started(a, who)
  PROVE  BracketsOK'
<1>1. depth' \in [Client -> Nat]
  BY DEF BracketsOK, Started
<1>2. writing' \in [Client -> {"no", "locked", "unlocked"}]
  BY DEF BracketsOK, Started
<1> QED
  BY <1>1, <1>2 DEF BracketsOK

LEMMA NotStartedType ==
  ASSUME BracketsOK, NEW a \in Client, NEW who, NotStarted(a, who)
  PROVE  BracketsOK'
<1>1. depth' \in [Client -> Nat]
  BY DEF BracketsOK, NotStarted
<1>2. writing' \in [Client -> {"no", "locked", "unlocked"}]
  BY DEF BracketsOK, NotStarted
<1> QED
  BY <1>1, <1>2 DEF BracketsOK

(* The application stops no more often than it started.                    *)
LEMMA StoppedType ==
  ASSUME BracketsOK, NEW a \in Client, NEW who,
         who = "application" => depth[a] > 0, Stopped(a, who)
  PROVE  BracketsOK'
<1>1. depth' \in [Client -> Nat]
  BY DEF BracketsOK, Stopped
<1>2. writing' \in [Client -> {"no", "locked", "unlocked"}]
  BY DEF BracketsOK, Stopped
<1> QED
  BY <1>1, <1>2 DEF BracketsOK

-----------------------------------------------------------------------------
(* The invariant, for one client: where it is in one of the two calls      *)
(* decides what it holds and what it has counted.                          *)
StartingInv(a) ==
  /\ pc[a] = "didStart" => holder = a
  /\ pc[a] \in Starting =>
       ~context[a] /\ nest[a] = 0 /\ depth[a] = 0 /\ writing[a] = "no"

StoppingInv(a) ==
  pc[a] \in Stopping =>
    /\ context[a]
    /\ nest[a] = 0
    /\ IF caller[a] = "application" THEN depth[a] = 1 /\ writing[a] = "no"
       ELSE depth[a] = 0 /\ writing[a] = "locked"

HolderInv(a) ==
  /\ context[a] /\ pc[a] # "finish" => holder = a
  /\ holder = a =>
       /\ pc[a] # "finish"
       /\ context[a] \/ pc[a] \in {"didStart", "failed", "release"}

CountInv(a) ==
  /\ context[a] <=> Outstanding(a) > 0
  /\ nest[a] = IF context[a] THEN Outstanding(a) - 1 ELSE 0
  /\ writing[a] = "unlocked" => ~context[a]

ClientInv(a) ==
  StartingInv(a) /\ StoppingInv(a) /\ HolderInv(a) /\ CountInv(a)

LockInv == TypeOK /\ \A a \in Client : ClientInv(a)

LEMMA LockInit == Init => LockInv
<1> SUFFICES ASSUME Init PROVE LockInv
  OBVIOUS
<1>1. TypeOK
  <2>1. 0 \in 0 .. LOCK_ATTEMPTS - 1
    BY LockAssumption DEF LockAssumption
  <2>2. BracketsOK
    BY DEF Init, BracketsOK
  <2>3. pc \in [Client -> Places] /\ caller \in [Client -> Callers]
    BY DEF Init, Places, Callers
  <2> QED
    BY <2>1, <2>2, <2>3 DEF Init, TypeOK
<1>2. ASSUME NEW a \in Client PROVE ClientInv(a)
  <2>1. holder # a
    BY LockAssumption DEF LockAssumption, Init
  <2>2. CountInv(a)
    BY DEF Init, CountInv, Outstanding
  <2> QED
    BY <2>1, <2>2
    DEF Init, ClientInv, StartingInv, StoppingInv, HolderInv, Starting, Stopping
<1> QED
  BY <1>1, <1>2 DEF LockInv

(* A step of another client, or of the iPhone, leaves a client alone if it *)
(* neither takes the lock from it nor gives it the lock.                   *)
Untouched(a) ==
  /\ context'[a] = context[a] /\ nest'[a] = nest[a] /\ pc'[a] = pc[a]
  /\ caller'[a] = caller[a] /\ depth'[a] = depth[a] /\ writing'[a] = writing[a]
  /\ (holder' = a) <=> (holder = a)

LEMMA UntouchedKeeps ==
  ASSUME NEW a \in Client, ClientInv(a), Untouched(a)
  PROVE  ClientInv(a)'
<1>1. Outstanding(a)' = Outstanding(a)
  BY DEF Outstanding, Untouched
<1>2. CountInv(a)'
  BY <1>1 DEF ClientInv, CountInv, Untouched
<1>3. HolderInv(a)'
  BY DEF ClientInv, HolderInv, Untouched
<1>4. StartingInv(a)'
  BY DEF ClientInv, StartingInv, Untouched
<1>5. StoppingInv(a)'
  BY DEF ClientInv, StoppingInv, Untouched
<1> QED
  BY <1>2, <1>3, <1>4, <1>5 DEF ClientInv

LEMMA StartSyncKeeps ==
  ASSUME LockInv, NEW a \in Client, NEW who \in Callers, StartSync(a, who)
  PROVE  LockInv'
<1>0. TypeOK /\ BracketsOK /\ ClientInv(a) /\ iPhone # a /\ Nobody # a
  BY LockAssumption DEF LockInv, TypeOK, LockAssumption
<1>1. BracketsOK'
  BY <1>0 DEF StartSync, brackets, BracketsOK
<1>2. pc' \in [Client -> Places]
  BY <1>0 DEF StartSync, brackets, TypeOK, Places, Starting, Stopping
<1>3. TypeOK'
  BY <1>0, <1>1, <1>2, LockAssumption
  DEF StartSync, brackets, TypeOK, LockAssumption
<1>4. ClientInv(a)'
  BY <1>0
  DEF StartSync, brackets, TypeOK, BracketsOK, ClientInv, StartingInv,
      StoppingInv, HolderInv, CountInv, Outstanding, Starting, Stopping
<1>5. ASSUME NEW b \in Client, b # a PROVE ClientInv(b)'
  <2>1. Untouched(b)
    BY <1>0, <1>5, LockAssumption
    DEF StartSync, brackets, TypeOK, BracketsOK, Untouched, LockAssumption
  <2> QED
    BY <2>1, UntouchedKeeps DEF LockInv
<1> QED
  BY <1>3, <1>4, <1>5 DEF LockInv

LEMMA StartNestedKeeps ==
  ASSUME LockInv, NEW a \in Client, NEW who \in Callers, StartNested(a, who)
  PROVE  LockInv'
<1>0. TypeOK /\ BracketsOK /\ ClientInv(a) /\ iPhone # a /\ Nobody # a
  BY LockAssumption DEF LockInv, TypeOK, LockAssumption
<1>1. BracketsOK'
  BY <1>0, StartedType DEF StartNested
<1>2. pc' \in [Client -> Places]
  BY <1>0 DEF StartNested, TypeOK, Places, Starting, Stopping
<1>3. TypeOK'
  BY <1>0, <1>1, <1>2, LockAssumption DEF StartNested, TypeOK, LockAssumption
<1>4. ClientInv(a)'
  BY <1>0
  DEF StartNested, Started, TypeOK, BracketsOK, ClientInv, StartingInv,
      StoppingInv, HolderInv, CountInv, Outstanding, Starting, Stopping
<1>5. ASSUME NEW b \in Client, b # a PROVE ClientInv(b)'
  <2>1. Untouched(b)
    BY <1>0, <1>5, LockAssumption
    DEF StartNested, Started, TypeOK, BracketsOK, Untouched, LockAssumption
  <2> QED
    BY <2>1, UntouchedKeeps DEF LockInv
<1> QED
  BY <1>3, <1>4, <1>5 DEF LockInv

LEMMA StopNestedKeeps ==
  ASSUME LockInv, NEW a \in Client, NEW who \in Callers, StopNested(a, who)
  PROVE  LockInv'
<1>0. TypeOK /\ BracketsOK /\ ClientInv(a) /\ iPhone # a /\ Nobody # a
  BY LockAssumption DEF LockInv, TypeOK, LockAssumption
<1>1. BracketsOK'
  BY <1>0, StoppedType DEF StopNested, CanStop
<1>2. pc' \in [Client -> Places]
  BY <1>0 DEF StopNested, CanStop, TypeOK, Places, Starting, Stopping
<1>3. TypeOK'
  BY <1>0, <1>1, <1>2, LockAssumption
  DEF StopNested, CanStop, TypeOK, LockAssumption
<1>4. ClientInv(a)'
  BY <1>0
  DEF StopNested, CanStop, Stopped, TypeOK, BracketsOK, ClientInv,
      StartingInv, StoppingInv, HolderInv, CountInv, Outstanding, Starting,
      Stopping
<1>5. ASSUME NEW b \in Client, b # a PROVE ClientInv(b)'
  <2>1. Untouched(b)
    BY <1>0, <1>5, LockAssumption
    DEF StopNested, CanStop, Stopped, TypeOK, BracketsOK, Untouched,
        LockAssumption
  <2> QED
    BY <2>1, UntouchedKeeps DEF LockInv
<1> QED
  BY <1>3, <1>4, <1>5 DEF LockInv

LEMMA StopUnlockedKeeps ==
  ASSUME LockInv, NEW a \in Client, NEW who \in Callers, StopUnlocked(a, who)
  PROVE  LockInv'
<1>0. TypeOK /\ BracketsOK /\ ClientInv(a) /\ iPhone # a /\ Nobody # a
  BY LockAssumption DEF LockInv, TypeOK, LockAssumption
<1>1. BracketsOK'
  BY <1>0, StoppedType DEF StopUnlocked, CanStop
<1>2. pc' \in [Client -> Places]
  BY <1>0 DEF StopUnlocked, CanStop, TypeOK, Places, Starting, Stopping
<1>3. TypeOK'
  BY <1>0, <1>1, <1>2, LockAssumption
  DEF StopUnlocked, CanStop, TypeOK, LockAssumption
<1>4. ClientInv(a)'
  <2>1. ~context[a] /\ nest[a] = 0 /\ depth[a] \in Nat
    BY <1>0 DEF StopUnlocked, BracketsOK
  <2>2. depth[a] = 0 /\ writing[a] # "locked"
    BY <1>0, <2>1 DEF ClientInv, CountInv, Outstanding
  <2>3. who # "application"
    <3>1. who = "application" => depth[a] > 0
      BY DEF StopUnlocked, CanStop
    <3> QED
      BY <2>2, <3>1
  <2>4. writing'[a] = "no" /\ depth' = depth
    BY <1>0, <2>3 DEF StopUnlocked, Stopped, BracketsOK
  <2>5. UNCHANGED <<holder, context, nest, pc, caller>>
    BY DEF StopUnlocked
  <2>6. Outstanding(a)' = 0
    BY <2>2, <2>4 DEF Outstanding
  <2>7. CountInv(a)'
    BY <2>1, <2>4, <2>5, <2>6 DEF CountInv
  <2>8. StartingInv(a)' /\ StoppingInv(a)' /\ HolderInv(a)'
    BY <1>0, <2>4, <2>5 DEF StopUnlocked, CanStop, ClientInv, StartingInv,
       StoppingInv, HolderInv, Starting, Stopping
  <2> QED
    BY <2>7, <2>8 DEF ClientInv
<1>5. ASSUME NEW b \in Client, b # a PROVE ClientInv(b)'
  <2>1. Untouched(b)
    BY <1>0, <1>5, LockAssumption
    DEF StopUnlocked, CanStop, Stopped, TypeOK, BracketsOK, Untouched,
        LockAssumption
  <2> QED
    BY <2>1, UntouchedKeeps DEF LockInv
<1> QED
  BY <1>3, <1>4, <1>5 DEF LockInv

LEMMA StopSyncKeeps ==
  ASSUME LockInv, NEW a \in Client, NEW who \in Callers, StopSync(a, who)
  PROVE  LockInv'
<1>0. TypeOK /\ BracketsOK /\ ClientInv(a) /\ iPhone # a /\ Nobody # a
  BY LockAssumption DEF LockInv, TypeOK, LockAssumption
<1>1. BracketsOK'
  BY <1>0 DEF StopSync, CanStop, brackets, BracketsOK
<1>2. pc' \in [Client -> Places]
  BY <1>0 DEF StopSync, CanStop, brackets, TypeOK, Places, Starting, Stopping
<1>3. TypeOK'
  BY <1>0, <1>1, <1>2, LockAssumption
  DEF StopSync, CanStop, brackets, TypeOK, LockAssumption
<1>4. ClientInv(a)'
  BY <1>0
  DEF StopSync, CanStop, brackets, TypeOK, BracketsOK, ClientInv, StartingInv,
      StoppingInv, HolderInv, CountInv, Outstanding, Starting, Stopping
<1>5. ASSUME NEW b \in Client, b # a PROVE ClientInv(b)'
  <2>1. Untouched(b)
    BY <1>0, <1>5, LockAssumption
    DEF StopSync, CanStop, brackets, TypeOK, BracketsOK, Untouched,
        LockAssumption
  <2> QED
    BY <2>1, UntouchedKeeps DEF LockInv
<1> QED
  BY <1>3, <1>4, <1>5 DEF LockInv

LEMMA ConnectKeeps ==
  ASSUME LockInv, NEW a \in Client, Connect(a)
  PROVE  LockInv'
<1>0. TypeOK /\ BracketsOK /\ ClientInv(a) /\ iPhone # a /\ Nobody # a
  BY LockAssumption DEF LockInv, TypeOK, LockAssumption
<1>1. BracketsOK'
  BY <1>0 DEF Connect, Step, brackets, BracketsOK
<1>2. pc' \in [Client -> Places]
  BY <1>0 DEF Connect, Step, brackets, TypeOK, Places, Starting, Stopping
<1>3. TypeOK'
  BY <1>0, <1>1, <1>2, LockAssumption
  DEF Connect, Step, brackets, TypeOK, LockAssumption
<1>4. ClientInv(a)'
  BY <1>0
  DEF Connect, Step, brackets, TypeOK, BracketsOK, ClientInv, StartingInv,
      StoppingInv, HolderInv, CountInv, Outstanding, Starting, Stopping
<1>5. ASSUME NEW b \in Client, b # a PROVE ClientInv(b)'
  <2>1. Untouched(b)
    BY <1>0, <1>5, LockAssumption
    DEF Connect, Step, brackets, TypeOK, BracketsOK, Untouched, LockAssumption
  <2> QED
    BY <2>1, UntouchedKeeps DEF LockInv
<1> QED
  BY <1>3, <1>4, <1>5 DEF LockInv

LEMMA PostWillStartKeeps ==
  ASSUME LockInv, NEW a \in Client, PostWillStart(a)
  PROVE  LockInv'
<1>0. TypeOK /\ BracketsOK /\ ClientInv(a) /\ iPhone # a /\ Nobody # a
  BY LockAssumption DEF LockInv, TypeOK, LockAssumption
<1>1. BracketsOK'
  BY <1>0 DEF PostWillStart, Step, Post, brackets, BracketsOK
<1>2. pc' \in [Client -> Places]
  BY <1>0
  DEF PostWillStart, Step, Post, brackets, TypeOK, Places, Starting, Stopping
<1>3. TypeOK'
  BY <1>0, <1>1, <1>2, LockAssumption
  DEF PostWillStart, Step, Post, brackets, TypeOK, LockAssumption
<1>4. ClientInv(a)'
  BY <1>0
  DEF PostWillStart, Step, Post, brackets, TypeOK, BracketsOK, ClientInv,
      StartingInv, StoppingInv, HolderInv, CountInv, Outstanding, Starting,
      Stopping
<1>5. ASSUME NEW b \in Client, b # a PROVE ClientInv(b)'
  <2>1. Untouched(b)
    BY <1>0, <1>5, LockAssumption
    DEF PostWillStart, Step, Post, brackets, TypeOK, BracketsOK, Untouched,
        LockAssumption
  <2> QED
    BY <2>1, UntouchedKeeps DEF LockInv
<1> QED
  BY <1>3, <1>4, <1>5 DEF LockInv

LEMMA OpenLockfileKeeps ==
  ASSUME LockInv, NEW a \in Client, OpenLockfile(a)
  PROVE  LockInv'
<1>0. TypeOK /\ BracketsOK /\ ClientInv(a) /\ iPhone # a /\ Nobody # a
  BY LockAssumption DEF LockInv, TypeOK, LockAssumption
<1>1. BracketsOK'
  BY <1>0 DEF OpenLockfile, Step, brackets, BracketsOK
<1>2. pc' \in [Client -> Places]
  BY <1>0 DEF OpenLockfile, Step, brackets, TypeOK, Places, Starting, Stopping
<1>3. TypeOK'
  BY <1>0, <1>1, <1>2, LockAssumption
  DEF OpenLockfile, Step, brackets, TypeOK, LockAssumption
<1>4. ClientInv(a)'
  BY <1>0
  DEF OpenLockfile, Step, brackets, TypeOK, BracketsOK, ClientInv,
      StartingInv, StoppingInv, HolderInv, CountInv, Outstanding, Starting,
      Stopping
<1>5. ASSUME NEW b \in Client, b # a PROVE ClientInv(b)'
  <2>1. Untouched(b)
    BY <1>0, <1>5, LockAssumption
    DEF OpenLockfile, Step, brackets, TypeOK, BracketsOK, Untouched,
        LockAssumption
  <2> QED
    BY <2>1, UntouchedKeeps DEF LockInv
<1> QED
  BY <1>3, <1>4, <1>5 DEF LockInv

LEMMA PostLockRequestKeeps ==
  ASSUME LockInv, NEW a \in Client, PostLockRequest(a)
  PROVE  LockInv'
<1>0. TypeOK /\ BracketsOK /\ ClientInv(a) /\ iPhone # a /\ Nobody # a
  BY LockAssumption DEF LockInv, TypeOK, LockAssumption
<1>1. BracketsOK'
  BY <1>0 DEF PostLockRequest, Step, brackets, BracketsOK
<1>2. pc' \in [Client -> Places]
  BY <1>0
  DEF PostLockRequest, Step, brackets, TypeOK, Places, Starting, Stopping
<1>3. TypeOK'
  BY <1>0, <1>1, <1>2, LockAssumption
  DEF PostLockRequest, Step, brackets, TypeOK, LockAssumption
<1>4. ClientInv(a)'
  BY <1>0
  DEF PostLockRequest, Step, brackets, TypeOK, BracketsOK, ClientInv,
      StartingInv, StoppingInv, HolderInv, CountInv, Outstanding, Starting,
      Stopping
<1>5. ASSUME NEW b \in Client, b # a PROVE ClientInv(b)'
  <2>1. Untouched(b)
    BY <1>0, <1>5, LockAssumption
    DEF PostLockRequest, Step, brackets, TypeOK, BracketsOK, Untouched,
        LockAssumption
  <2> QED
    BY <2>1, UntouchedKeeps DEF LockInv
<1> QED
  BY <1>3, <1>4, <1>5 DEF LockInv

LEMMA TryLockKeeps ==
  ASSUME LockInv, NEW a \in Client, TryLock(a)
  PROVE  LockInv'
<1>0. TypeOK /\ BracketsOK /\ ClientInv(a) /\ iPhone # a /\ Nobody # a
  BY LockAssumption DEF LockInv, TypeOK, LockAssumption
<1>1. BracketsOK'
  BY <1>0 DEF TryLock, Step, brackets, BracketsOK
<1>2. pc' \in [Client -> Places]
  BY <1>0 DEF TryLock, Step, brackets, TypeOK, Places, Starting, Stopping
<1>3. TypeOK'
  BY <1>0, <1>1, <1>2, LockAssumption
  DEF TryLock, Step, brackets, TypeOK, LockAssumption
<1>4. ClientInv(a)'
  BY <1>0
  DEF TryLock, Step, brackets, TypeOK, BracketsOK, ClientInv, StartingInv,
      StoppingInv, HolderInv, CountInv, Outstanding, Starting, Stopping
<1>5. ASSUME NEW b \in Client, b # a PROVE ClientInv(b)'
  <2>1. Untouched(b)
    BY <1>0, <1>5, LockAssumption
    DEF TryLock, Step, brackets, TypeOK, BracketsOK, Untouched, LockAssumption
  <2> QED
    BY <2>1, UntouchedKeeps DEF LockInv
<1> QED
  BY <1>3, <1>4, <1>5 DEF LockInv

LEMMA PostDidStartKeeps ==
  ASSUME LockInv, NEW a \in Client, PostDidStart(a)
  PROVE  LockInv'
<1>0. TypeOK /\ BracketsOK /\ ClientInv(a) /\ iPhone # a /\ Nobody # a
  BY LockAssumption DEF LockInv, TypeOK, LockAssumption
<1>1. BracketsOK'
  BY <1>0, StartedType DEF PostDidStart, Step, Post, brackets, BracketsOK
<1>2. pc' \in [Client -> Places]
  BY <1>0
  DEF PostDidStart, Step, Post, brackets, TypeOK, Places, Starting, Stopping
<1>3. TypeOK'
  BY <1>0, <1>1, <1>2, LockAssumption
  DEF PostDidStart, Step, Post, brackets, TypeOK, LockAssumption
<1>4. ClientInv(a)'
  BY <1>0
  DEF PostDidStart, Step, Post, brackets, Started, TypeOK, BracketsOK,
      ClientInv, StartingInv, StoppingInv, HolderInv, CountInv, Outstanding,
      Starting, Stopping
<1>5. ASSUME NEW b \in Client, b # a PROVE ClientInv(b)'
  <2>1. Untouched(b)
    BY <1>0, <1>5, LockAssumption
    DEF PostDidStart, Step, Post, brackets, Started, TypeOK, BracketsOK,
        Untouched, LockAssumption
  <2> QED
    BY <2>1, UntouchedKeeps DEF LockInv
<1> QED
  BY <1>3, <1>4, <1>5 DEF LockInv

LEMMA PostFailedToStartKeeps ==
  ASSUME LockInv, NEW a \in Client, PostFailedToStart(a)
  PROVE  LockInv'
<1>0. TypeOK /\ BracketsOK /\ ClientInv(a) /\ iPhone # a /\ Nobody # a
  BY LockAssumption DEF LockInv, TypeOK, LockAssumption
<1>1. BracketsOK'
  BY <1>0 DEF PostFailedToStart, Step, Post, brackets, BracketsOK
<1>2. pc' \in [Client -> Places]
  BY <1>0
  DEF PostFailedToStart, Step, Post, brackets, TypeOK, Places, Starting,
      Stopping
<1>3. TypeOK'
  BY <1>0, <1>1, <1>2, LockAssumption
  DEF PostFailedToStart, Step, Post, brackets, TypeOK, LockAssumption
<1>4. ClientInv(a)'
  BY <1>0
  DEF PostFailedToStart, Step, Post, brackets, TypeOK, BracketsOK, ClientInv,
      StartingInv, StoppingInv, HolderInv, CountInv, Outstanding, Starting,
      Stopping
<1>5. ASSUME NEW b \in Client, b # a PROVE ClientInv(b)'
  <2>1. Untouched(b)
    BY <1>0, <1>5, LockAssumption
    DEF PostFailedToStart, Step, Post, brackets, TypeOK, BracketsOK,
        Untouched, LockAssumption
  <2> QED
    BY <2>1, UntouchedKeeps DEF LockInv
<1> QED
  BY <1>3, <1>4, <1>5 DEF LockInv

LEMMA ReleaseFailedKeeps ==
  ASSUME LockInv, NEW a \in Client, ReleaseFailed(a)
  PROVE  LockInv'
<1>0. TypeOK /\ BracketsOK /\ ClientInv(a) /\ iPhone # a /\ Nobody # a
  BY LockAssumption DEF LockInv, TypeOK, LockAssumption
<1>1. BracketsOK'
  BY <1>0, NotStartedType DEF ReleaseFailed, Step
<1>2. pc' \in [Client -> Places]
  BY <1>0 DEF ReleaseFailed, Step, TypeOK, Places, Starting, Stopping
<1>3. TypeOK'
  BY <1>0, <1>1, <1>2, LockAssumption
  DEF ReleaseFailed, Step, TypeOK, LockAssumption
<1>4. ClientInv(a)'
  BY <1>0
  DEF ReleaseFailed, Step, NotStarted, TypeOK, BracketsOK, ClientInv,
      StartingInv, StoppingInv, HolderInv, CountInv, Outstanding, Starting,
      Stopping
<1>5. ASSUME NEW b \in Client, b # a PROVE ClientInv(b)'
  <2>1. Untouched(b)
    BY <1>0, <1>5, LockAssumption
    DEF ReleaseFailed, Step, NotStarted, TypeOK, BracketsOK, Untouched,
        LockAssumption
  <2> QED
    BY <2>1, UntouchedKeeps DEF LockInv
<1> QED
  BY <1>3, <1>4, <1>5 DEF LockInv

LEMMA UnlockKeeps ==
  ASSUME LockInv, NEW a \in Client, Unlock(a)
  PROVE  LockInv'
<1>0. TypeOK /\ BracketsOK /\ ClientInv(a) /\ iPhone # a /\ Nobody # a
  BY LockAssumption DEF LockInv, TypeOK, LockAssumption
<1>1. BracketsOK'
  BY <1>0 DEF Unlock, Step, brackets, BracketsOK
<1>2. pc' \in [Client -> Places]
  BY <1>0 DEF Unlock, Step, brackets, TypeOK, Places, Starting, Stopping
<1>3. TypeOK'
  BY <1>0, <1>1, <1>2, LockAssumption
  DEF Unlock, Step, brackets, TypeOK, LockAssumption
<1>4. ClientInv(a)'
  BY <1>0
  DEF Unlock, Step, brackets, TypeOK, BracketsOK, ClientInv, StartingInv,
      StoppingInv, HolderInv, CountInv, Outstanding, Starting, Stopping
<1>5. ASSUME NEW b \in Client, b # a PROVE ClientInv(b)'
  <2>1. Untouched(b)
    BY <1>0, <1>5, LockAssumption
    DEF Unlock, Step, brackets, TypeOK, BracketsOK, Untouched, LockAssumption
  <2> QED
    BY <2>1, UntouchedKeeps DEF LockInv
<1> QED
  BY <1>3, <1>4, <1>5 DEF LockInv

LEMMA PostDidFinishKeeps ==
  ASSUME LockInv, NEW a \in Client, PostDidFinish(a)
  PROVE  LockInv'
<1>0. TypeOK /\ BracketsOK /\ ClientInv(a) /\ iPhone # a /\ Nobody # a
  BY LockAssumption DEF LockInv, TypeOK, LockAssumption
<1>1. BracketsOK'
  <2>1. caller[a] = "application" => depth[a] > 0
    BY <1>0 DEF PostDidFinish, Step, ClientInv, StoppingInv, Stopping
  <2> QED
    BY <1>0, <2>1, StoppedType DEF PostDidFinish
<1>2. pc' \in [Client -> Places]
  BY <1>0 DEF PostDidFinish, Step, Post, TypeOK, Places, Starting, Stopping
<1>3. TypeOK'
  BY <1>0, <1>1, <1>2, LockAssumption
  DEF PostDidFinish, Step, Post, TypeOK, LockAssumption
<1>4. ClientInv(a)'
  BY <1>0
  DEF PostDidFinish, Step, Post, Stopped, TypeOK, BracketsOK, ClientInv,
      StartingInv, StoppingInv, HolderInv, CountInv, Outstanding, Starting,
      Stopping
<1>5. ASSUME NEW b \in Client, b # a PROVE ClientInv(b)'
  <2>1. Untouched(b)
    BY <1>0, <1>5, LockAssumption
    DEF PostDidFinish, Step, Post, Stopped, TypeOK, BracketsOK, Untouched,
        LockAssumption
  <2> QED
    BY <2>1, UntouchedKeeps DEF LockInv
<1> QED
  BY <1>3, <1>4, <1>5 DEF LockInv

LEMMA KillKeeps ==
  ASSUME LockInv, NEW a \in Client, Kill(a)
  PROVE  LockInv'
<1>0. TypeOK /\ BracketsOK /\ ClientInv(a) /\ iPhone # a /\ Nobody # a
  BY LockAssumption DEF LockInv, TypeOK, LockAssumption
<1>1. BracketsOK'
  <2>1. depth' \in [Client -> Nat]
    BY <1>0 DEF Kill, BracketsOK
  <2>2. writing' \in [Client -> {"no", "locked", "unlocked"}]
    BY <1>0 DEF Kill, BracketsOK
  <2> QED
    BY <2>1, <2>2 DEF BracketsOK
<1>2. pc' \in [Client -> Places]
  BY <1>0 DEF Kill, TypeOK, Places, Starting, Stopping
<1>3. TypeOK'
  BY <1>0, <1>1, <1>2, LockAssumption DEF Kill, TypeOK, LockAssumption
<1>4. ClientInv(a)'
  BY <1>0
  DEF Kill, TypeOK, BracketsOK, ClientInv, StartingInv, StoppingInv,
      HolderInv, CountInv, Outstanding, Starting, Stopping
<1>5. ASSUME NEW b \in Client, b # a PROVE ClientInv(b)'
  <2>1. Untouched(b)
    BY <1>0, <1>5, LockAssumption
    DEF Kill, TypeOK, BracketsOK, Untouched, LockAssumption
  <2> QED
    BY <2>1, UntouchedKeeps DEF LockInv
<1> QED
  BY <1>3, <1>4, <1>5 DEF LockInv

LEMMA IPhoneKeeps ==
  ASSUME LockInv, IPhoneLock \/ IPhoneUnlock
  PROVE  LockInv'
<1>1. TypeOK'
  BY DEF LockInv, TypeOK, BracketsOK, IPhoneLock, IPhoneUnlock, brackets
<1>2. ASSUME NEW a \in Client PROVE ClientInv(a)'
  <2>1. Untouched(a)
    BY <1>2, LockAssumption
    DEF IPhoneLock, IPhoneUnlock, brackets, Untouched, LockAssumption
  <2> QED
    BY <1>2, <2>1, UntouchedKeeps DEF LockInv
<1> QED
  BY <1>1, <1>2 DEF LockInv

LEMMA StutterKeeps ==
  ASSUME LockInv, UNCHANGED vars
  PROVE  LockInv'
  BY
  DEF LockInv, TypeOK, BracketsOK, vars, ClientInv, StartingInv, StoppingInv,
         HolderInv, CountInv, Outstanding

-----------------------------------------------------------------------------
LEMMA LockNext == LockInv /\ [Next]_vars => LockInv'
<1> SUFFICES ASSUME LockInv, [Next]_vars PROVE LockInv'
  OBVIOUS
<1>1. ASSUME NEW a \in Client, NEW who \in Callers, Call(a, who)
      PROVE  LockInv'
  BY <1>1, StartSyncKeeps, StartNestedKeeps, StopNestedKeeps, StopUnlockedKeeps,
     StopSyncKeeps DEF Call
<1>2. ASSUME NEW a \in Client, Proceed(a)
      PROVE  LockInv'
  BY <1>2, ConnectKeeps, PostWillStartKeeps, OpenLockfileKeeps,
     PostLockRequestKeeps, TryLockKeeps, PostDidStartKeeps,
     PostFailedToStartKeeps, ReleaseFailedKeeps, UnlockKeeps, PostDidFinishKeeps
  DEF Proceed
<1>3. ASSUME NEW a \in Client, Kill(a)
      PROVE  LockInv'
  BY <1>3, KillKeeps
<1>4. CASE IPhoneLock \/ IPhoneUnlock
  BY <1>4, IPhoneKeeps
<1>5. CASE UNCHANGED vars
  BY <1>5, StutterKeeps
<1> QED
  BY <1>1, <1>2, <1>3, <1>4, <1>5 DEF Next

(* The invariant that all the others follow from: what a client holds and  *)
(* has counted at every place of itdb_start_sync and itdb_stop_sync.       *)
THEOREM LockInvariant == Spec => []LockInv
  BY LockInit, LockNext, PTL DEF Spec

(* Every value the code keeps is of the kind its type allows, and the loop *)
(* of the lock attempts stays within its limit.                            *)
THEOREM TypeCorrect == Spec => []TypeOK
<1>1. LockInv => TypeOK
  BY DEF LockInv
<1> QED
  BY <1>1, LockInvariant, PTL

(* A client with iphone_sync_context set has the lock of the iPhone.       *)
THEOREM ContextHoldsLockCorrect == Spec => []ContextHoldsLock
<1>1. LockInv => ContextHoldsLock
  BY DEF LockInv, ClientInv, HolderInv, ContextHoldsLock
<1> QED
  BY <1>1, LockInvariant, PTL

(* itdb_iphone_start_sync leaves no lock behind when it fails, and         *)
(* itdb_iphone_stop_sync none in any case.                                 *)
THEOREM NoLockLeftCorrect == Spec => []NoLockLeft
<1>1. LockInv => NoLockLeft
  BY DEF LockInv, ClientInv, HolderInv, NoLockLeft
<1> QED
  BY <1>1, LockInvariant, PTL

(* iphone_sync_nest_level counts the nested calls, whatever failed before. *)
THEOREM NestingCountsCorrect == Spec => []NestingCounts
<1>1. ASSUME LockInv, NEW a \in Client
      PROVE  /\ context[a] = (Outstanding(a) > 0)
             /\ nest[a] = IF context[a] THEN Outstanding(a) - 1 ELSE 0
  <2>1. CountInv(a) /\ context[a] \in BOOLEAN
    BY <1>1 DEF LockInv, TypeOK, ClientInv
  <2>2. context[a] = (Outstanding(a) > 0)
    BY <2>1 DEF CountInv
  <2> QED
    BY <2>1, <2>2 DEF CountInv
<1>2. LockInv => NestingCounts
  BY <1>1 DEF NestingCounts
<1> QED
  BY <1>2, LockInvariant, PTL
=============================================================================
