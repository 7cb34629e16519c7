------------------------------ MODULE SyncLock ------------------------------
(***************************************************************************)
(* itdb_start_sync() and itdb_stop_sync() on an iPhone or iPod Touch.      *)
(* Every Itdb_Device of every application is a client of the lock file on  *)
(* the iPhone, for which the iPhone competes as well.  A client tells the  *)
(* iPhone what it is about to do, tries for the lock a limited number of   *)
(* times, and counts nested calls.  itdb_write() brackets itself with the  *)
(* two calls and looks at the result of neither.                           *)
(*                                                                         *)
(* Calls to the iPhone may fail at any time.  On other iPods both calls do *)
(* nothing.                                                                *)
(***************************************************************************)
EXTENDS Naturals

CONSTANTS
  Client,         \* the Itdb_Device structures, each used by one thread
  iPhone,         \* the iPhone's own processes
  Nobody,
  LOCK_ATTEMPTS,
  MaxNest         \* bound on nested calls (model only)

ASSUME LockAssumption ==
  /\ iPhone \notin Client
  /\ Nobody \notin Client \cup {iPhone}
  /\ LOCK_ATTEMPTS \in Nat \ {0}
  /\ MaxNest \in Nat

VARIABLES
  holder,   \* who has the lock on com.apple.itunes.lock_sync
  context,  \* whether iphone_sync_context is set
  nest,     \* iphone_sync_nest_level
  pc,       \* the place in itdb_iphone_start_sync or itdb_iphone_stop_sync
  attempt,  \* the loop variable of the lock attempts
  posted,   \* the last notification, which the screen of the iPhone follows
  caller,   \* who called: the application or itdb_write
  depth,    \* calls of the application that returned TRUE, less its stops
  writing   \* whether itdb_write is running, and whether it started a sync

vars == <<holder, context, nest, pc, attempt, posted, caller, depth, writing>>
brackets == <<depth, writing>>

Callers == {"application", "itdb_write"}
Starting == {"connect", "willStart", "open", "request", "lock", "didStart",
             "failed", "release"}
Stopping == {"unlock", "finish"}

Places == Starting \cup Stopping \cup {"idle"}

BracketsOK ==
  /\ depth \in [Client -> Nat]
  /\ writing \in [Client -> {"no", "locked", "unlocked"}]

TypeOK ==
  /\ holder \in Client \cup {iPhone, Nobody}
  /\ context \in [Client -> BOOLEAN]
  /\ nest \in [Client -> Nat]
  /\ pc \in [Client -> Places]
  /\ attempt \in [Client -> 0 .. LOCK_ATTEMPTS - 1]
  /\ posted \in [Client -> {"none", "syncWillStart", "syncDidStart"}]
  /\ caller \in [Client -> Callers]
  /\ BracketsOK

Init ==
  /\ holder = Nobody
  /\ context = [a \in Client |-> FALSE]
  /\ nest = [a \in Client |-> 0]
  /\ pc = [a \in Client |-> "idle"]
  /\ attempt = [a \in Client |-> 0]
  /\ posted = [a \in Client |-> "none"]
  /\ caller = [a \in Client |-> "application"]
  /\ depth = [a \in Client |-> 0]
  /\ writing = [a \in Client |-> "no"]

-----------------------------------------------------------------------------
(* What the caller does with the result.  An application that could not    *)
(* start does not stop; itdb_write goes on.                                *)
Started(a, who) ==
  IF who = "application"
  THEN depth' = [depth EXCEPT ![a] = @ + 1] /\ UNCHANGED writing
  ELSE writing' = [writing EXCEPT ![a] = "locked"] /\ UNCHANGED depth

NotStarted(a, who) ==
  /\ writing' = IF who = "application" THEN writing
                ELSE [writing EXCEPT ![a] = "unlocked"]
  /\ UNCHANGED depth

Stopped(a, who) ==
  IF who = "application"
  THEN depth' = [depth EXCEPT ![a] = @ - 1] /\ UNCHANGED writing
  ELSE writing' = [writing EXCEPT ![a] = "no"] /\ UNCHANGED depth

-----------------------------------------------------------------------------
(* itdb_start_sync.                                                        *)

StartSync(a, who) ==
  /\ pc[a] = "idle"
  /\ writing[a] = "no"
  /\ nest[a] < MaxNest
  /\ ~context[a]
  /\ pc' = [pc EXCEPT ![a] = "connect"]
  /\ attempt' = [attempt EXCEPT ![a] = 0]
  /\ caller' = [caller EXCEPT ![a] = who]
  /\ UNCHANGED <<holder, context, nest, posted>> /\ UNCHANGED brackets

(* Mutant: the nested call is not counted.                                 *)
StartNestedUncounted(a, who) ==
  /\ pc[a] = "idle"
  /\ writing[a] = "no"
  /\ context[a]
  /\ Started(a, who)
  /\ UNCHANGED <<holder, context, nest, pc, attempt, posted, caller>>

StartNested(a, who) ==
  /\ pc[a] = "idle"
  /\ writing[a] = "no"
  /\ nest[a] < MaxNest
  /\ context[a]
  /\ nest' = [nest EXCEPT ![a] = @ + 1]
  /\ Started(a, who)
  /\ UNCHANGED <<holder, context, pc, attempt, posted, caller>>

-----------------------------------------------------------------------------
(* itdb_iphone_start_sync.                                                 *)

Step(a, from, to) == pc[a] = from /\ pc' = [pc EXCEPT ![a] = to]

Post(a, notification) == posted' = [posted EXCEPT ![a] = notification]

(* Before syncWillStart is posted there is nothing to take back.           *)
Connect(a) ==
  /\ \/ Step(a, "connect", "willStart")
     \/ Step(a, "connect", "release")
  /\ UNCHANGED <<holder, context, nest, attempt, posted, caller>>
  /\ UNCHANGED brackets

PostWillStart(a) ==
  /\ \/ Step(a, "willStart", "open") /\ Post(a, "syncWillStart")
     \/ Step(a, "willStart", "release") /\ UNCHANGED posted
  /\ UNCHANGED <<holder, context, nest, attempt, caller>> /\ UNCHANGED brackets

OpenLockfile(a) ==
  /\ \/ Step(a, "open", "request")
     \/ Step(a, "open", "failed")
  /\ UNCHANGED <<holder, context, nest, attempt, posted, caller>>
  /\ UNCHANGED brackets

PostLockRequest(a) ==
  /\ \/ Step(a, "request", "lock")
     \/ Step(a, "request", "failed")
  /\ UNCHANGED <<holder, context, nest, attempt, posted, caller>>
  /\ UNCHANGED brackets

(* Mutants: the loop has no limit; its running out is not noticed.         *)
TryLockForever(a) ==
  /\ \/ holder = Nobody /\ holder' = a /\ Step(a, "lock", "didStart")
        /\ UNCHANGED attempt
     \/ /\ holder # Nobody
        /\ Step(a, "lock", "lock")
        /\ attempt' = [attempt EXCEPT ![a] = (@ + 1) % LOCK_ATTEMPTS]
        /\ UNCHANGED holder
  /\ UNCHANGED <<context, nest, posted, caller>> /\ UNCHANGED brackets

TryLockIgnoresTimeout(a) ==
  /\ \/ holder = Nobody /\ holder' = a /\ Step(a, "lock", "didStart")
        /\ UNCHANGED attempt
     \/ /\ holder # Nobody
        /\ IF attempt[a] + 1 < LOCK_ATTEMPTS
           THEN Step(a, "lock", "lock") /\ attempt' = [attempt EXCEPT ![a] = @ + 1]
           ELSE Step(a, "lock", "didStart") /\ UNCHANGED attempt
        /\ UNCHANGED holder
  /\ UNCHANGED <<context, nest, posted, caller>> /\ UNCHANGED brackets

(* afc_file_lock: AFC_E_SUCCESS, AFC_E_OP_WOULD_BLOCK, or another error.   *)
TryLock(a) ==
  /\ \/ /\ holder = Nobody
        /\ holder' = a
        /\ Step(a, "lock", "didStart")
        /\ UNCHANGED attempt
     \/ /\ holder # Nobody
        /\ IF attempt[a] + 1 < LOCK_ATTEMPTS
           THEN Step(a, "lock", "lock") /\ attempt' = [attempt EXCEPT ![a] = @ + 1]
           ELSE Step(a, "lock", "failed") /\ UNCHANGED attempt
        /\ UNCHANGED holder
     \/ /\ Step(a, "lock", "failed")
        /\ UNCHANGED <<holder, attempt>>
  /\ UNCHANGED <<context, nest, posted, caller>> /\ UNCHANGED brackets

PostDidStart(a) ==
  /\ \/ /\ Step(a, "didStart", "idle")
        /\ Post(a, "syncDidStart")
        /\ context' = [context EXCEPT ![a] = TRUE]
        /\ Started(a, caller[a])
     \/ /\ Step(a, "didStart", "failed")
        /\ UNCHANGED <<posted, context>> /\ UNCHANGED brackets
  /\ UNCHANGED <<holder, nest, attempt, caller>>

(* leave_with_err: syncFailedToStart, if it can be posted, then the lock.  *)
PostFailedToStart(a) ==
  /\ Step(a, "failed", "release")
  /\ Post(a, "none") \/ UNCHANGED posted
  /\ UNCHANGED <<holder, context, nest, attempt, caller>> /\ UNCHANGED brackets

(* Mutant: the lock is not given back.                                     *)
ReleaseFailedKeepsLock(a) ==
  /\ Step(a, "release", "idle")
  /\ NotStarted(a, caller[a])
  /\ UNCHANGED <<holder, context, nest, attempt, posted, caller>>

ReleaseFailed(a) ==
  /\ Step(a, "release", "idle")
  /\ holder' = IF holder = a THEN Nobody ELSE holder
  /\ NotStarted(a, caller[a])
  /\ UNCHANGED <<context, nest, attempt, posted, caller>>

-----------------------------------------------------------------------------
(* itdb_stop_sync.                                                         *)

CanStop(a, who) ==
  /\ pc[a] = "idle"
  /\ IF who = "application" THEN writing[a] = "no" /\ depth[a] > 0
     ELSE writing[a] # "no"

StopNested(a, who) ==
  /\ CanStop(a, who)
  /\ nest[a] > 0
  /\ nest' = [nest EXCEPT ![a] = @ - 1]
  /\ Stopped(a, who)
  /\ UNCHANGED <<holder, context, pc, attempt, posted, caller>>

(* "Trying to unlock an already unlocked device"                           *)
StopUnlocked(a, who) ==
  /\ CanStop(a, who)
  /\ nest[a] = 0
  /\ ~context[a]
  /\ Stopped(a, who)
  /\ UNCHANGED <<holder, context, nest, pc, attempt, posted, caller>>

StopSync(a, who) ==
  /\ CanStop(a, who)
  /\ nest[a] = 0
  /\ context[a]
  /\ pc' = [pc EXCEPT ![a] = "unlock"]
  /\ caller' = [caller EXCEPT ![a] = who]
  /\ UNCHANGED <<holder, context, nest, attempt, posted>> /\ UNCHANGED brackets

(* itdb_iphone_stop_sync: the lock first.                                  *)
Unlock(a) ==
  /\ Step(a, "unlock", "finish")
  /\ holder' = IF holder = a THEN Nobody ELSE holder
  /\ UNCHANGED <<context, nest, attempt, posted, caller>> /\ UNCHANGED brackets

(* Then syncDidFinish, if the iPhone answers; the result is 0 either way.  *)
PostDidFinish(a) ==
  /\ Step(a, "finish", "idle")
  /\ Post(a, "none") \/ UNCHANGED posted
  /\ context' = [context EXCEPT ![a] = FALSE]
  /\ Stopped(a, caller[a])
  /\ UNCHANGED <<holder, nest, attempt, caller>>

-----------------------------------------------------------------------------
(* External: the iPhone's own use of the lock, and an application that is  *)
(* killed, whose connection the iPhone then closes.                        *)
IPhoneLock ==
  /\ holder = Nobody
  /\ holder' = iPhone
  /\ UNCHANGED <<context, nest, pc, attempt, posted, caller>> /\ UNCHANGED brackets

IPhoneUnlock ==
  /\ holder = iPhone
  /\ holder' = Nobody
  /\ UNCHANGED <<context, nest, pc, attempt, posted, caller>> /\ UNCHANGED brackets

Kill(a) ==
  /\ holder' = IF holder = a THEN Nobody ELSE holder
  /\ context' = [context EXCEPT ![a] = FALSE]
  /\ nest' = [nest EXCEPT ![a] = 0]
  /\ pc' = [pc EXCEPT ![a] = "idle"]
  /\ depth' = [depth EXCEPT ![a] = 0]
  /\ writing' = [writing EXCEPT ![a] = "no"]
  /\ UNCHANGED <<attempt, posted, caller>>

-----------------------------------------------------------------------------
Call(a, who) ==
  \/ StartSync(a, who)
  \/ StartNested(a, who)
  \/ StopNested(a, who)
  \/ StopUnlocked(a, who)
  \/ StopSync(a, who)

Proceed(a) ==
  \/ Connect(a)
  \/ PostWillStart(a)
  \/ OpenLockfile(a)
  \/ PostLockRequest(a)
  \/ TryLock(a)
  \/ PostDidStart(a)
  \/ PostFailedToStart(a)
  \/ ReleaseFailed(a)
  \/ Unlock(a)
  \/ PostDidFinish(a)

Next ==
  \/ \E a \in Client :
       \/ \E who \in Callers : Call(a, who)
       \/ Proceed(a)
       \/ Kill(a)
  \/ IPhoneLock
  \/ IPhoneUnlock

Spec == Init /\ [][Next]_vars

(* A thread inside one of the two calls keeps running.                     *)
FairSpec == Spec /\ \A a \in Client : WF_vars(Proceed(a))

-----------------------------------------------------------------------------
(* A client with a sync context has the lock on the iPhone, so that no two *)
(* clients and never the iPhone are in the middle of a sync together.      *)
ContextHoldsLock ==
  \A a \in Client : context[a] /\ pc[a] # "finish" => holder = a

(* No lock is left behind: a client has it only while it syncs, or while   *)
(* it is starting to or giving up.                                         *)
NoLockLeft ==
  \A a \in Client :
    holder = a =>
      \/ context[a]
      \/ pc[a] \in {"didStart", "failed", "release"}

(* The calls that started a sync and were not stopped yet.                 *)
Outstanding(a) == depth[a] + (IF writing[a] = "locked" THEN 1 ELSE 0)

(* Nested calls are counted right, whatever failed before: the sync goes   *)
(* on exactly until the last of the calls that started is stopped.         *)
NestingCounts ==
  \A a \in Client :
    /\ context[a] = (Outstanding(a) > 0)
    /\ nest[a] = IF context[a] THEN Outstanding(a) - 1 ELSE 0

(* itdb_start_sync and itdb_stop_sync return, even when the lock is never  *)
(* given up by its holder.                                                 *)
CallsReturn == \A a \in Client : pc[a] # "idle" ~> pc[a] = "idle"

=============================================================================
