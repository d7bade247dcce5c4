---------------------------- MODULE ReentrantLock ----------------------------
(***************************************************************************)
(* What in_scope_lock together with the handler's has_lock promises: a     *)
(* lock its owner may acquire again, and which is free for another thread  *)
(* only when it has been released as often as it was acquired.  Module     *)
(* FrameSampling implements it.                                            *)
(***************************************************************************)
EXTENDS Naturals

CONSTANTS
    Threads,
    Free      \* the owner of a lock nobody holds

VARIABLES
    owner,
    depth     \* how often each thread has acquired the lock and not released it

lockVars == <<owner, depth>>

LockInit == owner = Free /\ depth = [t \in Threads |-> 0]

Acquire(t) ==
    /\ owner \in {Free, t} /\ owner' = t
    /\ depth' = [depth EXCEPT ![t] = @ + 1]

Release(t) ==
    /\ depth[t] > 0 /\ depth' = [depth EXCEPT ![t] = @ - 1]
    /\ owner' = IF depth[t] = 1 THEN Free ELSE owner

LockNext == \E t \in Threads : Acquire(t) \/ Release(t)

LockSpec == LockInit /\ [][LockNext]_lockVars

==============================================================================
