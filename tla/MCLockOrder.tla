---------------------------- MODULE MCLockOrder ----------------------------
(* TLC instances of LockOrder. *)
EXTENDS LockOrder

CONSTANTS t1, t2

\* One thread that comes and goes and meets the VM's death, one that prepares classes.
MCDuties == [t \in Threads |->
    IF t = t1 THEN {"ThreadStart", "ThreadEnd", "VMDeath"} ELSE {"VMInit", "ClassPrepare"}]
=============================================================================
