----------------------------- MODULE MCLockFile ------------------------------
EXTENDS LockFile, TLC

Perms == Permutations(Procs)
==============================================================================
