------------------------ MODULE StateStoreRolesProofs -------------------------
(***************************************************************************)
(* The theorems of StateStoreProofs that need everyone to take the lock,   *)
(* for the specification in which a second group of users does not: they   *)
(* hold in every behaviour of the first group.                             *)
(***************************************************************************)
EXTENDS MCStateStoreRoles, StateStoreProofs

RolesInv == locked => StateInv

LEMMA RolesInitInv == RolesInit => RolesInv
  BY InitState DEF RolesInit, RolesInv

LEMMA RolesNextInv ==
  OnlyUpdates /\ RolesInv /\ [RolesNext]_<<vars, locked>> => RolesInv'
  <1> SUFFICES ASSUME OnlyUpdates, RolesInv, [RolesNext]_<<vars, locked>>, locked'
               PROVE  StateInv'
    BY DEF RolesInv
  <1>1. locked /\ [Next]_vars
    BY DEF RolesNext
  <1> QED
    BY <1>1, NextState DEF RolesInv

LEMMA RolesAlways == ASSUME OnlyUpdates PROVE RolesSpec => []RolesInv
  <1>1. RolesInv /\ [RolesNext]_<<vars, locked>> => RolesInv'
    BY RolesNextInv
  <1> QED
    BY <1>1, RolesInitInv, PTL DEF RolesSpec

(* Nothing is lost where all take the lock. *)
THEOREM LockedGroupLosesNothing == ASSUME OnlyUpdates PROVE RolesSpec => []LockedLosesNothing
  <1>1. RolesInv => LockedLosesNothing
    BY DEF RolesInv, LockedLosesNothing, StateInv, BaseIsGood, Good, Fits, NoLostUpdate, Live
  <1> QED
    BY <1>1, RolesAlways, PTL

(* Nothing comes between the disk and the mutator where all take the lock. *)
THEOREM LockedGroupIsUpToDate == ASSUME OnlyUpdates PROVE RolesSpec => []LockedMutatorSeesBase
  <1>1. RolesInv => LockedMutatorSeesBase
    BY DEF RolesInv, LockedMutatorSeesBase, StateInv, DataInv, MutatorSeesBase
  <1> QED
    BY <1>1, RolesAlways, PTL

(* No living owner's session is demoted where all take the lock. *)
THEOREM LockedGroupLeavesOwners == ASSUME OnlyUpdates PROVE RolesSpec => LockedDemotesOnlyDead
  <1> DEFINE Leaves ==
        locked => \A p \in Procs :
          pc[p] = "demoteRename" /\ pc'[p] # "demoteRename" /\ Live(p)' /\ base.data # Corrupt
            => ~(base.data.active /\ base.data.pid \in Procs \ dead)
  <1>1. RolesInv => Leaves
    BY DEF RolesInv, StateInv, DataInv, OwnerLives
  <1>2. [][Leaves]_vars <=> LockedDemotesOnlyDead
    BY DEF LockedDemotesOnlyDead
  <1> QED
    BY <1>1, <1>2, RolesAlways, PTL
==============================================================================
