-------------------------- MODULE MCStateStoreRoles --------------------------
(***************************************************************************)
(* Two groups of users of one state.json: processes that use update()      *)
(* only, and an updater next to a reader that does not take the lock, both *)
(* with a signal handler that may write without it.                        *)
(***************************************************************************)
EXTENDS MCStateStore

CONSTANTS Updater, Reader

VARIABLE locked  \* is this a behaviour of the first group?

Mixed == INSTANCE StateStore WITH
    Updaters <- {Updater}, Readers <- {Reader}, Forcers <- {Updater, Reader},
    InitBases <- IdleOnly, MaxClock <- 0, MaxDeaths <- 1

RolesInit == \/ locked = TRUE /\ Init
             \/ locked = FALSE /\ Mixed!Init

RolesNext == /\ \/ locked /\ Next
                \/ ~locked /\ Mixed!Next
             /\ UNCHANGED locked

MixedStep(p) == ~locked /\ Mixed!Step(p) /\ UNCHANGED locked

RolesSpec ==
    /\ RolesInit /\ [][RolesNext]_<<vars, locked>>
    /\ \A p \in {Updater, Reader} : WF_<<vars, locked>>(MixedStep(p))

\* See StateStore: a published mutation is never lost, while all take the lock.
LockedLosesNothing == locked => NoLostUpdate

\* See StateStore: the mutator sees what is on disk, while all take the lock.
LockedMutatorSeesBase == locked => MutatorSeesBase

\* See StateStore: recovery demotes dead owners only, while all take the lock.
LockedDemotesOnlyDead ==
    [][locked => \A p \in Procs :
         pc[p] = "demoteRename" /\ pc'[p] # "demoteRename" /\ Live(p)' /\ base.data # Corrupt
           => ~(base.data.active /\ base.data.pid \in Procs \ dead)]_vars

\* See StateStore: the file of a dead writer goes, as long as somebody reads.
MixedOrphansAreReaped ==
    ~locked /\ []<>(\E p \in Procs : pc[p] = "list")
      => \A q \in {Updater, Reader} : (q \in dead /\ tmp[q] # NoTmp) ~> tmp[q] = NoTmp
==============================================================================
