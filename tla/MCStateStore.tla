---------------------------- MODULE MCStateStore -----------------------------
EXTENDS StateStore, TLC

(* A session nobody has claimed yet, one that is not active, and one left by
   an old release. *)
Fresh == [pid |-> NoPid, active |-> TRUE, iteration |-> 0, legacy |-> FALSE,
          demoted |-> FALSE, done |-> [p \in Procs |-> 0]]
Idle == [Fresh EXCEPT !.active = FALSE]
Old == [Idle EXCEPT !.legacy = TRUE]

(* A file cut short: no snapshot, whatever can be read of it. *)
Torn == [Fresh EXCEPT !.iteration = MaxIter + 1]

FreshOnly == {Fresh}
IdleOnly == {Idle}
AllBases == {Fresh, Idle, Old}
==============================================================================
