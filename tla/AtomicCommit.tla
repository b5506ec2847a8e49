---------------------------- MODULE AtomicCommit -----------------------------
(***************************************************************************)
(* What StateManager.transaction promises: a call changes all the files it *)
(* was given, at once, or none of them.  The exception is a call that is   *)
(* torn: its caller was killed, a rollback write failed too, or it was     *)
(* refused by a schema that advanced under it; such a call leaves any part *)
(* of its files changed, and only of its own.  A file is the set of        *)
(* callers whose changes it contains; a change never leaves a file again,  *)
(* and a call that aborts never enters one.  Nothing is promised of a file *)
(* from when someone has written over it without its lock.                 *)
(***************************************************************************)
EXTENDS FiniteSets

CONSTANTS Procs, Paths

VARIABLES
  content, asked, outcome,
  astray   \* files that were written over without their lock

vars == <<content, asked, outcome, astray>>

Outcomes == {"none", "committed", "aborted", "torn"}

Init ==
  /\ content = [x \in Paths |-> {}]
  /\ asked = [p \in Procs |-> {}]
  /\ outcome = [p \in Procs |-> "none"]
  /\ astray = {}

Begin(p, files) ==
  /\ asked[p] = {} /\ files # {}
  /\ asked' = [asked EXCEPT ![p] = files]
  /\ UNCHANGED <<content, outcome, astray>>

(* The call ends, with its change in the given files. *)
End(p, files, verdict) ==
  /\ asked[p] # {} /\ outcome[p] = "none"
  /\ outcome' = [outcome EXCEPT ![p] = verdict]
  /\ content' = [x \in Paths |-> IF x \in files \ astray THEN content[x] \union {p} ELSE content[x]]
  /\ UNCHANGED <<asked, astray>>

Commit(p) == End(p, asked[p], "committed")
Abort(p) == End(p, {}, "aborted")
Tear(p) == \E files \in SUBSET asked[p] : End(p, files, "torn")

(* A file is written over, and lost. *)
Overwrite(x) ==
  /\ astray' = astray \union {x}
  /\ content' = [content EXCEPT ![x] = {}]
  /\ UNCHANGED <<asked, outcome>>

Next ==
  \/ \E x \in Paths : Overwrite(x)
  \/ \E p \in Procs : Commit(p) \/ Abort(p) \/ Tear(p) \/ \E S \in SUBSET Paths : Begin(p, S)

Spec == Init /\ [][Next]_vars
==============================================================================
