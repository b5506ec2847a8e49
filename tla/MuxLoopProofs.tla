--------------------------- MODULE MuxLoopProofs ----------------------------
(***************************************************************************)
(* The safety of the main loop, for any number of tickets, any caps and    *)
(* any acts of its agents: the counts that state.json keeps stay within    *)
(* their caps, finished work stays finished, no agent is spawned for a     *)
(* ticket that is over, and no session is closed with success over a       *)
(* ticket that is left to do.                                              *)
(*                                                                         *)
(* The last two hold of a step because of what was seen some steps before: *)
(* the ticket was chosen at the head of the pass, in eight reads and       *)
(* writes, the tickets were scanned before the session is closed, and an   *)
(* operator may act in between.  The invariant carries what was seen over  *)
(* to the step that relies on it.                                          *)
(***************************************************************************)
EXTENDS MuxLoop, WellFoundedInduction, TLAPS

Workable(t) == t # None => status[t] # "Stalled"

\* The cap of the ticket was compared before another iteration is charged to it.
CapInv == pc \in {"choose", "point"} => state.spent < TicketCap

\* What the desync repair has read of the tickets is so still, but for those an
\* operator has reset meanwhile.
SurveyInv ==
    pc = "sync" => \A t \in Tickets :
        /\ t \in spawn.working => status[t] \in {"In Progress", "Todo"}
        /\ t \notin spawn.working \cup spawn.over => status[t] = "Todo"

\* The ticket chosen, the one the pointer names and the ticket of the pass are
\* not ones that the runner has failed, but for what an operator has pointed to.
ChosenInv ==
    /\ pc = "point" => Workable(spawn.chosen)
    /\ pc = "stamp" => Workable(spawn.ticket)
    /\ pc \in Pointing => Workable(state.current) \/ spawn.pointed
    /\ pc = "roster" => Workable(spawn.ticket) \/ spawn.pointed

\* Nothing was left to do when the tickets were scanned.
ClosingInv == pc = "closing" => Blocking(TRUE) \subseteq retry.reset

HeadInv == CapInv /\ SurveyInv /\ ChosenInv
IInv == TypeOK /\ HeadInv /\ ClosingInv

\* What DoneStays and SpawnsWorkable say of a step, and what is shown of each.
DoneStep ==
    \A t \in Tickets : status[t] = "Done" /\ t \in commits =>
        status'[t] = "Done" \/ retry'.ticket = t
SpawnStep ==
    pc = "roster" /\ pc' = "work" /\ spawn.ticket # None =>
        /\ status[spawn.ticket] \notin Terminal
        /\ status[spawn.ticket] = "Stalled" => spawn.pointed
Safe == IInv' /\ DoneStep /\ SpawnStep

-----------------------------------------------------------------------------
(* Tickets and records.                                                    *)

LEMMA Numbers ==
    /\ NumTickets \in Nat /\ None \notin Tickets /\ Tickets \subseteq Nat
    /\ \A cap \in {SkipK, TicketCap, BreakerBudget} : cap \in Nat /\ cap > 0
    /\ \A cap \in {SuppressionCap, FalseEpics, RelaunchCap} : cap \in Nat
  BY LoopAssumption DEF None, Tickets

\* The first ticket of a set is one of the set.
LEMMA FirstType ==
    ASSUME NEW set \in SUBSET Tickets
    PROVE  First(set) \in set \cup {None} /\ (set # {} => First(set) \in set)
  <1>1. CASE set = {}
    BY <1>1 DEF First
  <1>2. CASE set # {}
    <2> DEFINE less == OpToRel(<, Nat)
    <2>1. IsWellFoundedOn(less, Nat)
      BY NatLessThanWellFounded
    <2>2. \A x, y \in Nat : y < x => <<y, x>> \in less
      BY DEF OpToRel
    <2> HIDE DEF less
    <2>3. PICK m \in set : \A u \in set : <<u, m>> \notin less
      BY <1>2, <2>1, WFMin, Numbers
    <2>4. m \in Nat /\ \A u \in set : u \in Nat /\ ~(u < m)
      BY <2>2, <2>3, Numbers
    <2>5. \A u \in set : m <= u
      BY <2>4
    <2> QED
      BY <1>2, <2>5 DEF First
  <1> QED
    BY <1>1, <1>2

LEMMA NextPendingType ==
    ASSUME NEW st, NEW s
    PROVE  /\ NextPending(st, s) \in Tickets \cup {None}
           /\ NextPending(st, s) # None => st[NextPending(st, s)] # "Stalled"
  <1> DEFINE set == {t \in Tickets : st[t] \notin Terminal \cup {"Stalled"} /\ ~Held(st, s, t)}
  <1>1. First(set) \in set \cup {None}
    BY FirstType
  <1> QED
    BY <1>1 DEF NextPending

LEMMA MoveToType ==
    ASSUME NEW s \in StateFile, NEW t \in Tickets \cup {None}
    PROVE  /\ MoveTo(s, t) \in StateFile /\ Closed(s) \in StateFile
           /\ Deactivated(s) \in StateFile
           /\ MoveTo(s, t).falseCount = s.falseCount /\ MoveTo(s, t).holds = s.holds
  BY DEF MoveTo, Closed, Deactivated, StateFile, Unset

LEMMA ChargeType ==
    ASSUME TypeOK
    PROVE  /\ ZeroProgress \in 0..SkipK
           /\ \A n \in 0..SkipK : Charge(state, n) \in StateFile
           /\ \A n \in 0..SkipK : Charge(state, n).holds = state.holds
           /\ ZeroProgress >= SkipK => Worked \in Tickets
  <1>1. state \in StateFile /\ Worked \in Tickets \cup {None} /\ SkipK \in Nat /\ SkipK > 0
    BY Numbers DEF TypeOK, Worked, Spawns
  <1>2. Worked \in Tickets => state.zero[Worked] \in {Unset} \cup 0..SkipK
    BY <1>1 DEF StateFile
  <1>3. ZeroProgress \in 0..SkipK /\ (ZeroProgress >= SkipK => Worked \in Tickets)
    BY <1>1, <1>2 DEF ZeroProgress, Unset
  <1>4. ASSUME NEW n \in 0..SkipK
        PROVE  Charge(state, n) \in StateFile /\ Charge(state, n).holds = state.holds
    BY <1>1, Numbers DEF Charge, StateFile
  <1> QED
    BY <1>3, <1>4

LEMMA LeftType ==
    ASSUME TypeOK
    PROVE  /\ left.work > 0 => [left EXCEPT !.work = @ - 1] \in [work : Nat, retries : Nat, runs : Nat]
           /\ left.retries > 0 => [left EXCEPT !.retries = @ - 1] \in [work : Nat, retries : Nat, runs : Nat]
           /\ left.runs > 0 => [left EXCEPT !.runs = @ - 1] \in [work : Nat, retries : Nat, runs : Nat]
  <1>1. left \in [work : Nat, retries : Nat, runs : Nat]
    BY DEF TypeOK
  <1>2. \A n \in Nat : n > 0 => n - 1 \in Nat
    OBVIOUS
  <1> QED
    BY <1>1, <1>2

LEMMA LeaveType ==
    ASSUME NEW reason, Leave(reason)
    PROVE  pc' = "down" /\ memory' \in Memory /\ spawn' \in Spawns
  BY DEF Leave, FreshMemory, NoSpawn, Memory, Spawns, Claimed

LEMMA ContinueType ==
    ASSUME Continue
    PROVE  pc' = "head" /\ spawn' \in Spawns
  BY DEF Continue, NoSpawn, Spawns, Claimed

\* A step that leaves the head of a pass, or begins one.
LEMMA Elsewhere ==
    ASSUME TypeOK', DoneStep,
           pc' \in {"down", "head", "tier", "settle", "turn", "close", "claim"}
    PROVE  Safe
  BY DEF Safe, IInv, HeadInv, CapInv, SurveyInv, ChosenInv, Pointing, ClosingInv, SpawnStep

\* The end of a run that writes at most state.json.
LEMMA EndStep ==
    ASSUME TypeOK, NEW reason, Leave(reason), state' \in StateFile,
           UNCHANGED <<status, commits, retry, left>>
    PROVE  Safe
  <1>1. pc' = "down" /\ memory' \in Memory /\ spawn' \in Spawns
    BY LeaveType
  <1>2. TypeOK' /\ DoneStep
    BY <1>1 DEF TypeOK, DoneStep, Stages
  <1> QED
    BY <1>1, <1>2, Elsewhere

\* The next pass, after at most state.json and the loop's memory were written.
LEMMA AgainStep ==
    ASSUME TypeOK, Continue, state' \in StateFile, memory' \in Memory,
           UNCHANGED <<status, commits, retry>>,
           left' \in [work : Nat, retries : Nat, runs : Nat]
    PROVE  Safe
  <1>1. pc' = "head" /\ spawn' \in Spawns
    BY ContinueType
  <1>2. TypeOK' /\ DoneStep
    BY <1>1 DEF TypeOK, DoneStep, Stages
  <1> QED
    BY <1>1, <1>2, Elsewhere

\* A step to another stage of the same pass, but not to the closing one.
LEMMA OnStep ==
    ASSUME TypeOK, pc' \in {"tier", "settle", "turn", "close", "claim"},
           state' \in StateFile, memory' \in Memory, spawn' \in Spawns,
           UNCHANGED <<status, commits, retry, left>>
    PROVE  Safe
  <1>1. TypeOK' /\ DoneStep
    BY DEF TypeOK, DoneStep, Stages
  <1> QED
    BY <1>1, Elsewhere

\* A step to the closing of the session, for which the tickets were scanned.
LEMMA ScannedStep ==
    ASSUME TypeOK, Scanned, pc' = "closing", state' \in StateFile, spawn' \in Spawns,
           UNCHANGED <<status, commits, memory, retry, left>>
    PROVE  Safe
  <1>1. TypeOK' /\ DoneStep
    BY DEF TypeOK, DoneStep, Stages
  <1>2. Blocking(TRUE)' = {}
    BY DEF Scanned, ScanFinds, Blocking
  <1> QED
    BY <1>1, <1>2 DEF Safe, IInv, HeadInv, CapInv, SurveyInv, ChosenInv, Pointing, ClosingInv,
                      SpawnStep

-----------------------------------------------------------------------------
LEMMA InitIInv == Init => IInv
  <1> SUFFICES ASSUME Init PROVE IInv
    OBVIOUS
  <1>1. state \in StateFile
    BY Numbers DEF Init, StateFile, Unset
  <1>2. memory \in Memory /\ spawn \in Spawns
    BY DEF Init, FreshMemory, NoSpawn, Memory, Spawns, Claimed
  <1>3. left \in [work : Nat, retries : Nat, runs : Nat]
    BY LoopAssumption DEF Init
  <1> QED
    BY <1>1, <1>2, <1>3 DEF Init, IInv, TypeOK, HeadInv, CapInv, SurveyInv, ChosenInv, Pointing,
                            ClosingInv, Statuses, Stages

-----------------------------------------------------------------------------
(* The head of a pass.                                                     *)

LEMMA ResolveType ==
    ASSUME NEW st, NEW current \in Tickets \cup {None}
    PROVE  /\ ResolvePreTicket(st, current) \in Tickets \cup {None}
           /\ ResolvePreTicket(st, current) # None =>
                 st[ResolvePreTicket(st, current)] # "Stalled"
  BY NextPendingType DEF ResolvePreTicket

LEMMA CorrectedType ==
    ASSUME TypeOK
    PROVE  /\ CorrectPhantomDone \in [Tickets -> Statuses]
           /\ \A t \in Tickets : status[t] = "Done" /\ t \in commits =>
                 CorrectPhantomDone[t] = "Done"
  BY DEF TypeOK, CorrectPhantomDone, Statuses

LEMMA SpentType ==
    ASSUME TypeOK
    PROVE  Spent \in {Unset} \cup 1..TicketCap /\ Normalised \in StateFile
           /\ Normalised.spent = Spent
  <1>1. Spent \in {Unset} \cup 1..TicketCap
    BY Numbers DEF TypeOK, StateFile, Spent
  <1> QED
    BY <1>1 DEF TypeOK, Normalised, StateFile

LEMMA RefundedType ==
    ASSUME TypeOK, NEW t \in Tickets \cup {None}
    PROVE  /\ Refunded(t) \in StateFile
           /\ Refunded(t).spent = state.spent /\ Refunded(t).current = state.current
  <1>0. state \in StateFile
    BY DEF TypeOK
  <1>1. CASE t # None /\ status[t] = "Todo"
    <2> DEFINE charges == [state.charges EXCEPT ![t] = 0]
               holds == [state.holds EXCEPT ![t] = 0]
    <2>1. charges \in [Tickets -> Nat] /\ holds \in [Tickets -> 0..SuppressionCap]
      BY <1>0, <1>1, Numbers DEF StateFile
    <2>2. [state EXCEPT !.charges[t] = 0, !.holds[t] = 0]
            = [state EXCEPT !.charges = charges, !.holds = holds]
      BY <1>0 DEF StateFile
    <2> HIDE DEF charges, holds
    <2>3. /\ [state EXCEPT !.charges[t] = 0, !.holds[t] = 0] \in StateFile
          /\ [state EXCEPT !.charges[t] = 0, !.holds[t] = 0].spent = state.spent
          /\ [state EXCEPT !.charges[t] = 0, !.holds[t] = 0].current = state.current
      BY <1>0, <2>1, <2>2 DEF StateFile
    <2> QED
      BY <1>1, <2>3 DEF Refunded
  <1>2. CASE ~(t # None /\ status[t] = "Todo")
    BY <1>0, <1>2 DEF Refunded
  <1> QED
    BY <1>1, <1>2

\* The iteration is charged below the cap that was compared.
LEMMA AdvancedType ==
    ASSUME NEW s \in StateFile, NEW t \in Tickets \cup {None}, s.spent < TicketCap
    PROVE  Advanced(s, t) \in StateFile /\ Advanced(s, t).current = t
  <1>1. s.spent \in {Unset} \cup 1..TicketCap /\ TicketCap \in Nat
    BY Numbers DEF StateFile
  <1>2. CASE s.current = t /\ s.spent # Unset
    <2>1. s.spent + 1 \in 1..TicketCap
      BY <1>1, <1>2
    <2> QED
      BY <1>2, <2>1 DEF Advanced, StateFile
  <1>3. CASE ~(s.current = t /\ s.spent # Unset)
    <2>1. MoveTo(s, t).current = t
      BY DEF MoveTo, StateFile
    <2> QED
      BY <1>3, <2>1, MoveToType DEF Advanced
  <1> QED
    BY <1>2, <1>3

LEMMA WinnerType ==
    ASSUME TypeOK, SurveyInv, pc = "sync", DesyncWinner # None
    PROVE  /\ DesyncWinner \in Tickets
           /\ status[DesyncWinner] \in {"In Progress", "Todo"}
  <1>1. state.current \in Tickets \cup {None} /\ spawn.working \in SUBSET Tickets
    BY DEF TypeOK, StateFile, Spawns
  <1>2. First(spawn.working) \in spawn.working \cup {None}
        /\ (spawn.working # {} => First(spawn.working) \in spawn.working)
    BY <1>1, FirstType
  <1> QED
    BY <1>1, <1>2, Numbers DEF DesyncWinner, SurveyInv

LEMMA SyncedType ==
    ASSUME TypeOK, SurveyInv, pc = "sync", ~InSync
    PROVE  /\ Synced(DesyncWinner) \in [Tickets -> Statuses]
           /\ Synced(DesyncWinner)[DesyncWinner] # "Stalled"
           /\ \A t \in Tickets : Synced(DesyncWinner)[t] \in {status[t], "Todo", "In Progress"}
           /\ \A t \in Tickets : status[t] = "Done" => Synced(DesyncWinner)[t] = "Done"
  <1>1. DesyncWinner \in Tickets /\ status[DesyncWinner] \in {"In Progress", "Todo"}
    BY WinnerType DEF InSync
  <1>2. /\ status \in [Tickets -> Statuses]
        /\ \A t \in spawn.working \cap Tickets : status[t] \in {"In Progress", "Todo"}
    BY DEF TypeOK, SurveyInv
  <1> HIDE DEF DesyncWinner
  <1> QED
    BY <1>1, <1>2 DEF Synced, Statuses

\* A step of the head that leaves the tickets as they are.
LEMMA QuietStep ==
    ASSUME TypeOK, state' \in StateFile, memory' \in Memory, spawn' \in Spawns,
           pc' \in Stages \ {"work", "closing"}, HeadInv',
           UNCHANGED <<status, commits, retry, left>>
    PROVE  Safe
  <1>1. TypeOK' /\ DoneStep
    BY DEF TypeOK, DoneStep
  <1> QED
    BY <1>1 DEF Safe, IInv, ClosingInv, SpawnStep

LEMMA HeadReadsStep ==
    ASSUME IInv, HeadReads
    PROVE  Safe
  <1>1. TypeOK /\ state.current \in Tickets \cup {None}
    BY DEF IInv, TypeOK, StateFile
  <1>2. state' \in StateFile /\ state'.spent < TicketCap
    BY <1>1, SpentType DEF HeadReads
  <1>3. memory' \in Memory
    BY <1>1 DEF HeadReads, TypeOK, Memory, Filled
  <1>4. spawn' \in Spawns
    BY <1>1 DEF HeadReads, NoSpawn, Spawns, Claimed
  <1>5. HeadInv' /\ pc' \in Stages \ {"work", "closing"}
    BY <1>2 DEF HeadReads, HeadInv, CapInv, SurveyInv, ChosenInv, Pointing, Stages
  <1> QED
    BY <1>1, <1>2, <1>3, <1>4, <1>5, QuietStep DEF HeadReads

LEMMA HeadChoosesStep ==
    ASSUME IInv, HeadChooses
    PROVE  Safe
  <1> DEFINE chosen == ResolvePreTicket(CorrectPhantomDone, spawn.ticket)
  <1>1. TypeOK /\ CapInv /\ spawn.ticket \in Tickets \cup {None}
    BY DEF IInv, HeadInv, TypeOK, Spawns
  <1>2. chosen \in Tickets \cup {None} /\ (chosen # None => CorrectPhantomDone[chosen] # "Stalled")
    BY <1>1, ResolveType
  <1>3. /\ pc = "choose" /\ pc' = "point" /\ status' = CorrectPhantomDone
        /\ spawn' = [spawn EXCEPT !.ticket = chosen, !.chosen = chosen]
        /\ UNCHANGED <<commits, state, memory, retry, left>>
    BY DEF HeadChooses
  <1> HIDE DEF chosen
  <1>4. spawn' \in Spawns /\ spawn'.chosen = chosen
    BY <1>1, <1>2, <1>3 DEF TypeOK, Spawns
  <1>5. TypeOK' /\ DoneStep
    BY <1>1, <1>3, <1>4, CorrectedType DEF TypeOK, Stages, DoneStep
  <1>6. HeadInv'
    BY <1>1, <1>2, <1>3, <1>4 DEF HeadInv, CapInv, SurveyInv, ChosenInv, Pointing, Workable
  <1> QED
    BY <1>3, <1>5, <1>6 DEF Safe, IInv, ClosingInv, SpawnStep

LEMMA HeadPointsStep ==
    ASSUME IInv, HeadPoints
    PROVE  Safe
  <1>1. /\ TypeOK /\ state.spent < TicketCap /\ spawn.chosen \in Tickets \cup {None}
        /\ Workable(spawn.chosen) /\ memory \in Memory /\ spawn \in Spawns
    BY DEF IInv, HeadInv, CapInv, ChosenInv, HeadPoints, TypeOK, Spawns
  <1>2. state' \in StateFile /\ state'.current = spawn.chosen
    BY <1>1, RefundedType, AdvancedType DEF HeadPoints
  <1>3. HeadInv' /\ pc' \in Stages \ {"work", "closing"}
    BY <1>1, <1>2 DEF HeadPoints, HeadInv, CapInv, SurveyInv, ChosenInv, Pointing, Workable, Stages
  <1> QED
    BY <1>1, <1>2, <1>3, QuietStep DEF HeadPoints

LEMMA HeadSurveysStep ==
    ASSUME IInv, HeadSurveys
    PROVE  Safe
  <1>1. TypeOK /\ state \in StateFile /\ memory \in Memory /\ ChosenInv
    BY DEF IInv, HeadInv, TypeOK
  <1>2. /\ spawn' \in Spawns /\ spawn'.pointed = spawn.pointed
        /\ spawn'.working = {t \in Tickets : status[t] = "In Progress"}
        /\ spawn'.over = {t \in Tickets : status[t] \notin {"Todo", "In Progress"}}
    BY <1>1 DEF HeadSurveys, TypeOK, Spawns
  <1>3. pc = "survey" /\ pc' = "sync" /\ UNCHANGED <<status, commits, state, memory, retry, left>>
    BY DEF HeadSurveys
  <1>4. SurveyInv'
    BY <1>2, <1>3 DEF SurveyInv
  <1>5. HeadInv' /\ pc' \in Stages \ {"work", "closing"}
    BY <1>1, <1>2, <1>3, <1>4 DEF HeadInv, CapInv, ChosenInv, Pointing, Workable, Stages
  <1> QED
    BY <1>1, <1>2, <1>3, <1>5, QuietStep

LEMMA HeadSyncsStep ==
    ASSUME IInv, HeadSyncs
    PROVE  Safe
  <1> DEFINE settled == [spawn EXCEPT !.working = {}, !.over = {}]
  <1>1. /\ TypeOK /\ SurveyInv /\ ChosenInv /\ pc = "sync"
        /\ state \in StateFile /\ memory \in Memory
    BY DEF IInv, HeadInv, TypeOK, HeadSyncs
  <1>2. settled \in Spawns /\ settled.pointed = spawn.pointed
    BY <1>1 DEF TypeOK, Spawns
  <1>3. Workable(state.current) \/ spawn.pointed
    BY <1>1 DEF ChosenInv, Pointing
  <1>4. UNCHANGED <<commits, state, memory, retry, left>>
    BY DEF HeadSyncs
  <1>5. CASE InSync
    <2>1. status' = status /\ spawn' = settled /\ pc' = "budget"
      BY <1>5 DEF HeadSyncs
    <2> HIDE DEF settled
    <2>2. HeadInv' /\ pc' \in Stages \ {"work", "closing"}
      BY <1>2, <1>3, <1>4, <2>1
         DEF HeadInv, CapInv, SurveyInv, ChosenInv, Pointing, Workable, Stages
    <2> QED
      BY <1>1, <1>2, <1>4, <2>1, <2>2, QuietStep
  <1>6. CASE ~InSync
    <2>1. /\ status' = Synced(DesyncWinner)
          /\ spawn' = [settled EXCEPT !.ticket = DesyncWinner]
          /\ pc' \in {"budget", "stamp"}
      BY <1>6 DEF HeadSyncs
    <2>2. DesyncWinner \in Tickets
      BY <1>1, <1>6, WinnerType DEF InSync
    <2>3. /\ status' \in [Tickets -> Statuses] /\ status'[DesyncWinner] # "Stalled"
          /\ \A t \in Tickets : status'[t] \in {status[t], "Todo", "In Progress"}
          /\ \A t \in Tickets : status[t] = "Done" => status'[t] = "Done"
      BY <1>1, <1>6, <2>1, SyncedType
    <2> HIDE DEF settled
    <2>4. spawn' \in Spawns /\ spawn'.pointed = spawn.pointed /\ spawn'.ticket = DesyncWinner
      BY <1>2, <2>1, <2>2 DEF Spawns
    <2>5. TypeOK' /\ DoneStep
      BY <1>1, <1>4, <2>1, <2>3, <2>4 DEF TypeOK, Stages, DoneStep
    <2>6. Workable(state.current)' \/ spawn'.pointed
      <3>1. state.current \in Tickets \cup {None}
        BY <1>1 DEF StateFile
      <3> QED
        BY <1>3, <1>4, <2>3, <2>4, <3>1 DEF Workable
    <2>7. HeadInv'
      BY <2>1, <2>3, <2>4, <2>6 DEF HeadInv, CapInv, SurveyInv, ChosenInv, Pointing, Workable
    <2> QED
      BY <1>1, <2>1, <2>5, <2>7 DEF Safe, IInv, ClosingInv, SpawnStep
  <1> QED
    BY <1>5, <1>6

LEMMA HeadStampsStep ==
    ASSUME IInv, HeadStamps
    PROVE  Safe
  <1>1. /\ TypeOK /\ state \in StateFile /\ memory \in Memory
        /\ spawn.ticket \in Tickets \cup {None} /\ Workable(spawn.ticket)
    BY DEF IInv, HeadInv, ChosenInv, TypeOK, Spawns, HeadStamps
  <1>2. state' \in StateFile /\ state'.current = spawn.ticket
    BY <1>1, MoveToType DEF HeadStamps, MoveTo, StateFile
  <1>3. spawn' \in Spawns
    BY DEF IInv, TypeOK, Spawns, HeadStamps
  <1>4. HeadInv' /\ pc' \in Stages \ {"work", "closing"}
    BY <1>1, <1>2 DEF HeadStamps, HeadInv, CapInv, SurveyInv, ChosenInv, Pointing, Workable, Stages
  <1> QED
    BY <1>1, <1>2, <1>3, <1>4, QuietStep DEF HeadStamps

LEMMA HeadBudgetsStep ==
    ASSUME IInv, HeadBudgets
    PROVE  Safe
  <1>1. TypeOK /\ state \in StateFile /\ spawn \in Spawns /\ memory \in Memory
    BY DEF IInv, TypeOK
  <1>2. Workable(state.current) \/ spawn.pointed
    BY DEF IInv, HeadInv, ChosenInv, Pointing, HeadBudgets
  <1>3. Charged \in {Unset} \cup 1..TicketCap
    BY <1>1, Numbers DEF Charged, StateFile
  <1>4. state' \in StateFile /\ state'.current = state.current
    BY <1>1, <1>3 DEF HeadBudgets, StateFile
  <1>5. memory' \in Memory
    BY <1>1 DEF HeadBudgets, Memory, StateFile
  <1>6. HeadInv' /\ pc' \in Stages \ {"work", "closing"}
    BY <1>2, <1>4 DEF HeadBudgets, HeadInv, CapInv, SurveyInv, ChosenInv, Pointing, Workable, Stages
  <1> QED
    BY <1>1, <1>4, <1>5, <1>6, QuietStep DEF HeadBudgets

LEMMA HeadOpensStep ==
    ASSUME IInv, HeadOpens
    PROVE  Safe
  <1>1. TypeOK /\ state \in StateFile /\ state.current \in Tickets \cup {None}
    BY DEF IInv, TypeOK, StateFile
  <1>2. Workable(state.current) \/ spawn.pointed
    BY DEF IInv, HeadInv, ChosenInv, Pointing, HeadOpens
  <1>3. spawn' \in Spawns /\ spawn'.ticket = state.current /\ spawn'.pointed = spawn.pointed
    BY <1>1 DEF HeadOpens, TypeOK, Spawns
  <1>4. memory' \in Memory
    BY <1>1 DEF HeadOpens, TypeOK, Memory
  <1>5. HeadInv' /\ pc' \in Stages \ {"work", "closing"}
    BY <1>2, <1>3 DEF HeadOpens, HeadInv, CapInv, SurveyInv, ChosenInv, Pointing, Workable, Stages
  <1> QED
    BY <1>1, <1>3, <1>4, <1>5, QuietStep DEF HeadOpens

LEMMA HeadEndsStep ==
    ASSUME IInv, HeadCancelled \/ HeadCapped
    PROVE  Safe
  <1>1. TypeOK /\ Deactivated(Normalised) \in StateFile /\ state \in StateFile
    BY MoveToType, SpentType DEF IInv, TypeOK
  <1>2. CASE HeadCancelled
    BY <1>1, <1>2, EndStep DEF HeadCancelled
  <1>3. CASE HeadCapped
    BY <1>1, <1>3, EndStep DEF HeadCapped
  <1> QED
    BY <1>2, <1>3

-----------------------------------------------------------------------------
(* The roster, and the end of a finished session.                          *)

LEMMA RosterStep ==
    ASSUME IInv, RosterDone \/ RosterExhausted \/ RosterPreskips
    PROVE  Safe
  <1>1. TypeOK /\ state \in StateFile /\ memory \in Memory /\ Deactivated(state) \in StateFile
        /\ NoSpawn \in Spawns /\ left \in [work : Nat, retries : Nat, runs : Nat]
    BY MoveToType DEF IInv, TypeOK, NoSpawn, Spawns, Claimed
  <1>2. CASE RosterDone
    BY <1>1, <1>2, OnStep DEF RosterDone
  <1>3. CASE RosterExhausted
    BY <1>1, <1>3, EndStep DEF RosterExhausted
  <1>4. CASE RosterPreskips
    <2>1. state' \in StateFile
      BY <1>1, <1>4, NextPendingType, MoveToType DEF RosterPreskips
    <2> QED
      BY <1>1, <1>4, <2>1, AgainStep DEF RosterPreskips
  <1> QED
    BY <1>2, <1>3, <1>4

\* The ticket of the pass may have been finished since it was chosen, or reset,
\* but unless an operator pointed to it, it has not been failed.
LEMMA RosterSpawnsStep ==
    ASSUME IInv, RosterSpawns
    PROVE  Safe
  <1>1. spawn' \in Spawns
    BY DEF IInv, TypeOK, Spawns, RosterSpawns
  <1>2. TypeOK'
    BY <1>1 DEF IInv, TypeOK, RosterSpawns, Stages
  <1>3. SpawnStep
    BY DEF IInv, HeadInv, ChosenInv, Workable, RosterSpawns, Finishes, SpawnStep
  <1> QED
    BY <1>2, <1>3 DEF RosterSpawns, Safe, IInv, HeadInv, CapInv, SurveyInv, ChosenInv, Pointing,
                      ClosingInv, DoneStep

LEMMA ClosingStep ==
    ASSUME IInv, TierRefused \/ TierScanned \/ CloseSession
    PROVE  Safe
  <1>1. TypeOK /\ state \in StateFile /\ spawn \in Spawns /\ Closed(state) \in StateFile
    BY MoveToType DEF IInv, TypeOK
  <1>2. CASE TierRefused
    BY <1>1, <1>2, EndStep DEF TierRefused
  <1>3. CASE TierScanned
    BY <1>1, <1>3, ScannedStep DEF TierScanned
  <1>4. CASE CloseSession
    BY <1>1, <1>4, EndStep DEF CloseSession
  <1> QED
    BY <1>2, <1>3, <1>4

-----------------------------------------------------------------------------
(* The agents.                                                             *)

LEMMA AgentActsStep ==
    ASSUME IInv, AgentActs
    PROVE  Safe
  <1>1. TypeOK /\ pc = "work" /\ pc' = "work" /\ UNCHANGED <<memory, retry>>
    BY DEF IInv, AgentActs
  <1>0. left' \in [work : Nat, retries : Nat, runs : Nat]
    BY <1>1, LeftType DEF AgentActs
  <1>2. ASSUME NEW t \in Tickets \cup {None}, AgentCommits(t)
        PROVE  TypeOK' /\ DoneStep
    <2>1. spawn' \in Spawns /\ commits' \subseteq Tickets
      BY <1>1, <1>2 DEF AgentCommits, TypeOK, Spawns
    <2> QED
      BY <1>0, <1>1, <1>2, <2>1 DEF AgentCommits, TypeOK, DoneStep
  <1>3. ASSUME AgentNotes
        PROVE  TypeOK' /\ DoneStep
    <2>1. spawn' \in Spawns
      BY <1>1, <1>3 DEF AgentNotes, TypeOK, Spawns
    <2> QED
      BY <1>0, <1>1, <1>3, <2>1 DEF AgentNotes, TypeOK, DoneStep
  <1>4. ASSUME NEW t \in Tickets, NEW s \in {"Done", "In Progress", "Failed"}, AgentMarks(t, s)
        PROVE  TypeOK' /\ DoneStep
    <2>1. status' \in [Tickets -> Statuses]
      BY <1>1, <1>4 DEF AgentMarks, TypeOK, Statuses
    <2>2. DoneStep
      BY <1>1, <1>4 DEF AgentMarks, TypeOK, DoneStep, Terminal
    <2> QED
      BY <1>0, <1>1, <1>4, <2>1, <2>2 DEF AgentMarks, TypeOK
  <1>5. ASSUME NEW t \in Tickets, AgentMoves(t)
        PROVE  TypeOK' /\ DoneStep
    <2>1. state' \in StateFile
      BY <1>1, <1>5, MoveToType DEF AgentMoves, TypeOK
    <2> QED
      BY <1>0, <1>1, <1>5, <2>1 DEF AgentMoves, TypeOK, DoneStep
  <1>6. TypeOK' /\ DoneStep
    BY <1>2, <1>3, <1>4, <1>5 DEF AgentActs
  <1> QED
    BY <1>1, <1>6 DEF Safe, IInv, HeadInv, CapInv, SurveyInv, ChosenInv, Pointing, ClosingInv,
                      SpawnStep

LEMMA AgentEndsStep ==
    ASSUME IInv, AgentEnds
    PROVE  Safe
  <1>1. TypeOK /\ state \in StateFile /\ memory \in Memory /\ spawn \in Spawns
    BY DEF IInv, TypeOK
  <1> QED
    BY <1>1, OnStep DEF AgentEnds

-----------------------------------------------------------------------------
(* What the iteration came to.                                             *)

LEMMA SettleStep ==
    ASSUME IInv, SettleDone \/ SettleOn
    PROVE  Safe
  <1>1. TypeOK /\ memory \in Memory /\ spawn \in Spawns
        /\ left \in [work : Nat, retries : Nat, runs : Nat]
        /\ Charge(state, 0) \in StateFile /\ Charge(state, ZeroProgress) \in StateFile
    BY Numbers, ChargeType DEF IInv, TypeOK
  <1>2. CASE SettleDone
    <2>1. state' \in StateFile
      BY <1>1, <1>2, MoveToType DEF SettleDone
    <2> QED
      BY <1>1, <1>2, <2>1, AgainStep DEF SettleDone
  <1>3. CASE SettleOn
    BY <1>1, <1>3, OnStep DEF SettleOn
  <1> QED
    BY <1>2, <1>3

\* What is known when the spawns without progress have reached their cap: the
\* ticket may be failed, since it is not one that is Done with its commit.
LEMMA StuckType ==
    ASSUME IInv, Stuck
    PROVE  /\ Worked \in Tickets
           /\ \A s \in {"Done", "Stalled"} : [status EXCEPT ![Worked] = s] \in [Tickets -> Statuses]
           /\ \A t \in Tickets : status[t] = "Done" /\ t \in commits =>
                 [status EXCEPT ![Worked] = "Stalled"][t] = "Done"
           /\ \A t \in Tickets : status[t] = "Done" =>
                 [status EXCEPT ![Worked] = "Done"][t] = "Done"
           /\ MoveTo(Charge(state, ZeroProgress), None) \in StateFile
           /\ MoveTo(Charge(state, ZeroProgress), None).holds = state.holds
           /\ Charge(state, 0) \in StateFile
  <1>1. TypeOK
    BY DEF IInv
  <1>2. /\ Worked \in Tickets
        /\ Charge(state, 0) \in StateFile /\ Charge(state, ZeroProgress) \in StateFile
        /\ Charge(state, ZeroProgress).holds = state.holds
    BY <1>1, Numbers, ChargeType DEF Stuck
  <1>3. ~(status[Worked] = "Done" /\ Worked \in commits)
    BY <1>2, Numbers DEF Stuck, DoneGuard
  <1>4. status \in [Tickets -> Statuses]
    BY <1>1 DEF TypeOK
  <1> QED
    BY <1>2, <1>3, <1>4, MoveToType DEF Statuses

LEMMA LadderAdvancesStep ==
    ASSUME IInv, LadderAdvances
    PROVE  Safe
  <1>1. TypeOK /\ Stuck
    BY DEF IInv, LadderAdvances
  <1>2. pc' = "head" /\ spawn' \in Spawns
    BY ContinueType DEF LadderAdvances
  <1>3. /\ status' \in [Tickets -> Statuses] /\ commits' \subseteq Tickets
        /\ \A t \in Tickets : status[t] = "Done" => status'[t] = "Done"
    BY <1>1, StuckType DEF LadderAdvances, TypeOK
  <1>4. state' \in StateFile
    BY <1>1, StuckType DEF LadderAdvances
  <1>5. left' \in [work : Nat, retries : Nat, runs : Nat] /\ UNCHANGED <<memory, retry>>
    BY <1>1, LeftType DEF LadderAdvances
  <1>6. TypeOK' /\ DoneStep
    BY <1>1, <1>2, <1>3, <1>4, <1>5 DEF TypeOK, DoneStep, Stages
  <1> QED
    BY <1>2, <1>6, Elsewhere

\* The ticket is failed, and the run goes on or ends.
LEMMA FailStep ==
    ASSUME IInv, Stuck, status' = [status EXCEPT ![Worked] = "Stalled"],
           state' \in StateFile, memory' \in Memory, spawn' \in Spawns,
           pc' \in {"head", "down"}, UNCHANGED <<commits, retry, left>>
    PROVE  Safe
  <1>1. TypeOK'
    BY StuckType DEF IInv, TypeOK, Stages
  <1>2. DoneStep
    BY StuckType DEF DoneStep
  <1> QED
    BY <1>1, <1>2, Elsewhere

LEMMA GiveUpStep ==
    ASSUME IInv, Stuck, GiveUp, UNCHANGED <<commits, retry, left>>
    PROVE  Safe
  <1> DEFINE moved == MoveTo(Charge(state, ZeroProgress), None)
  <1>1. moved \in StateFile /\ Deactivated(moved) \in StateFile /\ memory \in Memory
    BY StuckType, MoveToType DEF IInv, TypeOK
  <1>2. \/ state' = Deactivated(moved) /\ Leave("recovery_exhausted")
        \/ state' = moved /\ Continue /\ UNCHANGED memory
    BY DEF GiveUp
  <1>3. /\ state' \in StateFile /\ memory' \in Memory /\ spawn' \in Spawns
        /\ pc' \in {"head", "down"}
    BY <1>1, <1>2, LeaveType, ContinueType
  <1> QED
    BY <1>3, FailStep DEF GiveUp

LEMMA FlipStep ==
    ASSUME IInv, LadderExhausted \/ FlipSuppressed \/ FlipEscalates \/ FlipFails
    PROVE  Safe
  <1>1. TypeOK /\ memory \in Memory /\ left \in [work : Nat, retries : Nat, runs : Nat]
    BY DEF IInv, TypeOK
  <1>2. CASE LadderExhausted
    BY <1>2, GiveUpStep DEF LadderExhausted
  <1>3. CASE FlipSuppressed
    <2> DEFINE moved == MoveTo(Charge(state, ZeroProgress), None)
    <2>1. Worked \in Tickets /\ moved \in StateFile /\ moved.holds = state.holds
      BY <1>3, StuckType DEF FlipSuppressed, FallsThrough
    <2>2. state.holds[Worked] < SuppressionCap
          /\ state' = [moved EXCEPT !.holds[Worked] = @ + 1]
      BY <1>3 DEF FlipSuppressed
    <2> HIDE DEF moved
    <2>3. moved.holds[Worked] \in 0..SuppressionCap /\ moved.holds[Worked] < SuppressionCap
      BY <2>1, <2>2 DEF StateFile
    <2>4. moved.holds[Worked] + 1 \in 0..SuppressionCap
      BY <2>3, Numbers
    <2>5. state' \in StateFile
      BY <2>1, <2>2, <2>4 DEF StateFile
    <2> QED
      BY <1>1, <1>3, <2>5, AgainStep DEF FlipSuppressed
  <1>4. CASE FlipEscalates
    BY <1>4, GiveUpStep DEF FlipEscalates, FallsThrough
  <1>5. CASE FlipFails
    <2>1. Stuck /\ status' = [status EXCEPT ![Worked] = "Stalled"]
      BY <1>5 DEF FlipFails, FallsThrough, Flip
    <2>2. state' \in StateFile
      BY <1>5, <2>1, StuckType DEF FlipFails, Flip
    <2> QED
      BY <1>1, <1>5, <2>1, <2>2, ContinueType, FailStep DEF FlipFails
  <1> QED
    BY <1>2, <1>3, <1>4, <1>5

-----------------------------------------------------------------------------
(* The transition between tickets.                                         *)

\* A ticket that is judged is one the loop still remembers, and not finished.
LEMMA JudgedType ==
    ASSUME TypeOK, Judged, NEW s \in {"Skipped", "Done"}
    PROVE  /\ [status EXCEPT ![Previous] = s] \in [Tickets -> Statuses]
           /\ \A t \in Tickets : status[t] = "Done" => [status EXCEPT ![Previous] = s][t] = "Done"
  <1>1. Previous \in Tickets /\ status[Previous] # "Done"
    BY DEF TypeOK, Memory, Judged, Moved, Previous, Terminal
  <1> QED
    BY <1>1 DEF TypeOK, Statuses

LEMMA RemembersType ==
    ASSUME TypeOK, Remembers
    PROVE  memory' \in Memory
  <1>1. state.current \in Tickets \cup {None}
    BY DEF TypeOK, StateFile
  <1> QED
    BY <1>1 DEF TypeOK, Memory, Remembers

LEMMA TurnMarksStep ==
    ASSUME IInv, TurnSkips \/ TurnFinishes
    PROVE  Safe
  <1>1. TypeOK /\ Judged /\ Remembers /\ UNCHANGED left
        /\ \E s \in {"Skipped", "Done"} : status' = [status EXCEPT ![Previous] = s]
    BY DEF IInv, TurnSkips, TurnFinishes
  <1>2. memory' \in Memory
    BY <1>1, RemembersType
  <1>3. /\ status' \in [Tickets -> Statuses]
        /\ \A t \in Tickets : status[t] = "Done" => status'[t] = "Done"
    BY <1>1, JudgedType
  <1>4. TypeOK' /\ DoneStep /\ pc' = "close"
    BY <1>1, <1>2, <1>3 DEF Remembers, TypeOK, DoneStep, Stages
  <1> QED
    BY <1>4, Elsewhere

LEMMA TurnStep ==
    ASSUME IInv, TurnLeaves \/ TurnParks
    PROVE  Safe
  <1>1. TypeOK /\ state \in StateFile /\ memory \in Memory /\ spawn \in Spawns
    BY DEF IInv, TypeOK
  <1>2. CASE TurnLeaves
    BY <1>1, <1>2, RemembersType, OnStep DEF TurnLeaves, Remembers
  <1>3. CASE TurnParks
    <2>1. left' \in [work : Nat, retries : Nat, runs : Nat]
      BY <1>1, <1>3, LeftType DEF TurnParks, TypeOK
    <2> QED
      BY <1>1, <1>3, <2>1, AgainStep DEF TurnParks
  <1> QED
    BY <1>2, <1>3

-----------------------------------------------------------------------------
(* The end of the iteration, and the claims of completion.                 *)

LEMMA BreakerStep ==
    ASSUME IInv, BreakerOpens \/ BreakerRecords
    PROVE  Safe
  <1>1. TypeOK /\ state \in StateFile /\ Deactivated(state) \in StateFile
        /\ left \in [work : Nat, retries : Nat, runs : Nat] /\ spawn \in Spawns
    BY MoveToType DEF IInv, TypeOK
  <1>2. CASE BreakerOpens
    BY <1>1, <1>2, EndStep DEF BreakerOpens
  <1>3. CASE BreakerRecords
    <2>1. PICK progress \in Progress :
            /\ Idle(progress) < BreakerBudget
            /\ memory' = [memory EXCEPT !.idle = Idle(progress), !.last = state.current]
      BY <1>3 DEF BreakerRecords
    <2>2. memory.idle \in {Unset} \cup 0..BreakerBudget /\ state.current \in Tickets \cup {None}
      BY <1>1 DEF TypeOK, Memory, StateFile
    <2>3. Idle(progress) \in 0..BreakerBudget
      BY <2>1, <2>2, Numbers DEF Idle
    <2>4. memory' \in Memory
      BY <1>1, <2>1, <2>2, <2>3 DEF TypeOK, Memory
    <2>5. CASE Continue
      BY <1>1, <1>3, <2>4, <2>5, AgainStep DEF BreakerRecords
    <2>6. CASE \E claim \in Claimed \ {"none"} :
                 pc' = "claim" /\ spawn' = [spawn EXCEPT !.claim = claim]
      <3>1. spawn' \in Spawns
        BY <1>1, <2>6 DEF Spawns
      <3> QED
        BY <1>1, <1>3, <2>4, <2>6, <3>1, OnStep DEF BreakerRecords
    <2> QED
      BY <1>3, <2>5, <2>6 DEF BreakerRecords
  <1> QED
    BY <1>2, <1>3

\* The count of false claims stays one above its cap at most.
LEMMA PersistedType ==
    ASSUME TypeOK, NEW t \in Tickets \cup {None}, Current # None => FalseCount <= FalseEpics
    PROVE  Persisted(t) \in StateFile
  <1>1. state \in StateFile /\ Current \in Tickets \cup {None} /\ MoveTo(state, t) \in StateFile
    BY MoveToType DEF TypeOK, StateFile, Current
  <1>2. FalseCount \in 0..(FalseEpics + 1)
    BY <1>1, Numbers DEF StateFile, FalseCount
  <1> QED
    BY <1>1, <1>2 DEF Persisted, StateFile

LEMMA ClearedType ==
    ASSUME NEW s \in StateFile
    PROVE  [s EXCEPT !.falseCount = 0, !.falseTicket = None] \in StateFile
  <1>1. 0 \in 0..(FalseEpics + 1)
    BY Numbers
  <1> QED
    BY <1>1 DEF StateFile

LEMMA ClaimStep ==
    ASSUME IInv, \/ ClaimHallucinated \/ ClaimRetries \/ ClaimAdvances \/ ClaimParks
                 \/ ReviewGoesOn
    PROVE  Safe
  <1>1. TypeOK /\ state \in StateFile /\ Deactivated(state) \in StateFile
        /\ left \in [work : Nat, retries : Nat, runs : Nat] /\ memory \in Memory
    BY MoveToType DEF IInv, TypeOK
  <1>2. CASE ClaimHallucinated
    BY <1>1, <1>2, EndStep DEF ClaimHallucinated
  <1>3. CASE ClaimRetries
    <2>1. Current \in Tickets \cup {None}
      BY <1>1 DEF StateFile, Current
    <2>2. state' \in StateFile
      BY <1>1, <1>3, <2>1, PersistedType DEF ClaimRetries
    <2> QED
      BY <1>1, <1>3, <2>2, AgainStep DEF ClaimRetries
  <1>4. CASE ClaimAdvances
    <2>1. state' \in StateFile
      BY <1>1, <1>4, NextPendingType, PersistedType DEF ClaimAdvances
    <2> QED
      BY <1>1, <1>4, <2>1, AgainStep DEF ClaimAdvances
  <1>5. CASE ClaimParks
    <2>1. [state EXCEPT !.falseCount = 0, !.falseTicket = None] \in StateFile
      BY <1>1, ClearedType
    <2>2. state' \in StateFile
      BY <1>1, <1>5, <2>1 DEF ClaimParks
    <2>3. left' \in [work : Nat, retries : Nat, runs : Nat]
      BY <1>1, <1>5, LeftType DEF ClaimParks, TypeOK
    <2> QED
      BY <1>1, <1>5, <2>2, <2>3, AgainStep DEF ClaimParks
  <1>6. CASE ReviewGoesOn
    BY <1>1, <1>6, AgainStep DEF ReviewGoesOn
  <1> QED
    BY <1>2, <1>3, <1>4, <1>5, <1>6

LEMMA AcceptStep ==
    ASSUME IInv, ClaimAccepted \/ ReviewAccepted
    PROVE  Safe
  <1>1. TypeOK /\ state \in StateFile /\ memory \in Memory /\ NoSpawn \in Spawns
        /\ left \in [work : Nat, retries : Nat, runs : Nat]
    BY DEF IInv, TypeOK, NoSpawn, Spawns, Claimed
  <1>2. CASE ClaimAccepted
    <2>1. state' \in StateFile
      BY <1>1, <1>2, ClearedType DEF ClaimAccepted
    <2>2. CASE Scanned /\ pc' = "closing" /\ spawn' = NoSpawn
      BY <1>1, <1>2, <2>1, <2>2, ScannedStep DEF ClaimAccepted
    <2>3. CASE Refused /\ Continue
      BY <1>1, <1>2, <2>1, <2>3, AgainStep DEF ClaimAccepted
    <2> QED
      BY <1>2, <2>2, <2>3 DEF ClaimAccepted
  <1>3. CASE ReviewAccepted
    BY <1>1, <1>3, ScannedStep DEF ReviewAccepted
  <1> QED
    BY <1>2, <1>3

-----------------------------------------------------------------------------
(* The exits of a manager.                                                 *)

LEMMA ManagerEndsStep ==
    ASSUME IInv, ManagerLeaves \/ ManagerWornOut \/ ManagerFails
    PROVE  Safe
  <1>1. TypeOK /\ state \in StateFile /\ Deactivated(state) \in StateFile
    BY MoveToType DEF IInv, TypeOK
  <1>2. CASE ManagerLeaves
    BY <1>1, <1>2, EndStep DEF ManagerLeaves
  <1>3. CASE ManagerWornOut
    BY <1>1, <1>3, EndStep DEF ManagerWornOut
  <1>4. CASE ManagerFails
    BY <1>1, <1>4, EndStep DEF ManagerFails
  <1> QED
    BY <1>2, <1>3, <1>4

LEMMA ManagerEscapesStep ==
    ASSUME IInv, ManagerEscapes
    PROVE  Safe
  <1>1. TypeOK /\ state \in StateFile
    BY DEF IInv, TypeOK
  <1>2. Current \in Tickets /\ status[Current] = "In Progress"
        /\ status' = [status EXCEPT ![Current] = "Skipped"]
    BY <1>1 DEF ManagerEscapes, Escapes, Current, StateFile
  <1>3. pc' = "head" /\ spawn' \in Spawns
    BY ContinueType DEF ManagerEscapes
  <1>4. TypeOK' /\ DoneStep
    BY <1>1, <1>2, <1>3 DEF ManagerEscapes, TypeOK, Statuses, DoneStep, Stages
  <1> QED
    BY <1>3, <1>4, Elsewhere

\* A relaunch is counted while the count is below its cap.
LEMMA CountedType ==
    ASSUME TypeOK, state.relaunches < RelaunchCap
    PROVE  [state EXCEPT !.relaunches = @ + 1] \in StateFile
  <1>1. state \in StateFile /\ state.relaunches \in 0..RelaunchCap
    BY DEF TypeOK, StateFile
  <1>2. state.relaunches + 1 \in 0..RelaunchCap
    BY <1>1, Numbers
  <1> QED
    BY <1>1, <1>2 DEF StateFile

LEMMA RelaunchStep ==
    ASSUME IInv, ManagerRelaunched \/ ErrorRelaunched
    PROVE  Safe
  <1> DEFINE counted == [state EXCEPT !.relaunches = @ + 1]
  <1>1. TypeOK /\ memory \in Memory /\ left \in [work : Nat, retries : Nat, runs : Nat]
        /\ state \in StateFile
    BY DEF IInv, TypeOK
  <1>2. counted \in StateFile
    BY <1>1, CountedType DEF ManagerRelaunched, ErrorRelaunched, MayRelaunch
  <1>3. CASE ManagerRelaunched
    <2>1. Current \in Tickets \cup {None} /\ (Current # None => Attempts \in Nat)
      BY <1>1 DEF Current, Attempts, StateFile
    <2>2. state' = IF Current = None THEN counted
                   ELSE [counted EXCEPT !.charges[Current] = Attempts]
      BY <1>3 DEF ManagerRelaunched
    <2> HIDE DEF counted
    <2>3. state' \in StateFile
      BY <1>2, <2>1, <2>2 DEF StateFile
    <2> QED
      BY <1>1, <1>3, <2>3, AgainStep DEF ManagerRelaunched
  <1>4. CASE ErrorRelaunched
    BY <1>1, <1>2, <1>4, AgainStep DEF ErrorRelaunched
  <1> QED
    BY <1>3, <1>4

-----------------------------------------------------------------------------
(* The operator, and faults.                                               *)

LEMMA StartStep ==
    ASSUME IInv, Start
    PROVE  Safe
  <1>1. TypeOK
    BY DEF IInv
  <1>2. state' \in StateFile
    BY <1>1 DEF TypeOK, Start, StateFile
  <1>3. left' \in [work : Nat, retries : Nat, runs : Nat]
    BY <1>1, LeftType DEF Start
  <1>4. retry' \in [ticket : Tickets \cup {None}, activated : BOOLEAN, reset : SUBSET Tickets]
    BY <1>1 DEF TypeOK, Start
  <1>5. TypeOK' /\ DoneStep /\ pc' = "head"
    BY <1>1, <1>2, <1>3, <1>4 DEF TypeOK, Start, DoneStep, Stages
  <1> QED
    BY <1>5, Elsewhere

\* A ticket that is reset while the session is being closed is left to do, and
\* the one of the pass is not failed by it.
LEMMA RetryResetStep ==
    ASSUME IInv, NEW r \in Tickets, RetryReset(r)
    PROVE  Safe
  <1>1. TypeOK
    BY DEF IInv
  <1>2. /\ status' = [status EXCEPT ![r] = "Todo"] /\ retry'.ticket = r
        /\ retry'.reset = retry.reset \cup {r}
        /\ UNCHANGED <<commits, state, memory, pc, spawn>>
    BY DEF RetryReset
  <1>3. left' \in [work : Nat, retries : Nat, runs : Nat]
    BY <1>1, LeftType DEF RetryReset
  <1>4. retry' \in [ticket : Tickets \cup {None}, activated : BOOLEAN, reset : SUBSET Tickets]
    BY <1>1 DEF TypeOK, RetryReset
  <1>5. TypeOK'
    BY <1>1, <1>2, <1>3, <1>4 DEF TypeOK, Statuses
  <1>6. DoneStep /\ SpawnStep
    BY <1>1, <1>2 DEF TypeOK, DoneStep, SpawnStep
  <1>7. HeadInv'
    <2>1. \A t \in Tickets : status'[t] \in {status[t], "Todo"}
      BY <1>1, <1>2 DEF TypeOK
    <2>2. /\ spawn.ticket \in Tickets \cup {None} /\ spawn.chosen \in Tickets \cup {None}
          /\ state.current \in Tickets \cup {None}
      BY <1>1 DEF TypeOK, Spawns, StateFile
    <2>3. CapInv' /\ SurveyInv'
      BY <1>2, <2>1 DEF IInv, HeadInv, CapInv, SurveyInv
    <2>4. ChosenInv'
      BY <1>2, <2>1, <2>2 DEF IInv, HeadInv, ChosenInv, Workable
    <2> QED
      BY <2>3, <2>4 DEF HeadInv
  <1>8. ClosingInv'
    <2>1. Blocking(TRUE)' \subseteq Blocking(TRUE) \cup {r}
      BY <1>1, <1>2 DEF TypeOK, Blocking
    <2> QED
      BY <1>2, <2>1 DEF IInv, ClosingInv
  <1> QED
    BY <1>5, <1>6, <1>7, <1>8 DEF Safe, IInv

LEMMA OperatorStep ==
    ASSUME IInv, RetryActivates \/ RetryPoints \/ Cancel
    PROVE  Safe
  <1>1. /\ TypeOK /\ state \in StateFile /\ spawn \in Spawns
        /\ Deactivated(state) \in StateFile
        /\ retry \in [ticket : Tickets \cup {None}, activated : BOOLEAN, reset : SUBSET Tickets]
    BY MoveToType DEF IInv, TypeOK
  <1>2. UNCHANGED <<status, commits, memory, pc, left>>
    BY DEF RetryActivates, RetryPoints, Cancel
  <1>3. /\ retry' \in [ticket : Tickets \cup {None}, activated : BOOLEAN, reset : SUBSET Tickets]
        /\ retry'.reset = retry.reset
    BY <1>1 DEF RetryActivates, RetryPoints, Cancel
  <1>4. state' \in StateFile /\ spawn' \in Spawns /\ HeadInv'
    <2>1. CASE RetryActivates \/ Cancel
      <3>1. /\ state' \in StateFile /\ state'.current = state.current
            /\ state'.spent = state.spent /\ spawn' = spawn
        BY <1>1, <2>1 DEF RetryActivates, Cancel, Deactivated, StateFile
      <3> QED
        BY <1>1, <1>2, <3>1 DEF IInv, HeadInv, CapInv, SurveyInv, ChosenInv, Workable
    <2>2. CASE RetryPoints
      <3>1. state' \in StateFile /\ state'.spent = Unset
        BY <1>1, <2>2 DEF RetryPoints, StateFile
      <3>2. /\ spawn' \in Spawns /\ spawn'.pointed = (spawn.pointed \/ pc \in Pointing)
            /\ spawn'.ticket = spawn.ticket /\ spawn'.chosen = spawn.chosen
            /\ spawn'.working = spawn.working /\ spawn'.over = spawn.over
        BY <1>1, <2>2 DEF RetryPoints, Spawns
      <3>3. CapInv'
        BY <3>1, Numbers DEF CapInv, Unset
      <3>4. SurveyInv' /\ ChosenInv'
        BY <1>2, <3>2 DEF IInv, HeadInv, SurveyInv, ChosenInv, Workable
      <3> QED
        BY <3>1, <3>2, <3>3, <3>4 DEF HeadInv
    <2> QED
      BY <2>1, <2>2
  <1>5. TypeOK' /\ DoneStep /\ SpawnStep
    BY <1>1, <1>2, <1>3, <1>4 DEF TypeOK, DoneStep, SpawnStep
  <1>6. ClosingInv'
    BY <1>2, <1>3 DEF IInv, ClosingInv, Blocking
  <1> QED
    BY <1>4, <1>5, <1>6 DEF Safe, IInv

LEMMA KillStep ==
    ASSUME IInv, Kill
    PROVE  Safe
  <1>1. TypeOK /\ state \in StateFile
    BY DEF IInv, TypeOK
  <1> QED
    BY <1>1, EndStep DEF Kill

LEMMA StutterStep ==
    ASSUME IInv, UNCHANGED vars
    PROVE  Safe
  <1>1. TypeOK'
    BY DEF IInv, TypeOK, vars
  <1>2. HeadInv' /\ ClosingInv'
    BY DEF IInv, HeadInv, CapInv, SurveyInv, ChosenInv, Workable, ClosingInv, Blocking, vars
  <1> QED
    BY <1>1, <1>2 DEF Safe, IInv, DoneStep, SpawnStep, vars

-----------------------------------------------------------------------------
LEMMA NextStep ==
    ASSUME IInv, [Next]_vars
    PROVE  Safe
  <1>1. CASE Runner
    <2>0. CASE \/ HeadReads \/ HeadChooses \/ HeadPoints \/ HeadSurveys
               \/ HeadSyncs \/ HeadStamps \/ HeadBudgets \/ HeadOpens
      BY <2>0, HeadReadsStep, HeadChoosesStep, HeadPointsStep, HeadSurveysStep, HeadSyncsStep,
         HeadStampsStep, HeadBudgetsStep, HeadOpensStep
    <2>1. CASE \/ HeadCancelled \/ HeadCapped
               \/ RosterDone \/ RosterExhausted \/ RosterPreskips \/ RosterSpawns
               \/ TierRefused \/ TierScanned \/ CloseSession
      BY <2>1, HeadEndsStep, RosterStep, RosterSpawnsStep, ClosingStep
    <2>2. CASE \/ SettleDone \/ SettleOn \/ LadderAdvances \/ LadderExhausted
               \/ FlipSuppressed \/ FlipEscalates \/ FlipFails
               \/ TurnLeaves \/ TurnParks \/ TurnSkips \/ TurnFinishes
      BY <2>2, SettleStep, LadderAdvancesStep, FlipStep, TurnStep, TurnMarksStep
    <2>3. CASE \/ BreakerOpens \/ BreakerRecords
               \/ ClaimHallucinated \/ ClaimRetries \/ ClaimAdvances \/ ClaimParks
               \/ ClaimAccepted \/ ReviewGoesOn \/ ReviewAccepted
      BY <2>3, BreakerStep, ClaimStep, AcceptStep
    <2>4. CASE \/ ManagerLeaves \/ ManagerWornOut \/ ManagerEscapes \/ ManagerRelaunched
               \/ ManagerFails \/ ErrorRelaunched
      BY <2>4, ManagerEndsStep, ManagerEscapesStep, RelaunchStep
    <2> QED
      BY <1>1, <2>0, <2>1, <2>2, <2>3, <2>4 DEF Runner
  <1>2. CASE AgentEnds
    BY <1>2, AgentEndsStep
  <1>3. CASE Environment
    BY <1>3, StartStep, AgentActsStep, RetryResetStep, OperatorStep, KillStep DEF Environment
  <1>4. CASE UNCHANGED vars
    BY <1>4, StutterStep
  <1> QED
    BY <1>1, <1>2, <1>3, <1>4 DEF Next

LEMMA Invariance == Spec => []IInv
  <1>1. IInv /\ [Next]_vars => IInv'
    BY NextStep DEF Safe
  <1> QED
    BY <1>1, InitIInv, PTL DEF Spec

\* Every variable has its type: the counts of state.json stay within their caps,
\* over any number of passes, runs, kills and retries.
THEOREM TypeCorrect == Spec => []TypeOK
  <1>1. IInv => TypeOK
    BY DEF IInv
  <1> QED
    BY <1>1, Invariance, PTL

\* A ticket that is Done with a commit of its own is marked otherwise by nobody
\* but an operator who retries it.
THEOREM FinishedWorkStays == Spec => DoneStays
  <1>1. IInv /\ [Next]_vars =>
          [\A t \in Tickets : status[t] = "Done" /\ t \in commits =>
              status'[t] = "Done" \/ retry'.ticket = t]_vars
    BY NextStep DEF Safe, DoneStep
  <1> QED
    BY <1>1, Invariance, PTL DEF Spec, DoneStays

\* No agent is spawned for a ticket that is finished, and for one that the runner
\* has failed only when retry-ticket moved the pointer to it between the head's
\* write of the pointer and its last read.
THEOREM AgentsGetWork == Spec => SpawnsWorkable
  <1>1. IInv /\ [Next]_vars =>
          [pc = "roster" /\ pc' = "work" /\ spawn.ticket # None =>
              /\ status[spawn.ticket] \notin Terminal
              /\ status[spawn.ticket] = "Stalled" => spawn.pointed]_vars
    BY NextStep DEF Safe, SpawnStep
  <1> QED
    BY <1>1, Invariance, PTL DEF Spec, SpawnsWorkable

\* No session is closed with success over a ticket that is left to do, unless an
\* operator has reset it since this run began.
THEOREM ClosedWithNothingLeft == Spec => SuccessIsHonest
  <1>1. IInv /\ [Next]_vars =>
          [pc = "closing" /\ pc' = "down" /\ verdict' = "success" =>
              Blocking(TRUE) \subseteq retry.reset]_vars
    BY DEF IInv, ClosingInv
  <1> QED
    BY <1>1, Invariance, PTL DEF Spec, SuccessIsHonest
=============================================================================
