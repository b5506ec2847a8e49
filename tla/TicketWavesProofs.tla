-------------------------- MODULE TicketWavesProofs --------------------------
(***************************************************************************)
(* Theorems about TicketWaves, for any number of tickets, of unit runners  *)
(* and of kills.  The inductive invariant Inv has six parts, each proved   *)
(* with the ones before it:                                                *)
(*   Shape     types, and that a branch holds its own ticket's commits;    *)
(*   Fleet     whoever a listing could have found is of the wave in        *)
(*             progress, so the runners at work were planned apart;        *)
(*   Deps      what a unit depends on was settled before it began;         *)
(*   Work      where each commit of an agent is: on its branch, on the     *)
(*             working branch, or put aside by the recovery;               *)
(*   Evidence  what is picked, merged and mapped, and that the position    *)
(*             integratedShas finds is that of a member's last commit;     *)
(*   Verdicts  what the wave knows when the lanes give their verdict.      *)
(* CommitsOf joins as many sequences as there are tickets: its lemmas go   *)
(* by induction over an interval, derived here from the well-foundedness   *)
(* of strict inclusion on finite sets, with a set for the predicate.       *)
(***************************************************************************)
EXTENDS TicketWaves, FiniteSetTheorems, WellFoundedInduction, SequenceTheorems, TLAPS

LEMMA LeastNatural ==
  ASSUME NEW S \in SUBSET Nat, S # {}
  PROVE  \E m \in S : \A k \in S : m <= k
  <1> DEFINE Up(m) == 0..m
             ups == {Up(m) : m \in S}
  <1>1. ups \subseteq FiniteSubsetsOf(Nat) /\ ups # {}
    <2>1. \A m \in S : IsFiniteSet(0..m) /\ 0..m \in SUBSET Nat
      BY FS_Interval
    <2> QED
      BY <2>1 DEF FiniteSubsetsOf
  <1>2. PICK least \in ups : \A other \in ups : <<other, least>> \notin StrictSubsetOrdering(Nat)
    BY <1>1, FS_StrictSubsetOrderingWellFounded, WFMin
  <1>3. PICK m \in S : least = 0..m
    BY <1>2
  <1>4. ASSUME NEW k \in S, k < m PROVE FALSE
    <2>1. 0..k \in ups /\ 0..k \in SUBSET Nat /\ 0..m \in SUBSET Nat
      BY <1>4
    <2>2. 0..k \subseteq 0..m /\ m \in 0..m /\ m \notin 0..k
      BY <1>4
    <2> QED
      BY <1>2, <1>3, <2>1, <2>2 DEF StrictSubsetOrdering
  <1>5. \A k \in S : m <= k
    BY <1>4
  <1> QED
    BY <1>5

(* Induction along an interval. *)
LEMMA IntervalInduction ==
  ASSUME NEW a \in Nat, NEW b \in Nat, NEW S, a \in S, \A n \in a..b-1 : n \in S => n + 1 \in S
  PROVE  \A n \in a..b : n \in S
  <1> SUFFICES ASSUME NEW n \in a..b, n \notin S PROVE FALSE
    OBVIOUS
  <1> DEFINE bad == (a..b) \ S
  <1>0. bad \in SUBSET Nat /\ bad # {}
    OBVIOUS
  <1>1. PICK m \in bad : \A k \in bad : m <= k
    BY <1>0, LeastNatural
  <1>2. m # a /\ m - 1 \in a..b-1
    BY <1>1
  <1>3. m - 1 \in S /\ (m - 1) + 1 = m
    BY <1>1, <1>2
  <1> QED
    BY <1>1, <1>2, <1>3

------------------------------------------------------------------------------
(* The commits of some members, one member after the other. *)

Part(c, set, n) == IF n \in set THEN c[n] ELSE <<>>

Joins(f, c, set, m) == f = [n \in 0..m |-> IF n = 0 THEN <<>> ELSE f[n - 1] \o Part(c, set, n)]

LEMMA JoinsAt ==
  ASSUME NEW f, NEW c, NEW set, NEW m \in Nat, Joins(f, c, set, m)
  PROVE  \A n \in 0..m : f[n] = IF n = 0 THEN <<>> ELSE f[n - 1] \o Part(c, set, n)
  <1>1. ASSUME NEW g, f = [n \in 0..m |-> IF n = 0 THEN <<>> ELSE g[n - 1] \o Part(c, set, n)]
        PROVE  \A n \in 0..m : f[n] = IF n = 0 THEN <<>> ELSE g[n - 1] \o Part(c, set, n)
    BY <1>1
  <1> QED
    BY <1>1 DEF Joins

LEMMA JoinExists ==
  ASSUME NEW c, NEW set, NEW b \in Nat
  PROVE  \E f : Joins(f, c, set, b)
  <1> DEFINE S == {m \in Nat : \E f : Joins(f, c, set, m)}
  <1>1. 0 \in S
    <2>1. Joins([n \in 0..0 |-> <<>>], c, set, 0)
      BY DEF Joins
    <2> QED
      BY <2>1
  <1>2. ASSUME NEW m \in 0..b-1, m \in S PROVE m + 1 \in S
    <2>1. PICK f : Joins(f, c, set, m)
      BY <1>2
    <2> DEFINE g == [n \in 0..m+1 |-> IF n <= m THEN f[n] ELSE f[m] \o Part(c, set, m + 1)]
    <2>2. ASSUME NEW n \in 0..m+1
          PROVE  g[n] = IF n = 0 THEN <<>> ELSE g[n - 1] \o Part(c, set, n)
      <3>1. CASE n <= m
        <4>1. n \in 0..m /\ f[n] = IF n = 0 THEN <<>> ELSE f[n - 1] \o Part(c, set, n)
          BY <2>1, <3>1, JoinsAt
        <4>2. n # 0 => n - 1 \in 0..m+1 /\ n - 1 <= m
          BY <3>1
        <4> QED
          BY <3>1, <4>1, <4>2
      <3>2. CASE n = m + 1
        <4>1. n - 1 = m /\ n # 0 /\ m \in 0..m+1 /\ ~(n <= m) /\ m <= m
          BY <3>2
        <4> QED
          BY <3>2, <4>1
      <3> QED
        BY <3>1, <3>2
    <2> HIDE DEF g
    <2>3. g = [n \in 0..m+1 |-> g[n]]
      BY DEF g
    <2>4. Joins(g, c, set, m + 1)
      BY <2>2, <2>3 DEF Joins
    <2> QED
      BY <2>4
  <1> HIDE DEF S
  <1>3. b \in S
    BY <1>1, <1>2, IntervalInduction
  <1> QED
    BY <1>3 DEF S

(* The commits of the members up to n. *)
UpTo(c, set) == CHOOSE f : Joins(f, c, set, NumTickets)

LEMMA UpToSteps ==
  ASSUME NEW c, NEW set
  PROVE  /\ CommitsOf(c, set) = UpTo(c, set)[NumTickets]
         /\ UpTo(c, set)[0] = <<>>
         /\ \A n \in 1..NumTickets : UpTo(c, set)[n] = UpTo(c, set)[n - 1] \o Part(c, set, n)
  <1>1. CommitsOf(c, set) = UpTo(c, set)[NumTickets]
    BY DEF CommitsOf, UpTo, Joins, Part
  <1>2. Joins(UpTo(c, set), c, set, NumTickets)
    BY JoinExists, WavesAssumption DEF UpTo
  <1>3. NumTickets \in Nat
    BY WavesAssumption
  <1>4. \A n \in 0..NumTickets :
          UpTo(c, set)[n] = IF n = 0 THEN <<>> ELSE UpTo(c, set)[n - 1] \o Part(c, set, n)
    BY <1>2, <1>3, JoinsAt
  <1> DEFINE U == UpTo(c, set)
  <1> HIDE DEF U
  <1>5. U[0] = <<>> /\ \A n \in 1..NumTickets : U[n] = U[n - 1] \o Part(c, set, n)
    <2>1. 0 \in 0..NumTickets /\ \A n \in 1..NumTickets : n \in 0..NumTickets /\ n # 0
      BY <1>3
    <2> QED
      BY <1>4, <2>1 DEF U
  <1> QED
    BY <1>1, <1>5 DEF U

Own(c) == \A t \in Tickets : \A i \in 1..Len(c[t]) : c[t][i].ticket = t

LEMMA JoinOne ==
  ASSUME NEW T, NEW s \in Seq(T), NEW r \in Seq(T)
  PROVE  /\ s \o r \in Seq(T) /\ Len(s \o r) = Len(s) + Len(r)
         /\ Len(s) \in Nat /\ Len(r) \in Nat
         /\ \A i \in 1..Len(s) : (s \o r)[i] = s[i]
         /\ \A i \in Len(s)+1..Len(s)+Len(r) : (s \o r)[i] = r[i - Len(s)]
         /\ \A i \in 1..Len(r) : (s \o r)[Len(s) + i] = r[i]
         /\ s \o <<>> = s
  <1> QED
    OBVIOUS

LEMMA PartIs ==
  ASSUME NEW c \in [Tickets -> Seq(Commits)], NEW set, NEW n \in Tickets
  PROVE  /\ Part(c, set, n) \in Seq(Commits)
         /\ n \in set => Part(c, set, n) = c[n]
         /\ n \notin set => Part(c, set, n) = <<>> /\ Len(Part(c, set, n)) = 0
  BY DEF Part

LEMMA UpToType ==
  ASSUME NEW c \in [Tickets -> Seq(Commits)], NEW set
  PROVE  \A n \in 0..NumTickets : UpTo(c, set)[n] \in Seq(Commits)
  <1> DEFINE U == UpTo(c, set)
             S == {n \in 0..NumTickets : U[n] \in Seq(Commits)}
  <1>0. NumTickets \in Nat
    BY WavesAssumption
  <1>1. U[0] = <<>> /\ \A n \in 1..NumTickets : U[n] = U[n - 1] \o Part(c, set, n)
    BY UpToSteps
  <1> HIDE DEF U
  <1>2. 0 \in S
    <2>1. U[0] \in Seq(Commits) /\ 0 \in 0..NumTickets
      BY <1>0, <1>1
    <2> QED
      BY <2>1
  <1>3. ASSUME NEW n \in 0..NumTickets-1, n \in S PROVE n + 1 \in S
    <2>1. n + 1 \in 1..NumTickets /\ n + 1 \in Tickets /\ (n + 1) - 1 = n /\ n + 1 \in 0..NumTickets
      BY <1>0 DEF Tickets
    <2>2. U[n + 1] = U[n] \o Part(c, set, n + 1)
      BY <1>1, <2>1
    <2>3. U[n] \in Seq(Commits) /\ Part(c, set, n + 1) \in Seq(Commits)
      BY <1>3, <2>1, PartIs
    <2>4. U[n + 1] \in Seq(Commits)
      BY <2>2, <2>3, JoinOne
    <2> QED
      BY <2>1, <2>4
  <1> HIDE DEF S
  <1>4. \A n \in 0..NumTickets : n \in S
    BY <1>0, <1>2, <1>3, IntervalInduction
  <1> QED
    BY <1>4 DEF S, U

LEMMA UpToTickets ==
  ASSUME NEW c \in [Tickets -> Seq(Commits)], Own(c), NEW set
  PROVE  \A n \in 0..NumTickets : \A i \in 1..Len(UpTo(c, set)[n]) :
           UpTo(c, set)[n][i].ticket \in {t \in Tickets : t \in set /\ t <= n}
  <1> DEFINE U == UpTo(c, set)
             S == {n \in 0..NumTickets : \A i \in 1..Len(U[n]) :
                     U[n][i].ticket \in {t \in Tickets : t \in set /\ t <= n}}
  <1>0. NumTickets \in Nat
    BY WavesAssumption
  <1>1. /\ U[0] = <<>> /\ \A n \in 1..NumTickets : U[n] = U[n - 1] \o Part(c, set, n)
        /\ \A n \in 0..NumTickets : U[n] \in Seq(Commits)
    BY UpToSteps, UpToType
  <1> HIDE DEF U
  <1>2. 0 \in S
    BY <1>0, <1>1
  <1>3. ASSUME NEW n \in 0..NumTickets-1, n \in S PROVE n + 1 \in S
    <2>1. /\ n + 1 \in 1..NumTickets /\ n + 1 \in Tickets /\ (n + 1) - 1 = n
          /\ n + 1 \in 0..NumTickets /\ n \in 0..NumTickets
      BY <1>0 DEF Tickets
    <2> DEFINE r == Part(c, set, n + 1)
    <2>2. U[n + 1] = U[n] \o r /\ U[n] \in Seq(Commits) /\ r \in Seq(Commits)
      BY <1>1, <2>1, PartIs
    <2>3. \A i \in 1..Len(r) : r[i].ticket = n + 1 /\ n + 1 \in set
      BY <2>1, PartIs DEF Own
    <2> HIDE DEF r
    <2>4. ASSUME NEW i \in 1..Len(U[n + 1])
          PROVE  U[n + 1][i].ticket \in {t \in Tickets : t \in set /\ t <= n + 1}
      <3>1. Len(U[n]) \in Nat /\ Len(r) \in Nat /\ Len(U[n + 1]) = Len(U[n]) + Len(r)
        BY <2>2, JoinOne
      <3>2. CASE i <= Len(U[n])
        <4>1. i \in 1..Len(U[n])
          BY <3>1, <3>2
        <4>2. U[n + 1][i] = U[n][i]
          BY <2>2, <4>1, JoinOne
        <4>3. U[n][i].ticket \in {t \in Tickets : t \in set /\ t <= n}
          BY <1>3, <4>1
        <4> DEFINE u == U[n][i].ticket
        <4>4. u \in Tickets /\ u \in set /\ u <= n
          BY <4>3
        <4> HIDE DEF u
        <4>5. u <= n + 1
          BY <1>3, <4>4 DEF Tickets
        <4>6. u \in {t \in Tickets : t \in set /\ t <= n + 1}
          BY <4>4, <4>5
        <4>7. U[n + 1][i].ticket = u
          BY <4>2 DEF u
        <4> QED
          BY <4>6, <4>7
      <3>3. CASE i > Len(U[n])
        <4>1. i \in Len(U[n])+1..Len(U[n])+Len(r) /\ i - Len(U[n]) \in 1..Len(r)
          BY <3>1, <3>3
        <4>2. U[n + 1][i] = r[i - Len(U[n])]
          BY <2>2, <4>1, JoinOne
        <4>3. U[n + 1][i].ticket = n + 1 /\ n + 1 \in set
          BY <2>3, <4>1, <4>2
        <4>4. n + 1 \in {t \in Tickets : t \in set /\ t <= n + 1}
          BY <1>3, <2>1, <4>3
        <4> QED
          BY <4>3, <4>4
      <3> QED
        BY <3>1, <3>2, <3>3
    <2> QED
      BY <2>1, <2>4
  <1> HIDE DEF S
  <1>4. \A n \in 0..NumTickets : n \in S
    BY <1>0, <1>2, <1>3, IntervalInduction
  <1> QED
    BY <1>4 DEF S, U

(* What the later members add comes after. *)
LEMMA UpToGrows ==
  ASSUME NEW c \in [Tickets -> Seq(Commits)], Own(c), NEW set, NEW t \in 0..NumTickets
  PROVE  \A n \in t..NumTickets :
           /\ Len(UpTo(c, set)[t]) <= Len(UpTo(c, set)[n])
           /\ \A i \in 1..Len(UpTo(c, set)[t]) : UpTo(c, set)[n][i] = UpTo(c, set)[t][i]
           /\ \A i \in Len(UpTo(c, set)[t])+1..Len(UpTo(c, set)[n]) : UpTo(c, set)[n][i].ticket # t
  <1> DEFINE U == UpTo(c, set)
             S == {n \in t..NumTickets :
                     /\ Len(U[t]) <= Len(U[n])
                     /\ \A i \in 1..Len(U[t]) : U[n][i] = U[t][i]
                     /\ \A i \in Len(U[t])+1..Len(U[n]) : U[n][i].ticket # t}
  <1>0. NumTickets \in Nat /\ t \in Nat
    BY WavesAssumption
  <1>1. /\ U[0] = <<>> /\ \A n \in 1..NumTickets : U[n] = U[n - 1] \o Part(c, set, n)
        /\ \A n \in 0..NumTickets : U[n] \in Seq(Commits)
    BY UpToSteps, UpToType
  <1> HIDE DEF U
  <1>2. t \in S
    <2>1. Len(U[t]) \in Nat
      BY <1>1
    <2> QED
      BY <1>0, <2>1
  <1>3. ASSUME NEW n \in t..NumTickets-1, n \in S PROVE n + 1 \in S
    <2>1. /\ n + 1 \in 1..NumTickets /\ n + 1 \in Tickets /\ (n + 1) - 1 = n /\ n + 1 \in t..NumTickets
          /\ n \in 0..NumTickets /\ n + 1 > t
      BY <1>0 DEF Tickets
    <2> DEFINE r == Part(c, set, n + 1)
    <2>2. U[n + 1] = U[n] \o r /\ U[n] \in Seq(Commits) /\ r \in Seq(Commits)
      BY <1>1, <2>1, PartIs
    <2>3. \A i \in 1..Len(r) : r[i].ticket = n + 1
      BY <2>1, PartIs DEF Own
    <2> HIDE DEF r
    <2>4. /\ Len(U[n]) \in Nat /\ Len(r) \in Nat /\ Len(U[n + 1]) = Len(U[n]) + Len(r)
          /\ Len(U[t]) \in Nat /\ Len(U[t]) <= Len(U[n])
      BY <1>1, <1>3, <2>2, JoinOne
    <2>5. ASSUME NEW i \in 1..Len(U[t]) PROVE U[n + 1][i] = U[t][i]
      <3>1. i \in 1..Len(U[n])
        BY <2>4
      <3> QED
        BY <1>3, <2>2, <3>1, JoinOne
    <2>6. ASSUME NEW i \in Len(U[t])+1..Len(U[n + 1]) PROVE U[n + 1][i].ticket # t
      <3>2. CASE i <= Len(U[n])
        <4>1. i \in 1..Len(U[n]) /\ i \in Len(U[t])+1..Len(U[n])
          BY <2>4, <3>2
        <4> QED
          BY <1>3, <2>2, <4>1, JoinOne
      <3>3. CASE i > Len(U[n])
        <4>1. i \in Len(U[n])+1..Len(U[n])+Len(r) /\ i - Len(U[n]) \in 1..Len(r)
          BY <2>4, <3>3
        <4>2. U[n + 1][i] = r[i - Len(U[n])]
          BY <2>2, <4>1, JoinOne
        <4>3. U[n + 1][i].ticket = n + 1
          BY <2>3, <4>1, <4>2
        <4> QED
          BY <1>0, <2>1, <4>3
      <3> QED
        BY <2>4, <3>2, <3>3
    <2> QED
      BY <2>1, <2>4, <2>5, <2>6
  <1> HIDE DEF S
  <1>4. \A n \in t..NumTickets : n \in S
    BY <1>0, <1>2, <1>3, IntervalInduction
  <1> QED
    BY <1>4 DEF S, U

LEMMA UpToCut ==
  ASSUME NEW c \in [Tickets -> Seq(Commits)], NEW set, NEW t \in Tickets
  PROVE  CommitsOf(c, {u \in set : u <= t}) = UpTo(c, set)[t]
  <1> DEFINE low == {u \in set : u <= t}
             U == UpTo(c, set)
             L == UpTo(c, low)
             S == {n \in 0..NumTickets : L[n] = IF n <= t THEN U[n] ELSE U[t]}
  <1>0. NumTickets \in Nat /\ t \in 1..NumTickets
    BY WavesAssumption DEF Tickets
  <1>1. /\ U[0] = <<>> /\ \A n \in 1..NumTickets : U[n] = U[n - 1] \o Part(c, set, n)
        /\ \A n \in 0..NumTickets : U[n] \in Seq(Commits)
    BY UpToSteps, UpToType
  <1>2. /\ L[0] = <<>> /\ \A n \in 1..NumTickets : L[n] = L[n - 1] \o Part(c, low, n)
        /\ CommitsOf(c, low) = L[NumTickets]
    BY UpToSteps
  <1> HIDE DEF U, L
  <1>3. 0 \in S
    BY <1>0, <1>1, <1>2
  <1>4. ASSUME NEW n \in 0..NumTickets-1, n \in S PROVE n + 1 \in S
    <2>1. /\ n + 1 \in 1..NumTickets /\ n + 1 \in Tickets /\ (n + 1) - 1 = n /\ n + 1 \in 0..NumTickets
          /\ n \in 0..NumTickets /\ t \in 0..NumTickets
      BY <1>0 DEF Tickets
    <2>2. L[n + 1] = L[n] \o Part(c, low, n + 1) /\ U[n + 1] = U[n] \o Part(c, set, n + 1)
      BY <1>1, <1>2, <2>1
    <2>3. CASE n + 1 <= t
      <3>1. Part(c, low, n + 1) = Part(c, set, n + 1) /\ n <= t
        BY <1>0, <2>3 DEF Part
      <3> QED
        BY <1>4, <2>1, <2>2, <2>3, <3>1
    <2>4. CASE ~(n + 1 <= t)
      <3>1. Part(c, low, n + 1) = <<>>
        BY <2>4 DEF Part
      <3>2. L[n] = U[t]
        <4>1. n = t \/ ~(n <= t)
          BY <1>0, <2>4
        <4> QED
          BY <1>4, <4>1
      <3>3. U[t] \o <<>> = U[t]
        BY <1>1, <2>1, JoinOne
      <3> QED
        BY <2>1, <2>2, <2>4, <3>1, <3>2, <3>3
    <2> QED
      BY <2>3, <2>4
  <1> HIDE DEF S
  <1>5. \A n \in 0..NumTickets : n \in S
    BY <1>0, <1>3, <1>4, IntervalInduction
  <1>6. L[NumTickets] = U[t]
    <2>1. L[NumTickets] = IF NumTickets <= t THEN U[NumTickets] ELSE U[t]
      BY <1>0, <1>5 DEF S
    <2>2. NumTickets <= t => NumTickets = t
      BY <1>0
    <2> QED
      BY <2>1, <2>2
  <1> QED
    BY <1>2, <1>6 DEF U

LEMMA ElementsAre ==
  ASSUME NEW T, NEW s \in Seq(T)
  PROVE  /\ Elements(s) = {s[i] : i \in 1..Len(s)} /\ Elements(s) \subseteq T
         /\ s = <<>> => Elements(s) = {}
  BY DEF Elements

(* The last commit of a member is where its part ends, and nothing of the part
   is missing. *)
LEMMA MemberCommits ==
  ASSUME NEW c \in [Tickets -> Seq(Commits)], Own(c), NEW set,
         NEW t \in Tickets, t \in set, c[t] # <<>>
  PROVE  /\ Len(UpTo(c, set)[t]) \in 1..Len(UpTo(c, set)[NumTickets])
         /\ UpTo(c, set)[NumTickets][Len(UpTo(c, set)[t])].ticket = t
         /\ \A i \in Len(UpTo(c, set)[t])+1..Len(UpTo(c, set)[NumTickets]) :
              UpTo(c, set)[NumTickets][i].ticket # t
         /\ Elements(c[t]) \subseteq Elements(UpTo(c, set)[NumTickets])
  <1> DEFINE U == UpTo(c, set)
             N == NumTickets
  <1>0. N \in Nat /\ N \in 0..N
    BY WavesAssumption
  <1>1. /\ \A n \in 1..N : U[n] = U[n - 1] \o Part(c, set, n)
        /\ \A n \in 0..N : U[n] \in Seq(Commits)
    BY UpToSteps, UpToType
  <1>2. t \in 1..N /\ t \in 0..N /\ t - 1 \in 0..N /\ N \in t..N
    BY <1>0 DEF Tickets
  <1>3. /\ Len(U[t]) <= Len(U[N]) /\ \A i \in 1..Len(U[t]) : U[N][i] = U[t][i]
        /\ \A i \in Len(U[t])+1..Len(U[N]) : U[N][i].ticket # t
    <2>1. \A n \in t..NumTickets :
            /\ Len(UpTo(c, set)[t]) <= Len(UpTo(c, set)[n])
            /\ \A i \in 1..Len(UpTo(c, set)[t]) : UpTo(c, set)[n][i] = UpTo(c, set)[t][i]
            /\ \A i \in Len(UpTo(c, set)[t])+1..Len(UpTo(c, set)[n]) :
                 UpTo(c, set)[n][i].ticket # t
      BY <1>2, UpToGrows
    <2> HIDE DEF U
    <2> QED
      BY <1>2, <2>1 DEF U
  <1>4. U[t] = U[t - 1] \o c[t] /\ U[t - 1] \in Seq(Commits) /\ c[t] \in Seq(Commits)
    BY <1>1, <1>2, PartIs
  <1> HIDE DEF U
  <1>5. /\ Len(U[t]) = Len(U[t - 1]) + Len(c[t]) /\ Len(U[t - 1]) \in Nat /\ Len(c[t]) \in Nat
        /\ \A i \in 1..Len(c[t]) : U[t][Len(U[t - 1]) + i] = c[t][i]
        /\ Len(c[t]) # 0 /\ Len(U[N]) \in Nat
    BY <1>0, <1>1, <1>4, JoinOne
  <1>6. Len(U[t]) \in 1..Len(U[N]) /\ Len(U[t]) \in 1..Len(U[t]) /\ Len(c[t]) \in 1..Len(c[t])
    BY <1>3, <1>5
  <1>7. U[N][Len(U[t])] = c[t][Len(c[t])]
    BY <1>3, <1>5, <1>6
  <1>8. U[N][Len(U[t])].ticket = t
    BY <1>6, <1>7 DEF Own
  <1>9. ASSUME NEW i \in 1..Len(c[t])
        PROVE  Len(U[t - 1]) + i \in 1..Len(U[N]) /\ U[N][Len(U[t - 1]) + i] = c[t][i]
    <2>1. Len(U[t - 1]) + i \in 1..Len(U[t]) /\ Len(U[t - 1]) + i \in 1..Len(U[N])
      BY <1>3, <1>5
    <2> QED
      BY <1>3, <1>5, <2>1
  <1>10. Elements(c[t]) \subseteq Elements(U[N])
    <2>1. U[N] \in Seq(Commits) /\ c[t] \in Seq(Commits)
      BY <1>0, <1>1, <1>4
    <2>2. /\ Elements(c[t]) = {c[t][i] : i \in 1..Len(c[t])}
          /\ Elements(U[N]) = {U[N][j] : j \in 1..Len(U[N])}
      BY <2>1, ElementsAre
    <2> QED
      BY <1>9, <2>2
  <1>11. /\ Len(U[t]) \in 1..Len(U[N]) /\ U[N][Len(U[t])].ticket = t
         /\ \A i \in Len(U[t])+1..Len(U[N]) : U[N][i].ticket # t
         /\ Elements(c[t]) \subseteq Elements(U[N])
    BY <1>3, <1>6, <1>8, <1>10
  <1> QED
    BY <1>11 DEF U

LEMMA CommitsOfType ==
  ASSUME NEW c \in [Tickets -> Seq(Commits)], NEW set
  PROVE  CommitsOf(c, set) \in Seq(Commits) /\ Len(CommitsOf(c, set)) \in Nat
  <1>1. NumTickets \in 0..NumTickets
    BY WavesAssumption
  <1>2. CommitsOf(c, set) \in Seq(Commits)
    BY <1>1, UpToSteps, UpToType
  <1> QED
    BY <1>2

LEMMA CommitsOfTickets ==
  ASSUME NEW c \in [Tickets -> Seq(Commits)], Own(c), NEW set
  PROVE  \A i \in 1..Len(CommitsOf(c, set)) : CommitsOf(c, set)[i].ticket \in set \cap Tickets
  <1>1. NumTickets \in 0..NumTickets
    BY WavesAssumption
  <1>2. CommitsOf(c, set) = UpTo(c, set)[NumTickets]
    BY UpToSteps
  <1> QED
    BY <1>1, <1>2, UpToTickets

(* The position that integratedShas finds is that of a member's last commit. *)
EndOf(c, set, t) == Len(CommitsOf(c, {u \in set : u <= t}))

LEMMA CommitsOfLast ==
  ASSUME NEW c \in [Tickets -> Seq(Commits)], Own(c), NEW set,
         NEW t \in Tickets, t \in set, c[t] # <<>>
  PROVE  /\ EndOf(c, set, t) \in 1..Len(CommitsOf(c, set))
         /\ CommitsOf(c, set)[EndOf(c, set, t)].ticket = t
         /\ \A i \in EndOf(c, set, t)+1..Len(CommitsOf(c, set)) : CommitsOf(c, set)[i].ticket # t
  <1> DEFINE U == UpTo(c, set)
             C == CommitsOf(c, set)
             last == EndOf(c, set, t)
  <1>1. C = U[NumTickets] /\ last = Len(U[t])
    BY UpToSteps, UpToCut DEF EndOf
  <1>2. /\ Len(U[t]) \in 1..Len(U[NumTickets]) /\ U[NumTickets][Len(U[t])].ticket = t
        /\ \A i \in Len(U[t])+1..Len(U[NumTickets]) : U[NumTickets][i].ticket # t
    BY MemberCommits
  <1> HIDE DEF U, C, last
  <1>3. /\ last \in 1..Len(C) /\ C[last].ticket = t
        /\ \A i \in last+1..Len(C) : C[i].ticket # t
    BY <1>1, <1>2
  <1> QED
    BY <1>3 DEF C, last

LEMMA CommitsOfHas ==
  ASSUME NEW c \in [Tickets -> Seq(Commits)], Own(c), NEW set,
         NEW t \in Tickets, t \in set, c[t] # <<>>
  PROVE  Elements(c[t]) \subseteq Elements(CommitsOf(c, set))
  <1>1. CommitsOf(c, set) = UpTo(c, set)[NumTickets]
    BY UpToSteps
  <1>2. Elements(c[t]) \subseteq Elements(UpTo(c, set)[NumTickets])
    BY MemberCommits
  <1> QED
    BY <1>1, <1>2

------------------------------------------------------------------------------
(* Types. *)

Outcomes == {"not_done", "integrated", "conflict", "integration_red", "integration_ff_failed"}
Ends == Statuses \cup {"None", "converged", "stopped", "lane_no_verdict"}
Stages == Over \cup {"entry", "reaping", "head", "wait", "pick", "merge", "map", "write"}
Runners == [ticket : Tickets, life : Nat \ {0}]
Refs == [there : BOOLEAN, base : Nat, commits : Seq(Commits)]
Waves ==
  [members : SUBSET Tickets, base : Nat, prior : [Tickets -> Statuses], ran : SUBSET Tickets,
   ends : [Tickets -> Ends], commits : [Tickets -> Seq(Commits)],
   outcome : [Tickets -> Outcomes], sha : [Tickets -> Nat], wanted : [Tickets -> Statuses],
   left : SUBSET Tickets, cited : BOOLEAN, unread : SUBSET Tickets,
   unwritten : SUBSET Tickets, live : SUBSET Runners, cancelled : BOOLEAN]

RosterOK ==
  /\ roster \in [deps : [Tickets -> SUBSET Tickets], over : SUBSET Tickets,
                 clash : SUBSET (SUBSET Tickets), safe : SUBSET Tickets, lanes : BOOLEAN]
  /\ \A t \in Tickets : \A d \in roster.deps[t] : d < t
  /\ roster.lanes => roster.clash = {} /\ \A t \in Tickets : roster.deps[t] = {}
TicketsOK ==
  /\ status \in [Tickets -> Statuses] /\ evidence \in [Tickets -> Nat]
  /\ \A t \in Tickets : evidence[t] <= Len(main)
RepoOK ==
  /\ main \in Seq(Commits \cup {Foreign}) /\ aside \subseteq Seq(Commits)
  /\ branches \in [Tickets -> Refs] /\ picks \in Refs
  /\ \A t \in Tickets : \A i \in 1..Len(branches[t].commits) : branches[t].commits[i].ticket = t
  /\ picks.base <= Len(main) /\ \A t \in Tickets : branches[t].base <= Len(main)
  /\ trees \subseteq Tickets /\ \A t \in trees : branches[t].there
ProcsOK ==
  /\ owner \in [Tickets -> Nat] /\ \A t \in Tickets : owner[t] <= session.life
  /\ runners \subseteq Runners /\ missed \subseteq Runners /\ booted \subseteq runners
  /\ \A r \in runners \cup missed : r.life <= session.life
  /\ made \in [Tickets -> Nat]
SessionOK ==
  /\ session \in [active : BOOLEAN, life : Nat \ {0}] /\ pc \in Stages /\ requeued \subseteq Tickets
WaveOK ==
  /\ wave \in Waves /\ wave.base <= Len(main)
  /\ wave.ran \subseteq wave.members /\ wave.left \subseteq wave.members
  /\ Own(wave.commits) /\ \A t \in Tickets : wave.sha[t] <= Len(main)

Shape == RosterOK /\ TicketsOK /\ RepoOK /\ ProcsOK /\ SessionOK /\ WaveOK

LEMMA WaveFields ==
  ASSUME NEW w \in Waves
  PROVE  /\ w.members \in SUBSET Tickets /\ w.base \in Nat /\ w.ran \in SUBSET Tickets
         /\ w.ends \in [Tickets -> Ends] /\ w.commits \in [Tickets -> Seq(Commits)]
         /\ w.outcome \in [Tickets -> Outcomes] /\ w.sha \in [Tickets -> Nat]
         /\ w.wanted \in [Tickets -> Statuses] /\ w.prior \in [Tickets -> Statuses]
         /\ w.left \in SUBSET Tickets /\ w.cited \in BOOLEAN /\ w.unwritten \in SUBSET Tickets
         /\ w.unread \in SUBSET Tickets
         /\ w.live \in SUBSET Runners /\ w.cancelled \in BOOLEAN
  BY DEF Waves

LEMMA RefFields ==
  /\ \A b \in Refs : b.there \in BOOLEAN /\ b.base \in Nat /\ b.commits \in Seq(Commits)
  /\ \A n \in Nat, s \in Seq(Commits) :
       /\ Branch(n, s) \in Refs /\ Branch(n, s).there
       /\ Branch(n, s).base = n /\ Branch(n, s).commits = s
  /\ NoBranch \in Refs /\ ~NoBranch.there /\ NoBranch.base = 0 /\ NoBranch.commits = <<>>
  BY DEF Refs, Branch, NoBranch

LEMMA RunnerFields ==
  /\ \A r \in Runners : r.ticket \in Tickets /\ r.life \in Nat \ {0}
  /\ \A t \in Tickets, n \in Nat \ {0} :
       [ticket |-> t, life |-> n] \in Runners
  /\ \A t, n : [ticket |-> t, life |-> n].ticket = t /\ [ticket |-> t, life |-> n].life = n
  /\ \A r, s \in Runners : r.ticket = s.ticket /\ r.life = s.life => r = s
  BY DEF Runners

LEMMA TicketsAre ==
  NumTickets \in Nat \ {0} /\ Tickets \subseteq Nat \ {0} /\ None \notin Tickets
  BY WavesAssumption DEF Tickets, None

(* A wave that has just been made. *)
Blank(w) ==
  /\ ~w.cited
  /\ \A t \in Tickets : w.ends[t] = "None" /\ w.commits[t] = <<>> /\ w.sha[t] = None
                        /\ w.outcome[t] = "not_done" /\ w.wanted[t] = "Todo"

LEMMA BlankFields ==
  /\ <<>> \in Seq(Commits) /\ None \in Nat /\ "Todo" \in Statuses /\ "None" \in Ends
  /\ "not_done" \in Outcomes /\ 0 \in Nat
  BY DEF None, Statuses, Ends, Outcomes

LEMMA NoWaveIs ==
  ASSUME NEW c \in BOOLEAN
  PROVE  /\ NoWave(c) \in Waves /\ Blank(NoWave(c))
         /\ NoWave(c).members = {} /\ NoWave(c).ran = {} /\ NoWave(c).left = {}
         /\ NoWave(c).live = {} /\ NoWave(c).base = 0 /\ NoWave(c).cancelled = c
  BY BlankFields DEF NoWave, Waves, Blank

LEMMA NewWave ==
  ASSUME NEW live \in SUBSET Runners
  PROVE  LET w == [NoWave(FALSE) EXCEPT !.live = live] IN
           /\ w \in Waves /\ Blank(w) /\ w.live = live /\ w.base = 0
           /\ w.members = {} /\ w.ran = {} /\ w.left = {}
  BY BlankFields DEF NoWave, Waves, Blank

(* What a step leaves of a wave as it is. *)
KeepsPlan(v, w) == v.members = w.members /\ v.base = w.base
KeepsRun(v, w) == v.ran = w.ran /\ v.ends = w.ends
KeepsPicks(v, w) == v.commits = w.commits /\ v.outcome = w.outcome /\ v.unread = w.unread
KeepsPlace(v, w) == v.left = w.left /\ v.cited = w.cited
KeepsWanted(v, w) == v.sha = w.sha /\ v.wanted = w.wanted

LEMMA TakenIs ==
  ASSUME wave \in Waves, NEW t \in Tickets, NEW end \in Ends
  PROVE  /\ LET v == Taken(t, end) IN
              /\ v \in Waves /\ v.left = wave.left \ {t} /\ v.cited = wave.cited
              /\ v.ends = [wave.ends EXCEPT ![t] = end] /\ v.ran = wave.ran
              /\ KeepsPlan(v, wave) /\ KeepsPicks(v, wave) /\ KeepsWanted(v, wave)
         /\ LET v == [Taken(t, end) EXCEPT !.ran = @ \cup {t}] IN
              /\ v \in Waves /\ v.left = wave.left \ {t} /\ v.cited = wave.cited
              /\ v.ends = [wave.ends EXCEPT ![t] = end] /\ v.ran = wave.ran \cup {t}
              /\ KeepsPlan(v, wave) /\ KeepsPicks(v, wave) /\ KeepsWanted(v, wave)
  BY DEF Taken, Waves, KeepsPlan, KeepsPicks, KeepsWanted

LEMMA EndsAre ==
  ASSUME wave \in Waves
  PROVE  /\ \A t \in Tickets, end \in Ends :
              LET v == [wave EXCEPT !.ends[t] = end] IN
                /\ v \in Waves /\ v.ends = [wave.ends EXCEPT ![t] = end] /\ v.ran = wave.ran
                /\ KeepsPlan(v, wave) /\ KeepsPicks(v, wave) /\ KeepsPlace(v, wave)
                /\ KeepsWanted(v, wave)
         /\ \A ends \in [Tickets -> Ends] :
              LET v == [wave EXCEPT !.ends = ends] IN
                /\ v \in Waves /\ v.ends = ends /\ v.ran = wave.ran
                /\ KeepsPlan(v, wave) /\ KeepsPicks(v, wave) /\ KeepsPlace(v, wave)
                /\ KeepsWanted(v, wave)
         /\ LET v == [wave EXCEPT !.cancelled = TRUE] IN
              /\ v \in Waves /\ KeepsPlan(v, wave) /\ KeepsRun(v, wave) /\ KeepsPicks(v, wave)
              /\ KeepsPlace(v, wave) /\ KeepsWanted(v, wave)
  BY DEF Waves, KeepsPlan, KeepsPicks, KeepsPlace, KeepsWanted, KeepsRun

LEMMA PicksAre ==
  ASSUME wave \in Waves, NEW outcome \in [Tickets -> Outcomes]
  PROVE  LET v == [wave EXCEPT !.outcome = outcome] IN
           /\ v \in Waves /\ v.commits = wave.commits /\ v.outcome = outcome
           /\ v.unread = wave.unread
           /\ KeepsPlan(v, wave) /\ KeepsRun(v, wave) /\ KeepsPlace(v, wave)
           /\ KeepsWanted(v, wave)
  BY DEF Waves, KeepsPlan, KeepsRun, KeepsPlace, KeepsWanted

LEMMA MembersAre ==
  ASSUME wave \in Waves, NEW t \in Tickets
  PROVE  /\ LET v == NextMember(t) IN
              /\ v \in Waves /\ v.left = wave.left \ {t} /\ ~v.cited
              /\ KeepsPlan(v, wave) /\ KeepsRun(v, wave) /\ KeepsPicks(v, wave)
              /\ KeepsWanted(v, wave)
         /\ LET v == [NextMember(t) EXCEPT !.unwritten = @ \cup {t}] IN
              /\ v \in Waves /\ v.left = wave.left \ {t} /\ ~v.cited
              /\ KeepsPlan(v, wave) /\ KeepsRun(v, wave) /\ KeepsPicks(v, wave)
              /\ KeepsWanted(v, wave)
         /\ LET v == [wave EXCEPT !.cited = TRUE] IN
              /\ v \in Waves /\ v.left = wave.left /\ v.cited
              /\ KeepsPlan(v, wave) /\ KeepsRun(v, wave) /\ KeepsPicks(v, wave)
              /\ KeepsWanted(v, wave)
  BY DEF Waves, NextMember, KeepsPlan, KeepsRun, KeepsPicks, KeepsWanted

LEMMA LeastIs ==
  ASSUME NEW set \in SUBSET Tickets, set # {}
  PROVE  Least(set) \in set /\ \A t \in set : Least(set) <= t
  <1>1. set \in SUBSET Nat
    BY TicketsAre
  <1> QED
    BY <1>1, LeastNatural DEF Least

------------------------------------------------------------------------------
(* What each step makes of the wave. *)

LEMMA ReapWave ==
  ASSUME Shape, Reap
  PROVE  /\ wave' \in Waves /\ Blank(wave') /\ wave'.base = 0 /\ wave'.live = LiveUnits
         /\ wave'.members = {} /\ wave'.ran = {} /\ wave'.left = {}
  <1>1. LiveUnits \in SUBSET Runners
    BY DEF LiveUnits, Shape, ProcsOK
  <1> QED
    BY <1>1, NewWave DEF Reap

(* The steps that forget the wave. *)
Forgets == ReapKill \/ Release \/ Verdict \/ Crash \/ Restart

LEMMA ForgetsWave ==
  ASSUME Shape, Forgets
  PROVE  /\ wave' \in Waves /\ Blank(wave') /\ wave'.base = 0
         /\ wave'.members = {} /\ wave'.ran = {} /\ wave'.left = {}
  <1>1. PICK c \in BOOLEAN : wave' = NoWave(c)
    BY WaveFields DEF Forgets, ReapKill, Release, Verdict, Crash, Restart, Shape, WaveOK
  <1> QED
    BY <1>1, NoWaveIs

LEMMA PendingIs == Pending \in SUBSET Tickets
  BY DEF Pending

LEMMA EnterLanesWave ==
  ASSUME Shape, EnterLanes
  PROVE  /\ wave' \in Waves /\ Blank(wave') /\ wave'.base = Len(main)
         /\ wave'.members = Pending /\ wave'.ran = {} /\ wave'.left = Pending
  <1>1. Len(main) \in Nat
    BY DEF Shape, RepoOK
  <1> DEFINE pending == Pending
             base == Len(main)
  <1>2. wave' = [NoWave(FALSE) EXCEPT !.members = pending, !.left = pending, !.base = base]
    BY DEF EnterLanes
  <1>3. pending \in SUBSET Tickets /\ base \in Nat
    BY <1>1, PendingIs
  <1> HIDE DEF pending, base
  <1>4. /\ wave' \in Waves /\ Blank(wave') /\ wave'.base = base
        /\ wave'.members = pending /\ wave'.ran = {} /\ wave'.left = pending
    BY <1>2, <1>3, BlankFields DEF NoWave, Waves, Blank
  <1> QED
    BY <1>4 DEF pending, base

(* planTicketWave takes the longest admissible run. *)
LEMMA PlanIs ==
  ASSUME NEW pending \in SUBSET Tickets, pending # {}
  PROVE  LET plan == PlanTicketWave(pending) IN
           /\ plan \in SUBSET pending
           /\ \/ Together(plan)
              \/ plan = {Least(pending)}
  <1> DEFINE Run(n) == {t \in pending : t <= n}
             runs == {Run(n) : n \in pending}
             good == {set \in runs : Cardinality(set) = 1 \/ Together(set)}
             far == {NumTickets - n : n \in {m \in pending : Run(m) \in good}}
  <1>1. Least(pending) \in pending /\ \A t \in pending : Least(pending) <= t
    BY LeastIs
  <1>2. pending \subseteq 1..NumTickets /\ NumTickets \in Nat
    BY TicketsAre DEF Tickets
  <1>3. Run(Least(pending)) = {Least(pending)}
    <2> DEFINE least == Least(pending)
    <2>1. least \in pending /\ \A t \in pending : least <= t
      BY <1>1
    <2> HIDE DEF least
    <2>2. least \in Nat /\ pending \subseteq Nat
      BY <1>2, <2>1
    <2>3. \A t \in pending : t <= least <=> t = least
      BY <2>1, <2>2
    <2>4. {t \in pending : t <= least} = {least}
      BY <2>1, <2>3
    <2> QED
      BY <2>4 DEF least
  <1>4. Run(Least(pending)) \in good
    <2>1. Cardinality({Least(pending)}) = 1
      BY FS_Singleton
    <2> QED
      BY <1>1, <1>3, <2>1
  <1>5. far \in SUBSET Nat /\ far # {}
    <2>1. far # {}
      BY <1>1, <1>4
    <2>2. \A n \in pending : NumTickets - n \in Nat
      BY <1>2
    <2> QED
      BY <2>1, <2>2
  <1>6. PICK nearest \in far : \A k \in far : nearest <= k
    BY <1>5, LeastNatural
  <1>7. PICK n \in pending : Run(n) \in good /\ nearest = NumTickets - n
    BY <1>6
  <1>8. \A other \in good : other \subseteq Run(n)
    <2>1. ASSUME NEW m \in pending, Run(m) \in good PROVE m <= n
      <3>1. NumTickets - m \in far
        BY <2>1
      <3>2. NumTickets - n <= NumTickets - m
        BY <1>6, <1>7, <3>1
      <3> QED
        BY <1>2, <3>2
    <2>2. ASSUME NEW m \in pending, Run(m) \in good PROVE Run(m) \subseteq Run(n)
      BY <1>2, <2>1, <2>2
    <2> QED
      BY <2>2
  <1> HIDE DEF far
  <1> DEFINE plan == CHOOSE set \in good : \A other \in good : other \subseteq set
  <1>9. plan \in good
    BY <1>7, <1>8
  <1>10. PlanTicketWave(pending) = plan
    BY DEF PlanTicketWave
  <1>11. plan \in SUBSET pending /\ Run(Least(pending)) \subseteq plan
    <2>1. \A other \in good : other \subseteq plan
      BY <1>7, <1>8
    <2> QED
      BY <1>4, <1>9, <2>1
  <1>12. Together(plan) \/ plan = {Least(pending)}
    <2>1. CASE Cardinality(plan) = 1
      <3>1. IsFiniteSet(plan)
        <4>1. IsFiniteSet(1..NumTickets)
          BY <1>2, FS_Interval
        <4>2. plan \subseteq 1..NumTickets
          BY <1>2, <1>11
        <4> QED
          BY <4>1, <4>2, FS_Subset
      <3>2. PICK x : plan = {x}
        BY <2>1, <3>1, FS_Singleton
      <3> QED
        BY <1>3, <1>11, <3>2
    <2> QED
      BY <1>9, <2>1
  <1> QED
    BY <1>10, <1>11, <1>12

LEMMA StartWaveWave ==
  ASSUME Shape, StartWave
  PROVE  \E ran \in SUBSET PlanTicketWave(Pending) :
           /\ ran \in SUBSET Tickets /\ ran \subseteq Pending /\ Pending # {}
           /\ aside' = Kept /\ picks' = NoBranch /\ trees' = ran
           /\ branches' = [t \in Tickets |->
                 IF t \in ran THEN Branch(Len(main), <<>>) ELSE NoBranch]
           /\ owner' = Disowned(ran)
           /\ runners' = runners \cup [ticket : ran, life : {session.life}]
           /\ wave' \in Waves /\ Blank(wave') /\ wave'.base = Len(main)
           /\ wave'.members = PlanTicketWave(Pending) /\ wave'.members \in SUBSET Pending
           /\ wave'.ran = ran /\ wave'.left = {}
  <1>1. Len(main) \in Nat
    BY DEF Shape, RepoOK
  <1>2. Pending # {} /\ status \in [Tickets -> Statuses]
    BY DEF StartWave, Shape, TicketsOK
  <1> DEFINE plan == PlanTicketWave(Pending)
  <1>3. plan \in SUBSET Pending /\ plan \in SUBSET Tickets
    BY <1>2, PlanIs, PendingIs
  <1> HIDE DEF plan
  <1>4. PICK ran \in SUBSET plan :
           /\ wave' = [NoWave(FALSE) EXCEPT !.members = plan,
                         !.base = Len(main), !.prior = status, !.ran = ran]
           /\ aside' = Kept /\ picks' = NoBranch /\ trees' = ran
           /\ branches' = [t \in Tickets |->
                            IF t \in ran THEN Branch(Len(main), <<>>) ELSE NoBranch]
           /\ owner' = Disowned(ran)
           /\ runners' = runners \cup [ticket : ran, life : {session.life}]
    BY DEF StartWave, plan
  <1>5. ran \in SUBSET Tickets
    BY <1>3
  <1>6. /\ wave' \in Waves /\ Blank(wave') /\ wave'.base = Len(main)
        /\ wave'.members = plan /\ wave'.ran = ran /\ wave'.left = {}
    <2> DEFINE base == Len(main)
    <2>1. wave' = [NoWave(FALSE) EXCEPT !.members = plan, !.base = base, !.prior = status, !.ran = ran]
      BY <1>4
    <2>2. base \in Nat
      BY <1>1
    <2> HIDE DEF base
    <2>3. /\ wave' \in Waves /\ Blank(wave') /\ wave'.base = base
          /\ wave'.members = plan /\ wave'.ran = ran /\ wave'.left = {}
      BY <1>2, <1>3, <1>5, <2>1, <2>2, BlankFields DEF NoWave, Waves, Blank
    <2> QED
      BY <2>3 DEF base
  <1> QED
    BY <1>2, <1>3, <1>4, <1>5, <1>6 DEF plan

LEMMA EndNames ==
  {"None", "converged", "stopped", "lane_no_verdict"} \cup Statuses = Ends
  BY DEF Ends

LEMMA StartLaneWave ==
  ASSUME Shape, StartLane
  PROVE  LET t == Least(wave.left) IN
           /\ t \in wave.left /\ t \in Tickets /\ wave' \in Waves
           /\ wave'.left = wave.left \ {t} /\ wave'.cited = wave.cited
           /\ KeepsPlan(wave', wave) /\ KeepsPicks(wave', wave) /\ KeepsWanted(wave', wave)
           /\ \/ /\ wave'.ends = [wave.ends EXCEPT ![t] = "None"] /\ wave'.ran = wave.ran \cup {t}
                 /\ branches' = [branches EXCEPT ![t] = Branch(wave.base, <<>>)]
                 /\ trees' = trees \cup {t}
                 /\ owner' = Disowned({t}) /\ runners' = runners \cup {LaneOf(t)}
              \/ /\ wave'.ends = [wave.ends EXCEPT ![t] = "lane_no_verdict"] /\ wave'.ran = wave.ran
                 /\ UNCHANGED <<branches, trees, owner, runners>>
  <1> DEFINE t == Least(wave.left)
  <1>1. t \in wave.left /\ t \in Tickets /\ wave \in Waves
    BY LeastIs, WaveFields DEF StartLane, Shape, WaveOK
  <1>2. \/ /\ wave' = [Taken(t, "None") EXCEPT !.ran = @ \cup {t}]
           /\ branches' = [branches EXCEPT ![t] = Branch(wave.base, <<>>)]
           /\ trees' = trees \cup {t}
           /\ owner' = Disowned({t}) /\ runners' = runners \cup {LaneOf(t)}
        \/ /\ wave' = Taken(t, "lane_no_verdict")
           /\ UNCHANGED <<branches, trees, owner, runners>>
    BY DEF StartLane
  <1> HIDE DEF t
  <1>3. "None" \in Ends /\ "lane_no_verdict" \in Ends
    BY EndNames
  <1>4. CASE /\ wave' = [Taken(t, "None") EXCEPT !.ran = @ \cup {t}]
             /\ branches' = [branches EXCEPT ![t] = Branch(wave.base, <<>>)]
             /\ trees' = trees \cup {t}
             /\ owner' = Disowned({t}) /\ runners' = runners \cup {LaneOf(t)}
    <2>1. /\ wave' \in Waves /\ wave'.left = wave.left \ {t} /\ wave'.cited = wave.cited
          /\ wave'.ends = [wave.ends EXCEPT ![t] = "None"] /\ wave'.ran = wave.ran \cup {t}
          /\ KeepsPlan(wave', wave) /\ KeepsPicks(wave', wave) /\ KeepsWanted(wave', wave)
      BY <1>1, <1>3, <1>4, TakenIs
    <2> QED
      BY <1>1, <1>4, <2>1 DEF t
  <1>5. CASE /\ wave' = Taken(t, "lane_no_verdict")
             /\ UNCHANGED <<branches, trees, owner, runners>>
    <2>1. /\ wave' \in Waves /\ wave'.left = wave.left \ {t} /\ wave'.cited = wave.cited
          /\ wave'.ends = [wave.ends EXCEPT ![t] = "lane_no_verdict"] /\ wave'.ran = wave.ran
          /\ KeepsPlan(wave', wave) /\ KeepsPicks(wave', wave) /\ KeepsWanted(wave', wave)
      BY <1>1, <1>3, <1>5, TakenIs
    <2> QED
      BY <1>1, <1>5, <2>1 DEF t
  <1> QED
    BY <1>2, <1>4, <1>5

LEMMA StopLaneWave ==
  ASSUME Shape, StopLane
  PROVE  LET t == Least(wave.left) IN
           /\ t \in wave.left /\ t \in Tickets /\ wave' \in Waves
           /\ wave'.left = wave.left \ {t} /\ wave'.cited = wave.cited /\ wave'.ran = wave.ran
           /\ wave'.ends = [wave.ends EXCEPT ![t] = "stopped"]
           /\ KeepsPlan(wave', wave) /\ KeepsPicks(wave', wave) /\ KeepsWanted(wave', wave)
  <1> DEFINE t == Least(wave.left)
  <1>1. t \in wave.left /\ t \in Tickets /\ wave \in Waves
    BY LeastIs, WaveFields DEF StopLane, Shape, WaveOK
  <1>2. wave' = Taken(t, "stopped")
    BY DEF StopLane
  <1> HIDE DEF t
  <1>3. "stopped" \in Ends
    BY EndNames
  <1> QED
    BY <1>1, <1>2, <1>3, TakenIs DEF t

LEMMA LaneEndsWave ==
  ASSUME Shape, NEW t \in Tickets, LaneEnds(t)
  PROVE  \E end \in {"converged", "stopped", "lane_no_verdict"} :
           /\ wave' \in Waves /\ wave'.ends = [wave.ends EXCEPT ![t] = end] /\ wave'.ran = wave.ran
           /\ KeepsPlan(wave', wave) /\ KeepsPicks(wave', wave) /\ KeepsPlace(wave', wave)
           /\ KeepsWanted(wave', wave)
  BY EndNames, EndsAre DEF LaneEnds, Shape, WaveOK

LEMMA CancelWave ==
  ASSUME Shape, CancelLaneRun
  PROVE  /\ wave' \in Waves /\ KeepsPlan(wave', wave) /\ KeepsRun(wave', wave)
         /\ KeepsPicks(wave', wave) /\ KeepsPlace(wave', wave) /\ KeepsWanted(wave', wave)
  BY EndsAre DEF CancelLaneRun, Shape, WaveOK

LEMMA BarrierWave ==
  ASSUME Shape, Barrier
  PROVE  /\ wave' \in Waves /\ wave'.ran = wave.ran
         /\ KeepsPlan(wave', wave) /\ KeepsPicks(wave', wave) /\ KeepsPlace(wave', wave)
         /\ KeepsWanted(wave', wave)
         /\ \/ wave'.ends = wave.ends /\ roster.lanes /\ wave.left = {} /\ Running = {}
            \/ \A t \in Tickets : wave'.ends[t] \in Statuses \cup {"None"}
  <1>1. CASE roster.lanes
    BY <1>1 DEF Barrier, Shape, WaveOK, KeepsPlan, KeepsPicks, KeepsPlace, KeepsWanted
  <1>2. CASE ~roster.lanes
    <2>1. PICK ends \in [wave.ran -> Statuses] :
            wave' = [wave EXCEPT !.ends = [t \in Tickets |->
                          IF t \in wave.ran THEN ends[t] ELSE "None"]]
      BY <1>2 DEF Barrier
    <2> DEFINE all == [t \in Tickets |-> IF t \in wave.ran THEN ends[t] ELSE "None"]
    <2>2. all \in [Tickets -> Ends] /\ \A t \in Tickets : all[t] \in Statuses \cup {"None"}
      BY EndNames
    <2>3. wave' = [wave EXCEPT !.ends = all]
      BY <2>1
    <2> HIDE DEF all
    <2>4. /\ wave' \in Waves /\ wave'.ran = wave.ran /\ wave'.ends = all
         /\ KeepsPlan(wave', wave) /\ KeepsPicks(wave', wave) /\ KeepsPlace(wave', wave)
         /\ KeepsWanted(wave', wave)
      BY <2>2, <2>3, EndsAre DEF Shape, WaveOK
    <2> QED
      BY <2>2, <2>4
  <1> QED
    BY <1>1, <1>2

(* What integrateLanes reads of the branches, but for those it cannot read. *)
Read(unread) ==
  [t \in Tickets |-> IF t \in Offered \ unread THEN branches[t].commits ELSE <<>>]

LEMMA ReadIs ==
  ASSUME Shape, NEW unread
  PROVE  /\ Read(unread) \in [Tickets -> Seq(Commits)]
         /\ \A t \in Tickets : Read(unread)[t] # <<>> => t \in Offered \ unread
         /\ \A t \in Offered : t \in Tickets /\ t \in wave.ran
         /\ \A t \in Offered \ unread : Read(unread)[t] = branches[t].commits
  BY RefFields, WaveFields DEF Read, Shape, RepoOK, WaveOK, Offered

LEMMA PickWave ==
  ASSUME Shape, Pick
  PROVE  /\ wave' \in Waves /\ wave'.commits = Read(wave'.unread)
         /\ KeepsPlan(wave', wave) /\ KeepsRun(wave', wave) /\ KeepsPlace(wave', wave)
         /\ KeepsWanted(wave', wave)
         /\ \A t \in Tickets : wave'.outcome[t] = "integrated" => t \in Offered
         /\ LET carried == {t \in Tickets : /\ wave'.outcome[t] = "integrated"
                                            /\ wave'.commits[t] # <<>>} IN
              \/ /\ picks' = NoBranch /\ carried = {}
              \/ picks' = Branch(wave.base, CommitsOf(wave'.commits, carried))
  <1> DEFINE Picked(unread, withheld) ==
          LET read == Read(unread)
              asking == {t \in Tickets : read[t] # <<>>} IN
          \E out \in [asking -> {"integrated", "conflict", "integration_red"}] :
             /\ wave' = [wave EXCEPT !.commits = read, !.unread = unread,
                    !.outcome = [t \in Tickets |->
                        IF t \in asking THEN out[t]
                        ELSE IF t \in Offered \ withheld THEN "integrated" ELSE "not_done"]]
             /\ picks' = IF asking = {} THEN NoBranch
                         ELSE Branch(wave.base,
                                CommitsOf(read, {t \in asking : out[t] = "integrated"}))
  <1>a. \E unread \in SUBSET {t \in Offered : branches[t].commits # <<>>} :
          \E withheld \in SUBSET {t \in unread : wave.ends[t] = "stopped"} :
            Picked(unread, withheld)
    BY ZenonT(60) DEF Pick, Read
  <1>b. PICK unread \in SUBSET Offered : \E withheld : Picked(unread, withheld)
    <2> HIDE DEF Picked
    <2> QED
      BY <1>a
  <1>0. PICK withheld : Picked(unread, withheld)
    <2> HIDE DEF Picked
    <2> QED
      BY <1>b
  <1> DEFINE read == Read(unread)
             asking == {t \in Tickets : read[t] # <<>>}
  <1>1. PICK out \in [asking -> {"integrated", "conflict", "integration_red"}] :
             /\ wave' = [wave EXCEPT !.commits = read, !.unread = unread,
                    !.outcome = [t \in Tickets |->
                        IF t \in asking THEN out[t]
                        ELSE IF t \in Offered \ withheld THEN "integrated" ELSE "not_done"]]
             /\ picks' = IF asking = {} THEN NoBranch
                         ELSE Branch(wave.base,
                                CommitsOf(read, {t \in asking : out[t] = "integrated"}))
    BY <1>0
  <1>2. /\ read \in [Tickets -> Seq(Commits)] /\ unread \in SUBSET Tickets
        /\ \A t \in asking : t \in Offered
    BY ReadIs
  <1>3. read = Read(unread)
    OBVIOUS
  <1> HIDE DEF read
  <1> DEFINE outcome == [t \in Tickets |->
                        IF t \in asking THEN out[t]
                        ELSE IF t \in Offered \ withheld THEN "integrated" ELSE "not_done"]
  <1>4. /\ outcome \in [Tickets -> Outcomes]
        /\ \A t \in Tickets : outcome[t] = "integrated" => t \in Offered
        /\ \A t \in asking : outcome[t] = out[t]
    BY <1>2 DEF Outcomes
  <1>5. wave' = [wave EXCEPT !.commits = read, !.unread = unread, !.outcome = outcome]
    BY <1>1
  <1> HIDE DEF outcome
  <1>6. /\ wave' \in Waves /\ wave'.commits = read /\ wave'.outcome = outcome
        /\ wave'.unread = unread
        /\ KeepsPlan(wave', wave) /\ KeepsRun(wave', wave) /\ KeepsPlace(wave', wave)
        /\ KeepsWanted(wave', wave)
    <2>1. wave \in Waves
      BY DEF Shape, WaveOK
    <2> QED
      BY <1>2, <1>4, <1>5, <2>1 DEF Waves, KeepsPlan, KeepsRun, KeepsPlace, KeepsWanted
  <1>7. {t \in asking : out[t] = "integrated"}
          = {t \in Tickets : wave'.outcome[t] = "integrated" /\ wave'.commits[t] # <<>>}
    BY <1>4, <1>6
  <1>8. \/ picks' = NoBranch /\ asking = {}
        \/ picks' = Branch(wave.base, CommitsOf(read, {t \in asking : out[t] = "integrated"}))
    BY <1>1
  <1> QED
    BY <1>3, <1>4, <1>6, <1>7, <1>8

LEMMA MergeWave ==
  ASSUME Shape, Merge
  PROVE  /\ wave' \in Waves
         /\ KeepsPlan(wave', wave) /\ KeepsRun(wave', wave) /\ KeepsPlace(wave', wave)
         /\ KeepsWanted(wave', wave) /\ wave'.commits = wave.commits
         /\ wave'.unread = wave.unread
         /\ \/ /\ Carried = {} \/ Len(main) = wave.base
               /\ main' = main \o picks.commits /\ wave'.outcome = wave.outcome
            \/ /\ Carried # {} /\ UNCHANGED main
               /\ \A t \in Tickets : /\ t \in Carried => wave'.outcome[t] = "integration_ff_failed"
                                     /\ t \notin Carried => wave'.outcome[t] = wave.outcome[t]
  <1>1. CASE UNCHANGED wave /\ main' = main \o picks.commits /\ (Carried = {} \/ Len(main) = wave.base)
    BY <1>1 DEF Shape, WaveOK, KeepsPlan, KeepsRun, KeepsPlace, KeepsWanted
  <1>2. CASE /\ Carried # {} /\ UNCHANGED main
             /\ wave' = [wave EXCEPT !.outcome = [t \in Tickets |->
                         IF t \in Carried THEN "integration_ff_failed" ELSE @[t]]]
    <2> DEFINE outcome == [t \in Tickets |->
                  IF t \in Carried THEN "integration_ff_failed" ELSE wave.outcome[t]]
    <2>1. outcome \in [Tickets -> Outcomes]
      BY WaveFields DEF Outcomes, Shape, WaveOK
    <2>2. wave' = [wave EXCEPT !.outcome = outcome]
      BY <1>2
    <2>3. \A t \in Tickets : outcome[t] = IF t \in Carried THEN "integration_ff_failed" ELSE wave.outcome[t]
      OBVIOUS
    <2> HIDE DEF outcome
    <2>4. /\ wave' \in Waves /\ wave'.outcome = outcome /\ wave'.commits = wave.commits
          /\ wave'.unread = wave.unread
          /\ KeepsPlan(wave', wave) /\ KeepsRun(wave', wave) /\ KeepsPlace(wave', wave)
          /\ KeepsWanted(wave', wave)
      BY <2>1, <2>2, PicksAre DEF Shape, WaveOK
    <2> QED
      BY <1>2, <2>3, <2>4
  <1> QED
    BY <1>1, <1>2 DEF Merge

LEMMA ShaIs ==
  ASSUME Shape, NEW t
  PROVE  /\ IntegratedSha(t) \in Nat
         /\ IntegratedSha(t) # None =>
              /\ t \in Carried /\ Len(main) - wave.base = Len(CommitsOf(wave.commits, Carried))
              /\ IntegratedSha(t) = wave.base + EndOf(wave.commits, Carried, t)
  BY CommitsOfType, WaveFields DEF EndOf, IntegratedSha, None, Shape, WaveOK

LEMMA StatusIs ==
  ASSUME NEW t \in Tickets, NEW sha
  PROVE  /\ StatusOf(t, sha) \in Statuses
         /\ StatusOf(t, sha) = "Done" => sha # None
  BY DEF StatusOf, Statuses

LEMMA MapWave ==
  ASSUME Shape, Map
  PROVE  /\ wave' \in Waves /\ wave'.left = wave.members /\ wave'.cited = wave.cited
         /\ KeepsPlan(wave', wave) /\ KeepsRun(wave', wave) /\ KeepsPicks(wave', wave)
         /\ \A t \in Tickets : /\ wave'.sha[t] \in {None, IntegratedSha(t)}
                               /\ wave'.wanted[t] = "Done" => wave'.sha[t] # None
  <1>1. PICK shas \in {Positions, [t \in Tickets |-> None]} :
          wave' = [wave EXCEPT !.sha = shas,
                        !.wanted = [t \in Tickets |-> StatusOf(t, shas[t])],
                        !.left = wave.members]
    BY DEF Map
  <1> DEFINE wanted == [t \in Tickets |-> StatusOf(t, shas[t])]
  <1>2. shas \in [Tickets -> Nat] /\ \A t \in Tickets : shas[t] \in {None, IntegratedSha(t)}
    BY ShaIs, BlankFields DEF Positions
  <1>3. /\ wanted \in [Tickets -> Statuses]
        /\ \A t \in Tickets : wanted[t] = "Done" => shas[t] # None
    BY StatusIs
  <1>4. wave' = [wave EXCEPT !.sha = shas, !.wanted = wanted, !.left = wave.members]
    BY <1>1
  <1> HIDE DEF wanted
  <1>5. /\ wave' \in Waves /\ wave'.left = wave.members /\ wave'.cited = wave.cited
        /\ wave'.sha = shas /\ wave'.wanted = wanted
        /\ KeepsPlan(wave', wave) /\ KeepsRun(wave', wave) /\ KeepsPicks(wave', wave)
    <2>1. wave \in Waves
      BY DEF Shape, WaveOK
    <2> QED
      BY <1>2, <1>3, <1>4, <2>1 DEF Waves, KeepsPlan, KeepsRun, KeepsPicks
  <1> QED
    BY <1>2, <1>3, <1>5

LEMMA WriteBackWave ==
  ASSUME Shape, WriteBack
  PROVE  LET t == Least(wave.left) IN
           /\ t \in wave.left /\ t \in Tickets /\ wave' \in Waves
           /\ KeepsPlan(wave', wave) /\ KeepsRun(wave', wave) /\ KeepsPicks(wave', wave)
           /\ KeepsWanted(wave', wave)
           /\ \/ /\ wave'.left = wave.left \ {t} /\ ~wave'.cited
                 /\ UNCHANGED <<status, evidence>>
              \/ /\ wave'.left = wave.left /\ wave'.cited /\ UNCHANGED status /\ wave.sha[t] # None
                 /\ evidence' = [evidence EXCEPT ![t] = wave.sha[t]]
              \/ /\ wave'.left = wave.left \ {t} /\ ~wave'.cited /\ UNCHANGED evidence
                 /\ wave.sha[t] = None \/ wave.cited
                 /\ status' = [status EXCEPT ![t] = wave.wanted[t]]
  <1> DEFINE t == Least(wave.left)
  <1>1. t \in wave.left /\ t \in Tickets /\ wave \in Waves
    BY LeastIs, WaveFields DEF WriteBack, Shape, WaveOK
  <1>2. \/ wave' = NextMember(t) /\ UNCHANGED <<status, evidence>>
        \/ /\ evidence' = [evidence EXCEPT ![t] = wave.sha[t]] /\ wave.sha[t] # None
           /\ wave' = [wave EXCEPT !.cited = TRUE] /\ UNCHANGED status
        \/ /\ wave.sha[t] = None \/ wave.cited
           /\ status' = [status EXCEPT ![t] = wave.wanted[t]]
           /\ wave' = NextMember(t) /\ UNCHANGED evidence
        \/ wave' = [NextMember(t) EXCEPT !.unwritten = @ \cup {t}] /\ UNCHANGED <<status, evidence>>
    BY DEF WriteBack, Cites
  <1> HIDE DEF t
  <1> QED
    BY <1>1, <1>2, MembersAre DEF t

------------------------------------------------------------------------------
(* The shape is kept. *)

LEMMA LongerIs ==
  ASSUME NEW T, NEW s \in Seq(T), NEW x \in T
  PROVE  /\ Append(s, x) \in Seq(T) /\ Len(Append(s, x)) = Len(s) + 1 /\ Len(s) \in Nat
         /\ \A i \in 1..Len(s) : Append(s, x)[i] = s[i]
         /\ Append(s, x)[Len(s) + 1] = x
  OBVIOUS

LEMMA WiderIs ==
  ASSUME NEW T, NEW s \in Seq(T), NEW x
  PROVE  s \in Seq(T \cup {x})
  OBVIOUS

(* The working branch only gains commits. *)
LEMMA MainGrows ==
  ASSUME Shape, [Next]_vars
  PROVE  /\ main' \in Seq(Commits \cup {Foreign})
         /\ Len(main) \in Nat /\ Len(main') \in Nat /\ Len(main) <= Len(main')
         /\ \A i \in 1..Len(main) : main'[i] = main[i]
  <1> DEFINE T == Commits \cup {Foreign}
  <1>1. main \in Seq(T) /\ Len(main) \in Nat
    BY DEF Shape, RepoOK
  <1>2. CASE UNCHANGED main
    BY <1>1, <1>2
  <1>3. CASE Merge
    <2>1. UNCHANGED main \/ main' = main \o picks.commits
      BY <1>3 DEF Merge
    <2>2. picks.commits \in Seq(T)
      BY RefFields, WiderIs DEF Shape, RepoOK
    <2> HIDE DEF T
    <2>3. ASSUME main' = main \o picks.commits
          PROVE  /\ main' \in Seq(T) /\ Len(main') \in Nat /\ Len(main) <= Len(main')
                 /\ \A i \in 1..Len(main) : main'[i] = main[i]
      BY <1>1, <2>2, <2>3, JoinOne
    <2> QED
      BY <1>1, <1>2, <2>1, <2>3 DEF T
  <1>4. CASE ForeignCommit
    <2>1. main' = Append(main, Foreign) /\ Foreign \in T
      BY <1>4 DEF ForeignCommit
    <2> HIDE DEF T
    <2>2. /\ main' \in Seq(T) /\ Len(main') \in Nat /\ Len(main) <= Len(main')
          /\ \A i \in 1..Len(main) : main'[i] = main[i]
      BY <1>1, <2>1, LongerIs
    <2> QED
      BY <1>1, <2>2 DEF T
  <1>5. [Next]_vars => UNCHANGED main \/ Merge \/ ForeignCommit
    BY DEF Next, Pipeline, Reap, ReapKill, StartWave, CancelLaneRun, Barrier, Pick, Map, WriteBack,
           Release, Finish, EnterLanes, StartLane, StopLane, LaneEnds, Verdict, Boot, Commit,
           UnitEnds, Cancel, Crash, Restart, repository, vars
  <1> QED
    BY <1>2, <1>3, <1>4, <1>5

LEMMA TicketsKept ==
  ASSUME Shape, [Next]_vars
  PROVE  RosterOK' /\ TicketsOK'
  <1>1. RosterOK'
    <2>1. UNCHANGED roster
      BY DEF Next, Pipeline, Reap, ReapKill, StartWave, CancelLaneRun, Barrier, Pick, Merge, Map,
             WriteBack, Release, Finish, EnterLanes, StartLane, StopLane, LaneEnds, Verdict, Boot,
             Commit, UnitEnds, Cancel, Crash, Restart, ForeignCommit, tickets, vars
    <2> QED
      BY <2>1 DEF Shape, RosterOK
  <1>2. CASE UNCHANGED <<status, evidence>>
    <2>1. ASSUME NEW t \in Tickets PROVE evidence[t] <= Len(main')
      <3>1. evidence[t] \in Nat /\ evidence[t] <= Len(main)
        BY DEF Shape, TicketsOK
      <3> QED
        BY <3>1, MainGrows
    <2> QED
      BY <1>1, <1>2, <2>1 DEF Shape, TicketsOK
  <1>3. CASE WriteBack
    <2> DEFINE t == Least(wave.left)
    <2>1. /\ t \in Tickets /\ wave \in Waves
          /\ \/ UNCHANGED <<status, evidence>>
             \/ UNCHANGED status /\ evidence' = [evidence EXCEPT ![t] = wave.sha[t]]
             \/ UNCHANGED evidence /\ status' = [status EXCEPT ![t] = wave.wanted[t]]
      BY <1>3, WriteBackWave DEF Shape, WaveOK
    <2> HIDE DEF t
    <2>2. wave.sha[t] \in Nat /\ wave.sha[t] <= Len(main) /\ wave.wanted[t] \in Statuses
      BY <2>1, WaveFields DEF Shape, WaveOK
    <2> QED
      <3>1. CASE UNCHANGED status /\ evidence' = [evidence EXCEPT ![t] = wave.sha[t]]
        <4>1. /\ status \in [Tickets -> Statuses] /\ evidence \in [Tickets -> Nat]
              /\ \A u \in Tickets : evidence[u] <= Len(main)
          BY DEF Shape, TicketsOK
        <4>2. evidence' \in [Tickets -> Nat] /\ \A u \in Tickets : evidence'[u] <= Len(main)
          BY <2>1, <2>2, <3>1, <4>1
        <4>3. \A u \in Tickets : evidence'[u] <= Len(main')
          <5>1. \A u \in Tickets : evidence'[u] \in Nat
            BY <4>2
          <5> QED
            BY <4>2, <5>1, MainGrows
        <4> QED
          BY <1>1, <3>1, <4>1, <4>2, <4>3 DEF TicketsOK
      <3>2. CASE UNCHANGED evidence /\ status' = [status EXCEPT ![t] = wave.wanted[t]]
        <4>1. /\ status \in [Tickets -> Statuses] /\ evidence \in [Tickets -> Nat]
              /\ \A u \in Tickets : evidence[u] <= Len(main)
          BY DEF Shape, TicketsOK
        <4>2. status' \in [Tickets -> Statuses]
          BY <2>1, <2>2, <3>2, <4>1
        <4>3. \A u \in Tickets : evidence[u] <= Len(main')
          <5>1. \A u \in Tickets : evidence[u] \in Nat
            BY <4>1
          <5> QED
            BY <4>1, <5>1, MainGrows
        <4> QED
          BY <1>1, <3>2, <4>1, <4>2, <4>3 DEF TicketsOK
      <3> QED
        BY <1>2, <2>1, <3>1, <3>2
  <1>4. [Next]_vars => UNCHANGED <<status, evidence>> \/ WriteBack
    BY DEF Next, Pipeline, Reap, ReapKill, StartWave, CancelLaneRun, Barrier, Pick, Map, Merge,
           Release, Finish, EnterLanes, StartLane, StopLane, LaneEnds, Verdict, Boot, Commit,
           UnitEnds, Cancel, Crash, Restart, ForeignCommit, tickets, vars
  <1> QED
    BY <1>1, <1>2, <1>3, <1>4

LEMMA SessionKept ==
  ASSUME Shape, [Next]_vars
  PROVE  SessionOK'
  <1>1. requeued' \subseteq Tickets
    <2>1. CASE Map
      BY <2>1, WaveFields DEF Map, Shape, SessionOK, WaveOK
    <2>2. [Next]_vars => UNCHANGED requeued \/ requeued' = {} \/ Map
      BY DEF Next, Pipeline, Reap, ReapKill, StartWave, CancelLaneRun, Barrier, Pick, Merge,
             WriteBack, Release, Finish, EnterLanes, StartLane, StopLane, LaneEnds, Verdict, Boot,
             Commit, UnitEnds, Cancel, Crash, Restart, ForeignCommit, vars
    <2> QED
      BY <2>1, <2>2 DEF Shape, SessionOK
  <1>2. session' \in [active : BOOLEAN, life : Nat \ {0}]
    <2>1. \/ UNCHANGED session
          \/ session' = [session EXCEPT !.active = FALSE]
          \/ session' = [session EXCEPT !.active = TRUE, !.life = @ + 1]
      BY DEF Next, Pipeline, Reap, ReapKill, StartWave, CancelLaneRun, Barrier, Pick, Merge, Map,
             WriteBack, Release, Finish, EnterLanes, StartLane, StopLane, LaneEnds, Verdict, Boot,
             Commit, UnitEnds, Cancel, Crash, Restart, ForeignCommit, vars
    <2>2. session \in [active : BOOLEAN, life : Nat \ {0}] /\ session.life + 1 \in Nat \ {0}
      BY DEF Shape, SessionOK
    <2> QED
      BY <2>1, <2>2
  <1>3. pc' \in Stages
    BY DEF Next, Pipeline, Reap, ReapKill, StartWave, CancelLaneRun, Barrier, Pick, Merge, Map,
           WriteBack, Release, Finish, EnterLanes, StartLane, StopLane, LaneEnds, Verdict, Boot,
           Commit, UnitEnds, Cancel, Crash, Restart, ForeignCommit, vars, Shape, SessionOK, Stages,
           Over
  <1> QED
    BY <1>1, <1>2, <1>3 DEF SessionOK

(* What a step may make of a branch: nothing, one cut from the working branch, *)
(* or one that has a commit more.                                              *)
Cut(b) == \E n \in Nat : n <= Len(main) /\ b = Branch(n, <<>>)
Grown(b, t) ==
  \E c \in Commits : c.ticket = t /\ b = Branch(branches[t].base, Append(branches[t].commits, c))

LEMMA RefsOfBranches ==
  ASSUME Shape
  PROVE  /\ branches = [t \in Tickets |-> branches[t]]
         /\ \A t \in Tickets : /\ branches[t] \in Refs /\ branches[t].commits \in Seq(Commits)
                               /\ branches[t].base \in Nat /\ branches[t].base <= Len(main)
         /\ picks \in Refs /\ picks.commits \in Seq(Commits)
  BY RefFields DEF Shape, RepoOK

LEMMA KeptIs ==
  ASSUME Shape
  PROVE  Kept \subseteq Seq(Commits)
  BY RefsOfBranches DEF Kept, Unreached, Shape, RepoOK

LEMMA ReleaseIs ==
  ASSUME Shape, ReleaseBranches
  PROVE  /\ branches' = [t \in Tickets |-> branches'[t]]
         /\ \A t \in Tickets : \/ branches'[t] = branches[t]
                               \/ branches'[t] = NoBranch /\ Released(t)
         /\ picks' = picks \/ picks' = NoBranch
  BY DEF ReleaseBranches

LEMMA CommitIs ==
  ASSUME Shape, NEW r \in runners, Commit(r)
  PROVE  LET c == [ticket |-> r.ticket, n |-> made[r.ticket] + 1] IN
           /\ r.ticket \in Tickets /\ r.ticket \in trees
           /\ made' = [made EXCEPT ![r.ticket] = @ + 1] /\ made[r.ticket] \in Nat
           /\ c \in Commits /\ c.ticket = r.ticket
           /\ branches' = [branches EXCEPT ![r.ticket] =
                Branch(branches[r.ticket].base, Append(branches[r.ticket].commits, c))]
  <1>1. r.ticket \in Tickets /\ made \in [Tickets -> Nat] /\ branches \in [Tickets -> Refs]
    BY RunnerFields DEF Shape, ProcsOK, RepoOK
  <1>2. made' = [made EXCEPT ![r.ticket] = @ + 1] /\ r.ticket \in trees
    BY DEF Commit
  <1>3. made'[r.ticket] = made[r.ticket] + 1 /\ made[r.ticket] \in Nat
    BY <1>1, <1>2
  <1> DEFINE n == made[r.ticket] + 1
             c == [ticket |-> r.ticket, n |-> n]
  <1>4. n \in Nat \ {0}
    BY <1>3
  <1>5. branches' = [branches EXCEPT ![r.ticket] = Branch(@.base, Append(@.commits, c))]
    BY <1>3 DEF Commit
  <1> HIDE DEF n
  <1>6. c \in Commits /\ c.ticket = r.ticket
    BY <1>1, <1>4 DEF Commits
  <1> HIDE DEF c
  <1>7. branches' = [branches EXCEPT ![r.ticket] =
                Branch(branches[r.ticket].base, Append(branches[r.ticket].commits, c))]
    BY <1>1, <1>5
  <1> QED
    BY <1>1, <1>2, <1>3, <1>6, <1>7 DEF c, n

LEMMA BranchSteps ==
  ASSUME Shape, [Next]_vars
  PROVE  /\ branches' = [t \in Tickets |-> branches'[t]]
         /\ \A t \in Tickets : \/ branches'[t] = branches[t] \/ branches'[t] = NoBranch
                               \/ Cut(branches'[t]) \/ Grown(branches'[t], t)
  <1>1. CASE UNCHANGED branches
    BY <1>1, RefsOfBranches
  <1>2. CASE ReapKill \/ EnterLanes
    BY <1>2 DEF ReapKill, EnterLanes, Recover
  <1>3. CASE StartWave
    <2>1. PICK ran : branches' = [t \in Tickets |->
                IF t \in ran THEN Branch(Len(main), <<>>) ELSE NoBranch]
      BY <1>3, StartWaveWave
    <2>2. Len(main) \in Nat /\ Len(main) <= Len(main)
      BY DEF Shape, RepoOK
    <2> QED
      BY <2>1, <2>2 DEF Cut
  <1>4. CASE StartLane
    <2>1. \/ UNCHANGED branches
          \/ branches' = [branches EXCEPT ![Least(wave.left)] = Branch(wave.base, <<>>)]
      BY <1>4, StartLaneWave
    <2>2. wave.base \in Nat /\ wave.base <= Len(main)
      BY WaveFields DEF Shape, WaveOK
    <2> QED
      BY <1>1, <2>1, <2>2, RefsOfBranches DEF Cut
  <1>5. CASE \E r \in runners : Commit(r)
    <2>1. PICK r \in runners : Commit(r)
      BY <1>5
    <2> DEFINE c == [ticket |-> r.ticket, n |-> made[r.ticket] + 1]
    <2>2. /\ r.ticket \in Tickets /\ c \in Commits /\ c.ticket = r.ticket
          /\ branches' = [branches EXCEPT ![r.ticket] =
                Branch(branches[r.ticket].base, Append(branches[r.ticket].commits, c))]
      BY <2>1, CommitIs
    <2> HIDE DEF c
    <2>3. Grown(Branch(branches[r.ticket].base, Append(branches[r.ticket].commits, c)), r.ticket)
      BY <2>2 DEF Grown
    <2> QED
      BY <2>2, <2>3, RefsOfBranches
  <1>6. CASE Release \/ Verdict
    BY <1>6, ReleaseIs DEF Release, Verdict
  <1>7. \/ UNCHANGED branches \/ ReapKill \/ EnterLanes \/ StartWave \/ StartLane
        \/ (\E r \in runners : Commit(r)) \/ Release \/ Verdict
    BY DEF Next, Pipeline, Reap, CancelLaneRun, Barrier, Pick, Merge, Map, WriteBack, Finish,
           StopLane, LaneEnds, Boot, UnitEnds, Cancel, Crash, Restart, ForeignCommit, repository, vars
  <1> QED
    BY <1>1, <1>2, <1>3, <1>4, <1>5, <1>6, <1>7

LEMMA BranchesKept ==
  ASSUME Shape, [Next]_vars
  PROVE  /\ branches' \in [Tickets -> Refs]
         /\ \A t \in Tickets : branches'[t].base <= Len(main')
         /\ \A t \in Tickets : \A i \in 1..Len(branches'[t].commits) :
              branches'[t].commits[i].ticket = t
  <1>1. ASSUME NEW t \in Tickets
        PROVE  /\ branches'[t] \in Refs /\ branches'[t].base <= Len(main)
               /\ \A i \in 1..Len(branches'[t].commits) : branches'[t].commits[i].ticket = t
    <2> DEFINE b == branches'[t]
    <2>1. b = branches[t] \/ b = NoBranch \/ Cut(b) \/ Grown(b, t)
      BY BranchSteps
    <2> HIDE DEF b
    <2>2. Len(main) \in Nat
      BY MainGrows
    <2>3. ASSUME b = branches[t]
          PROVE  b \in Refs /\ b.base <= Len(main) /\ \A i \in 1..Len(b.commits) : b.commits[i].ticket = t
      BY <2>3, RefsOfBranches DEF Shape, RepoOK
    <2>4. ASSUME b = NoBranch
          PROVE  b \in Refs /\ b.base <= Len(main) /\ \A i \in 1..Len(b.commits) : b.commits[i].ticket = t
      BY <2>2, <2>4, RefFields
    <2>5. ASSUME Cut(b)
          PROVE  b \in Refs /\ b.base <= Len(main) /\ \A i \in 1..Len(b.commits) : b.commits[i].ticket = t
      <3>1. PICK n \in Nat : n <= Len(main) /\ b = Branch(n, <<>>)
        BY <2>5 DEF Cut
      <3>2. <<>> \in Seq(Commits)
        OBVIOUS
      <3>3. b \in Refs /\ b.base = n /\ b.commits = <<>>
        BY <3>1, <3>2, RefFields
      <3> QED
        BY <3>1, <3>3
    <2>6. ASSUME Grown(b, t)
          PROVE  b \in Refs /\ b.base <= Len(main) /\ \A i \in 1..Len(b.commits) : b.commits[i].ticket = t
      <3>1. PICK c \in Commits : /\ c.ticket = t
                                 /\ b = Branch(branches[t].base, Append(branches[t].commits, c))
        BY <2>6 DEF Grown
      <3> DEFINE old == branches[t].commits
      <3>2. old \in Seq(Commits) /\ branches[t].base \in Nat /\ branches[t].base <= Len(main)
        BY RefsOfBranches
      <3>3. \A i \in 1..Len(old) : old[i].ticket = t
        BY DEF Shape, RepoOK
      <3> HIDE DEF old
      <3>4. Append(old, c) \in Seq(Commits)
        BY <3>2, LongerIs
      <3>5. b \in Refs /\ b.base = branches[t].base /\ b.commits = Append(old, c)
        <4> DEFINE new == Append(old, c)
        <4>1. b = Branch(branches[t].base, new) /\ new \in Seq(Commits)
          BY <3>1, <3>4 DEF old
        <4> HIDE DEF new
        <4>2. b \in Refs /\ b.base = branches[t].base /\ b.commits = new
          BY <3>2, <4>1, RefFields
        <4> QED
          BY <4>2 DEF new
      <3>6. ASSUME NEW i \in 1..Len(Append(old, c)) PROVE Append(old, c)[i].ticket = t
        <4>1. i \in 1..Len(old) \/ i = Len(old) + 1
          BY <3>2, LongerIs
        <4> QED
          BY <3>1, <3>2, <3>3, <4>1, LongerIs
      <3> QED
        BY <3>2, <3>5, <3>6
    <2> QED
      BY <2>1, <2>3, <2>4, <2>5, <2>6 DEF b
  <1>2. branches' = [t \in Tickets |-> branches'[t]]
    BY BranchSteps
  <1>3. ASSUME NEW t \in Tickets PROVE branches'[t].base <= Len(main')
    <2>1. branches'[t].base \in Nat
      BY <1>1, RefFields
    <2> QED
      BY <1>1, <2>1, MainGrows
  <1> QED
    BY <1>1, <1>2, <1>3

LEMMA TreesKept ==
  ASSUME Shape, [Next]_vars
  PROVE  trees' \subseteq Tickets /\ \A t \in trees' : branches'[t].there
  <1>0. trees \subseteq Tickets /\ \A t \in trees : branches[t].there
    BY DEF Shape, RepoOK
  <1>1. CASE UNCHANGED <<branches, trees>>
    BY <1>0, <1>1
  <1>2. CASE ReapKill \/ EnterLanes
    BY <1>2 DEF ReapKill, EnterLanes, Recover
  <1>3. CASE StartWave
    <2>1. PICK ran \in SUBSET Tickets : /\ trees' = ran
              /\ branches' = [t \in Tickets |->
                    IF t \in ran THEN Branch(Len(main), <<>>) ELSE NoBranch]
      BY <1>3, StartWaveWave
    <2> QED
      BY <2>1 DEF Branch
  <1>4. CASE StartLane
    <2> DEFINE t == Least(wave.left)
    <2>1. /\ t \in Tickets
          /\ \/ UNCHANGED <<branches, trees>>
             \/ /\ branches' = [branches EXCEPT ![t] = Branch(wave.base, <<>>)]
                /\ trees' = trees \cup {t}
      BY <1>4, StartLaneWave
    <2> HIDE DEF t
    <2>2. branches \in [Tickets -> Refs] /\ Branch(wave.base, <<>>).there
      BY DEF Shape, RepoOK, Branch
    <2> QED
      BY <1>0, <2>1, <2>2
  <1>5. CASE \E r \in runners : Commit(r)
    <2>1. UNCHANGED trees
      BY <1>5 DEF Commit
    <2>2. PICK r \in runners : Commit(r)
      BY <1>5
    <2>3. /\ r.ticket \in Tickets
          /\ branches' = [branches EXCEPT ![r.ticket] = Branch(branches[r.ticket].base,
               Append(branches[r.ticket].commits, [ticket |-> r.ticket, n |-> made[r.ticket] + 1]))]
      BY <2>2, CommitIs
    <2>4. \A t \in Tickets : branches[t].there => branches'[t].there
      BY <2>3, RefsOfBranches DEF Branch
    <2> QED
      BY <1>0, <2>1, <2>4
  <1>6. CASE Release \/ Verdict
    <2>1. UNCHANGED trees /\ ReleaseBranches
      BY <1>6 DEF Release, Verdict
    <2>2. \A t \in trees : ~Released(t)
      BY DEF Released
    <2>3. \A t \in trees : branches'[t] = branches[t]
      BY <1>0, <2>1, <2>2, ReleaseIs
    <2> QED
      BY <1>0, <2>1, <2>3
  <1>7. CASE Barrier
    BY <1>0, <1>7 DEF Barrier
  <1>8. \/ UNCHANGED <<branches, trees>> \/ ReapKill \/ EnterLanes \/ StartWave \/ StartLane
        \/ (\E r \in runners : Commit(r)) \/ Release \/ Verdict \/ Barrier
    BY DEF Next, Pipeline, Reap, CancelLaneRun, Pick, Merge, Map, WriteBack, Finish,
           StopLane, LaneEnds, Boot, UnitEnds, Cancel, Crash, Restart, ForeignCommit, repository, vars
  <1> QED
    BY <1>1, <1>2, <1>3, <1>4, <1>5, <1>6, <1>7, <1>8

LEMMA PicksKept ==
  ASSUME Shape, [Next]_vars
  PROVE  picks' \in Refs /\ picks'.base <= Len(main') /\ aside' \subseteq Seq(Commits)
  <1>1. picks' = picks \/ picks' = NoBranch \/ \E s \in Seq(Commits) : picks' = Branch(wave.base, s)
    <2>1. CASE Pick
      <3>1. PICK s : picks' = NoBranch \/ (picks' = Branch(wave.base, s) /\ s \in Seq(Commits))
        BY <2>1, PickWave, ReadIs, CommitsOfType
      <3> QED
        BY <3>1
    <2>2. CASE ReapKill \/ EnterLanes \/ StartWave \/ Release \/ Verdict
      BY <2>2 DEF ReapKill, EnterLanes, StartWave, Release, Verdict, Recover, ReleaseBranches
    <2>3. UNCHANGED picks \/ Pick \/ ReapKill \/ EnterLanes \/ StartWave \/ Release \/ Verdict
      BY DEF Next, Pipeline, Reap, CancelLaneRun, Merge, Map, WriteBack, Finish, Barrier, Commit,
             StartLane, StopLane, LaneEnds, Boot, UnitEnds, Cancel, Crash, Restart, ForeignCommit,
             repository, vars
    <2> QED
      BY <2>1, <2>2, <2>3
  <1>2. aside' = aside \/ aside' = Kept
    BY DEF Next, Pipeline, Reap, CancelLaneRun, Pick, Merge, Map, WriteBack, Finish, Barrier, Commit,
           StartLane, StopLane, LaneEnds, Boot, UnitEnds, Cancel, Crash, Restart, ForeignCommit,
           ReapKill, EnterLanes, StartWave, Release, Verdict, Recover, repository, vars
  <1>3. aside' \subseteq Seq(Commits)
    BY <1>2, KeptIs DEF Shape, RepoOK
  <1>4. wave.base \in Nat /\ wave.base <= Len(main)
    BY WaveFields DEF Shape, WaveOK
  <1>5. picks \in Refs /\ picks.base \in Nat /\ picks.base <= Len(main)
    BY RefFields DEF Shape, RepoOK
  <1>6. picks' \in Refs /\ picks'.base \in Nat /\ picks'.base <= Len(main)
    <2>1. 0 <= Len(main)
      BY MainGrows
    <2> QED
      BY <1>1, <1>4, <1>5, <2>1, RefFields
  <1> QED
    BY <1>3, <1>6, MainGrows

LEMMA ProcsKept ==
  ASSUME Shape, [Next]_vars
  PROVE  ProcsOK'
  <1> DEFINE life == session.life
  <1>0. /\ life \in Nat \ {0} /\ session'.life \in Nat \ {0} /\ life <= session'.life
        /\ owner \in [Tickets -> Nat] /\ \A t \in Tickets : owner[t] <= life
        /\ \A r \in runners \cup missed : r \in Runners /\ r.ticket \in Tickets /\ r.life \in Nat /\ r.life <= life
        /\ booted \subseteq runners /\ made \in [Tickets -> Nat]
    <2>1. life \in Nat \ {0} /\ session \in [active : BOOLEAN, life : Nat \ {0}]
      BY DEF Shape, SessionOK
    <2>2. UNCHANGED session \/ session' = [session EXCEPT !.active = FALSE]
          \/ session' = [session EXCEPT !.active = TRUE, !.life = @ + 1]
      BY DEF Next, Pipeline, Reap, ReapKill, StartWave, CancelLaneRun, Barrier, Pick, Merge, Map,
             WriteBack, Release, Finish, EnterLanes, StartLane, StopLane, LaneEnds, Verdict, Boot,
             Commit, UnitEnds, Cancel, Crash, Restart, ForeignCommit, vars
    <2>3. session'.life = life \/ session'.life = life + 1
      BY <2>1, <2>2
    <2>4. session'.life \in Nat \ {0} /\ life <= session'.life
      BY <2>1, <2>3
    <2> QED
      BY <2>1, <2>4, RunnerFields DEF Shape, ProcsOK
  <1>1. /\ owner' = [t \in Tickets |-> owner'[t]]
        /\ \A t \in Tickets : \/ owner'[t] = owner[t] \/ owner'[t] = 0
                              \/ \E r \in runners : owner'[t] = r.life
    <2>1. CASE UNCHANGED owner
      BY <1>0, <2>1
    <2>2. ASSUME NEW set, owner' = Disowned(set)
          PROVE  /\ owner' = [t \in Tickets |-> owner'[t]]
                 /\ \A t \in Tickets : owner'[t] = owner[t] \/ owner'[t] = 0
      BY <2>2 DEF Disowned, None
    <2>3. CASE \E r \in runners : Boot(r)
      <3>1. PICK r \in runners : owner' = [owner EXCEPT ![r.ticket] = r.life]
        BY <2>3 DEF Boot
      <3> QED
        BY <1>0, <3>1
    <2>4. UNCHANGED owner \/ (\E set : owner' = Disowned(set)) \/ \E r \in runners : Boot(r)
      BY DEF Next, Pipeline, Reap, ReapKill, StartWave, CancelLaneRun, Barrier, Pick, Merge, Map,
             WriteBack, Release, Finish, EnterLanes, StartLane, StopLane, LaneEnds, Verdict,
             Commit, UnitEnds, Cancel, Crash, Restart, ForeignCommit, processes, vars
    <2> QED
      BY <2>1, <2>2, <2>3, <2>4
  <1>2. owner' \in [Tickets -> Nat] /\ \A t \in Tickets : owner'[t] <= session'.life
    <2>1. ASSUME NEW t \in Tickets PROVE owner'[t] \in Nat /\ owner'[t] <= session'.life
      <3>1. owner'[t] \in Nat /\ owner'[t] <= life
        BY <1>0, <1>1
      <3> QED
        BY <1>0, <3>1
    <2> QED
      BY <1>1, <2>1
  <1>3. runners' \subseteq runners \cup [ticket : Tickets, life : {life}]
    <2>1. CASE StartWave
      <3>1. PICK ran \in SUBSET Tickets : runners' = runners \cup [ticket : ran, life : {life}]
        BY <2>1, StartWaveWave
      <3> QED
        BY <3>1
    <2>2. CASE StartLane
      BY <2>2, StartLaneWave DEF LaneOf
    <2>3. runners' \subseteq runners \/ StartWave \/ StartLane
      BY DEF Next, Pipeline, Reap, ReapKill, CancelLaneRun, Barrier, Pick, Merge, Map,
             WriteBack, Release, Finish, EnterLanes, StopLane, LaneEnds, Verdict, Boot,
             Commit, UnitEnds, Cancel, Crash, Restart, ForeignCommit, processes, vars
    <2> QED
      BY <2>1, <2>2, <2>3
  <1>4. missed' \subseteq missed \cup runners
    BY DEF Next, Pipeline, Reap, ReapKill, StartWave, CancelLaneRun, Barrier, Pick, Merge, Map,
           WriteBack, Release, Finish, EnterLanes, StartLane, StopLane, LaneEnds, Verdict, Boot,
           Commit, UnitEnds, Cancel, Crash, Restart, ForeignCommit, processes, vars
  <1>5. booted' \subseteq runners'
    <2>1. CASE StartWave \/ StartLane
      <3>1. UNCHANGED booted
        BY <2>1 DEF StartWave, StartLane
      <3>2. runners \subseteq runners'
        <4>1. StartWave => runners \subseteq runners'
          BY StartWaveWave
        <4>2. StartLane => runners \subseteq runners'
          <5>1. StartLane => UNCHANGED runners \/ \E x : runners' = runners \cup {x}
            BY StartLaneWave
          <5> QED
            BY <5>1
        <4> QED
          BY <2>1, <4>1, <4>2
      <3> QED
        BY <1>0, <3>1, <3>2
    <2>2. CASE ReapKill \/ \E r \in runners : UnitEnds(r) \/ Boot(r)
      <3>1. CASE ReapKill
        BY <1>0, <3>1 DEF ReapKill
      <3>2. CASE \E r \in runners : UnitEnds(r)
        <4>1. PICK r \in runners : runners' = runners \ {r} /\ booted' = booted \ {r}
          BY <3>2 DEF UnitEnds
        <4> QED
          BY <1>0, <4>1
      <3>3. CASE \E r \in runners : Boot(r)
        <4>1. PICK r \in runners : runners' = runners /\ booted' = booted \cup {r}
          BY <3>3 DEF Boot
        <4> QED
          BY <1>0, <4>1
      <3> QED
        BY <2>2, <3>1, <3>2, <3>3
    <2>3. CASE CancelLaneRun
      BY <1>0, <2>3 DEF CancelLaneRun
    <2>4. \/ UNCHANGED <<runners, booted>> \/ StartWave \/ StartLane \/ ReapKill \/ CancelLaneRun
          \/ \E r \in runners : UnitEnds(r) \/ Boot(r)
      BY DEF Next, Pipeline, Reap, Barrier, Pick, Merge, Map,
             WriteBack, Release, Finish, EnterLanes, StopLane, LaneEnds, Verdict,
             Commit, Cancel, Crash, Restart, ForeignCommit, processes, vars
    <2> QED
      BY <1>0, <2>1, <2>2, <2>3, <2>4
  <1>6. made' \in [Tickets -> Nat]
    <2>1. CASE \E r \in runners : Commit(r)
      <3>1. PICK r \in runners : Commit(r)
        BY <2>1
      <3>2. /\ r.ticket \in Tickets /\ made[r.ticket] \in Nat
            /\ made' = [made EXCEPT ![r.ticket] = @ + 1]
        BY <3>1, CommitIs
      <3> QED
        BY <1>0, <3>2
    <2>2. UNCHANGED made \/ \E r \in runners : Commit(r)
      BY DEF Next, Pipeline, Reap, ReapKill, StartWave, CancelLaneRun, Barrier, Pick, Merge, Map,
             WriteBack, Release, Finish, EnterLanes, StartLane, StopLane, LaneEnds, Verdict, Boot,
             UnitEnds, Cancel, Crash, Restart, ForeignCommit, processes, vars
    <2> QED
      BY <1>0, <2>1, <2>2
  <1>7. \A r \in runners' \cup missed' : r \in Runners /\ r.life <= session'.life
    <2>1. ASSUME NEW r \in runners' \cup missed' PROVE r \in Runners /\ r.life <= session'.life
      <3>1. r \in Runners /\ r.life \in Nat /\ r.life <= life
        <4>1. CASE r \in runners \cup missed
          BY <1>0, <4>1
        <4>2. CASE r \in [ticket : Tickets, life : {life}]
          BY <1>0, <4>2 DEF Runners
        <4> QED
          BY <1>3, <1>4, <4>1, <4>2
      <3> QED
        BY <1>0, <3>1
    <2> QED
      BY <2>1
  <1> QED
    BY <1>2, <1>5, <1>6, <1>7 DEF ProcsOK

(* The position found for a member is on the working branch. *)
LEMMA ShaIsThere ==
  ASSUME Shape, NEW t \in Tickets
  PROVE  IntegratedSha(t) <= Len(main)
  <1>1. /\ wave.base \in Nat /\ Len(main) \in Nat /\ wave.commits \in [Tickets -> Seq(Commits)]
        /\ Own(wave.commits) /\ IntegratedSha(t) \in Nat
    <2>1. Len(main) \in Nat
      BY DEF Shape, RepoOK
    <2>2. IntegratedSha(t) \in Nat
      BY ShaIs
    <2> QED
      BY <2>1, <2>2, WaveFields DEF Shape, WaveOK
  <1>2. CASE IntegratedSha(t) = None
    BY <1>1, <1>2 DEF None
  <1>3. CASE IntegratedSha(t) # None
    <2> DEFINE all == Len(CommitsOf(wave.commits, Carried))
               last == EndOf(wave.commits, Carried, t)
    <2>1. t \in Carried /\ Len(main) - wave.base = all /\ IntegratedSha(t) = wave.base + last
      BY <1>3, ShaIs
    <2>2. wave.commits[t] # <<>>
      BY <2>1 DEF Carried
    <2>3. last \in 1..all /\ all \in Nat
      BY <1>1, <2>1, <2>2, CommitsOfLast, CommitsOfType
    <2> HIDE DEF all, last
    <2> QED
      BY <1>1, <2>1, <2>3
  <1> QED
    BY <1>2, <1>3

LEMMA WaveKept ==
  ASSUME Shape, [Next]_vars
  PROVE  WaveOK'
  <1>0. /\ wave \in Waves /\ wave.base \in Nat /\ wave.base <= Len(main)
        /\ wave.ran \subseteq wave.members /\ wave.left \subseteq wave.members
        /\ Own(wave.commits) /\ wave.sha \in [Tickets -> Nat]
        /\ \A t \in Tickets : wave.sha[t] <= Len(main)
        /\ Len(main) \in Nat /\ Len(main') \in Nat /\ Len(main) <= Len(main')
    BY WaveFields, MainGrows DEF Shape, WaveOK
  <1> SUFFICES /\ wave' \in Waves /\ wave'.base \in Nat /\ wave'.base <= Len(main)
               /\ wave'.ran \subseteq wave'.members /\ wave'.left \subseteq wave'.members
               /\ Own(wave'.commits) /\ \A t \in Tickets : wave'.sha[t] <= Len(main)
    <2>1. \A t \in Tickets : wave'.sha[t] \in Nat
      BY WaveFields
    <2>2. \A t \in Tickets : wave'.sha[t] <= Len(main')
      BY <1>0, <2>1
    <2>3. Own(wave.commits)'
      BY DEF Own
    <2> QED
      BY <1>0, <2>2, <2>3 DEF WaveOK
  <1>1. ASSUME wave' \in Waves, Blank(wave'), wave'.base \in Nat, wave'.base <= Len(main),
               wave'.ran \subseteq wave'.members, wave'.left \subseteq wave'.members
        PROVE  Own(wave'.commits) /\ \A t \in Tickets : wave'.sha[t] <= Len(main)
    BY <1>0, <1>1 DEF Own, Blank, None
  <1>2. ASSUME wave' \in Waves, KeepsPlan(wave', wave), wave'.commits = wave.commits,
               wave'.sha = wave.sha
        PROVE  /\ wave'.base \in Nat /\ wave'.base <= Len(main) /\ wave'.members = wave.members
               /\ Own(wave'.commits) /\ \A t \in Tickets : wave'.sha[t] <= Len(main)
    BY <1>0, <1>2 DEF KeepsPlan
  <1>3. CASE UNCHANGED wave
    BY <1>0, <1>3
  <1>4. CASE Reap \/ Forgets \/ EnterLanes \/ StartWave
    BY <1>0, <1>1, <1>4, ReapWave, ForgetsWave, EnterLanesWave, StartWaveWave
  <1>5. CASE StartLane \/ StopLane
    <2>1. /\ wave' \in Waves /\ KeepsPlan(wave', wave) /\ wave'.commits = wave.commits
          /\ wave'.sha = wave.sha /\ wave'.left \subseteq wave.left
          /\ wave'.ran \subseteq wave.ran \cup wave.left
      BY <1>5, StartLaneWave, StopLaneWave DEF KeepsPicks, KeepsWanted
    <2> QED
      BY <1>0, <1>2, <2>1
  <1>6. CASE (\E t \in Tickets : LaneEnds(t)) \/ CancelLaneRun \/ Barrier
    <2>1. /\ wave' \in Waves /\ KeepsPlan(wave', wave) /\ wave'.commits = wave.commits
          /\ wave'.sha = wave.sha /\ wave'.left = wave.left /\ wave'.ran = wave.ran
      BY <1>6, LaneEndsWave, CancelWave, BarrierWave DEF KeepsPicks, KeepsWanted, KeepsPlace, KeepsRun
    <2> QED
      BY <1>0, <1>2, <2>1
  <1>7. CASE Pick \/ Merge
    <2>1. /\ wave' \in Waves /\ KeepsPlan(wave', wave) /\ wave'.sha = wave.sha
          /\ wave'.left = wave.left /\ wave'.ran = wave.ran
          /\ wave'.commits = wave.commits \/ wave'.commits = Read(wave'.unread)
      BY <1>7, PickWave, MergeWave DEF KeepsWanted, KeepsPlace, KeepsRun
    <2> DEFINE read == Read(wave'.unread)
    <2>2. Own(read)
      <3>1. ASSUME NEW t \in Tickets, NEW i \in 1..Len(read[t]) PROVE read[t][i].ticket = t
        <4>1. read[t] # <<>>
          BY <3>1
        <4>2. read[t] = branches[t].commits
          BY <4>1, ReadIs
        <4> QED
          BY <3>1, <4>2 DEF Shape, RepoOK
      <3> QED
        BY <3>1 DEF Own
    <2> QED
      BY <1>0, <2>1, <2>2 DEF KeepsPlan
  <1>8. CASE Map
    <2>1. /\ wave' \in Waves /\ KeepsPlan(wave', wave) /\ wave'.commits = wave.commits
          /\ wave'.left = wave.members /\ wave'.ran = wave.ran
      BY <1>8, MapWave DEF KeepsRun, KeepsPicks
    <2>2. \A t \in Tickets : wave'.sha[t] <= Len(main)
      BY <1>0, <1>8, MapWave, ShaIsThere DEF None
    <2> QED
      BY <1>0, <2>1, <2>2 DEF KeepsPlan
  <1>9. CASE WriteBack
    <2>1. /\ wave' \in Waves /\ KeepsPlan(wave', wave) /\ wave'.commits = wave.commits
          /\ wave'.sha = wave.sha /\ wave'.left \subseteq wave.left /\ wave'.ran = wave.ran
      BY <1>9, WriteBackWave DEF KeepsPicks, KeepsWanted, KeepsRun
    <2> QED
      BY <1>0, <1>2, <2>1
  <1>10. \/ UNCHANGED wave \/ Reap \/ Forgets \/ EnterLanes \/ StartWave \/ StartLane \/ StopLane
         \/ (\E t \in Tickets : LaneEnds(t)) \/ CancelLaneRun \/ Barrier \/ Pick \/ Merge \/ Map
         \/ WriteBack
    BY DEF Next, Pipeline, Forgets, Finish, Boot, Commit, UnitEnds, Cancel, ForeignCommit, vars
  <1> QED
    BY <1>3, <1>4, <1>5, <1>6, <1>7, <1>8, <1>9, <1>10

LEMMA ShapeKept ==
  ASSUME Shape, [Next]_vars
  PROVE  Shape'
  <1>1. RepoOK'
    BY MainGrows, BranchesKept, TreesKept, PicksKept DEF RepoOK
  <1> QED
    BY <1>1, TicketsKept, SessionKept, ProcsKept, WaveKept DEF Shape

LEMMA InitShape == Init => Shape
  <1> SUFFICES ASSUME Init PROVE Shape
    OBVIOUS
  <1>1. PICK s \in Sessions : roster = s.roster
    BY DEF Init
  <1>2. RosterOK
    BY <1>1, WavesAssumption DEF RosterOK
  <1>3. main = <<>> /\ main \in Seq(Commits \cup {Foreign}) /\ Len(main) = 0 /\ 0 <= 0
    BY DEF Init
  <1>4. TicketsOK
    BY <1>3 DEF TicketsOK, Init, Statuses, None
  <1>5. RepoOK
    BY <1>3, RefFields DEF RepoOK, Init
  <1>6. ProcsOK
    <2>1. session.life = 1 /\ 1 \in Nat \ {0} /\ 0 \in Nat /\ 0 <= 1
      BY DEF Init
    <2> QED
      BY <2>1 DEF ProcsOK, Init, None
  <1>7. SessionOK
    BY DEF SessionOK, Init, Stages
  <1>8. WaveOK
    <2>1. wave = NoWave(FALSE)
      BY DEF Init
    <2>2. /\ wave \in Waves /\ Blank(wave) /\ wave.base = 0 /\ wave.members = {}
          /\ wave.ran = {} /\ wave.left = {}
      BY <2>1, NoWaveIs
    <2> QED
      BY <1>3, <2>2 DEF WaveOK, Blank, Own, None
  <1> QED
    BY <1>2, <1>4, <1>5, <1>6, <1>7, <1>8 DEF Shape

------------------------------------------------------------------------------
(* Who is at work: between the phase entries, every runner that a listing could *)
(* have found belongs to the wave in progress, and the waves are planned apart. *)

Crew == {r \in runners : r.life = session.life}
Apart == \A r, s \in runners \ missed : r # s => ~Related(r.ticket, s.ticket)

Fleet ==
  /\ Apart
  /\ pc \in {"head", "pick", "merge", "map", "write"} => runners \subseteq missed
  /\ pc = "wait" => \A r \in runners \ missed : r.life = session.life /\ r.ticket \in wave.ran
  /\ pc = "wait" /\ roster.lanes =>
       /\ \A r \in runners \ missed : wave.ends[r.ticket] = "None"
       /\ \A t \in wave.left : t \notin wave.ran
  /\ pc = "reaping" => runners \ missed \subseteq wave.live
  /\ pc \in {"entry", "reaping"} => \A r \in runners : r.life < session.life
  /\ \A r \in missed : r.life < session.life
  /\ IsFiniteSet(Crew) /\ Cardinality(Crew) <= MaxParallel

LEMMA ApartIs == Apart => RelatedNeverTogether
  BY DEF Apart, RelatedNeverTogether

LEMMA ApartKept ==
  ASSUME UNCHANGED roster,
         \A r, s \in runners' \ missed' : r # s => ~Related(r.ticket, s.ticket)
  PROVE  Apart'
  BY DEF Apart, Related, Clash

LEMMA ApartShrinks ==
  ASSUME UNCHANGED roster, Apart, runners' \ missed' \subseteq runners \ missed
  PROVE  Apart'
  <1>1. \A r, s \in runners' \ missed' : r # s => ~Related(r.ticket, s.ticket)
    BY DEF Apart
  <1> QED
    BY <1>1, ApartKept

LEMMA TicketsFinite ==
  /\ IsFiniteSet(Tickets)
  /\ \A set \in SUBSET Tickets : IsFiniteSet(set) /\ Cardinality(set) \in Nat
  <1>1. IsFiniteSet(Tickets)
    BY TicketsAre, FS_Interval DEF Tickets
  <1> QED
    BY <1>1, FS_Subset, FS_CardinalityType

(* Runners of one life are as many as their tickets. *)
LEMMA CrewOf ==
  ASSUME NEW set \in SUBSET Tickets, NEW crew \in SUBSET Runners, NEW n,
         \A r \in crew : r.life = n /\ r.ticket \in set
  PROVE  /\ IsFiniteSet(crew) /\ Cardinality(crew) <= Cardinality(set)
         /\ Cardinality(crew) \in Nat /\ Cardinality(set) \in Nat
  <1> DEFINE f == [r \in crew |-> r.ticket]
  <1>1. f \in [crew -> set] /\ \A r, s \in crew : f[r] = f[s] => r = s
    BY RunnerFields
  <1>2. f \in Injection(crew, set)
    BY <1>1 DEF Injection, IsInjective
  <1>3. IsFiniteSet(set) /\ Cardinality(set) \in Nat
    BY TicketsFinite
  <1> HIDE DEF f
  <1> QED
    BY <1>2, <1>3, FS_Injection, FS_CardinalityType

LEMMA CrewShrinks ==
  ASSUME Fleet, runners' \subseteq runners, UNCHANGED session
  PROVE  IsFiniteSet(Crew') /\ Cardinality(Crew') <= MaxParallel
  <1>1. Crew' \subseteq Crew
    BY DEF Crew
  <1>2. IsFiniteSet(Crew) /\ Cardinality(Crew) <= MaxParallel
    BY DEF Fleet
  <1>3. IsFiniteSet(Crew') /\ Cardinality(Crew') <= Cardinality(Crew)
    BY <1>1, <1>2, FS_Subset
  <1>4. Cardinality(Crew) \in Nat /\ Cardinality(Crew') \in Nat /\ MaxParallel \in Nat
    BY <1>2, <1>3, FS_CardinalityType, WavesAssumption
  <1> QED
    BY <1>2, <1>3, <1>4

LEMMA NoCrew ==
  ASSUME Crew' = {}
  PROVE  IsFiniteSet(Crew') /\ Cardinality(Crew') <= MaxParallel
  <1>1. MaxParallel \in Nat /\ 0 <= MaxParallel
    BY WavesAssumption
  <1> QED
    BY <1>1, FS_EmptySet

LEMMA InitFleet == Init => Fleet
  <1> SUFFICES ASSUME Init PROVE Fleet
    OBVIOUS
  <1>1. runners = {} /\ missed = {} /\ pc = "entry"
    BY DEF Init
  <1>2. Crew = {}
    BY <1>1 DEF Crew
  <1>3. MaxParallel \in Nat /\ 0 <= MaxParallel
    BY WavesAssumption
  <1>4. IsFiniteSet(Crew) /\ Cardinality(Crew) <= MaxParallel
    BY <1>2, <1>3, FS_EmptySet
  <1> QED
    BY <1>1, <1>4 DEF Fleet, Apart

(* Steps at which nobody starts and the stage stays the same. *)
LEMMA FleetQuiet ==
  ASSUME Shape, Fleet, UNCHANGED <<roster, missed, session.life, pc>>, runners' \subseteq runners,
         UNCHANGED session \/ session' = [session EXCEPT !.active = FALSE],
         wave' = wave \/ (pc = "wait" /\ KeepsRun(wave', wave) /\ wave'.left = wave.left)
  PROVE  Fleet'
  <1>1. Apart'
    BY ApartShrinks DEF Fleet
  <1>2. Crew' \subseteq Crew /\ session'.life = session.life
    BY DEF Crew
  <1>3. IsFiniteSet(Crew') /\ Cardinality(Crew') <= MaxParallel
    <2>1. IsFiniteSet(Crew) /\ Cardinality(Crew) <= MaxParallel
      BY DEF Fleet
    <2>2. IsFiniteSet(Crew') /\ Cardinality(Crew') <= Cardinality(Crew)
      BY <1>2, <2>1, FS_Subset
    <2>3. Cardinality(Crew) \in Nat /\ Cardinality(Crew') \in Nat /\ MaxParallel \in Nat
      BY <2>1, <2>2, FS_CardinalityType, WavesAssumption
    <2> QED
      BY <2>1, <2>2, <2>3
  <1>4. pc # "wait" => wave' = wave
    OBVIOUS
  <1>5. wave'.ran = wave.ran /\ wave'.ends = wave.ends /\ wave'.left = wave.left
    BY DEF KeepsRun
  <1> QED
    BY <1>1, <1>2, <1>3, <1>4, <1>5 DEF Fleet

(* From the barrier to the end of the wave, and when the run is over. *)
LEMMA FleetPasses ==
  ASSUME Shape, Fleet, UNCHANGED <<roster, missed, session, runners>>,
         \/ pc' \in Over
         \/ /\ pc \in {"head", "pick", "merge", "map", "write"}
            /\ pc' \in {"head", "pick", "merge", "map", "write"}
  PROVE  Fleet'
  <1>1. Apart'
    BY ApartShrinks DEF Fleet
  <1>2. IsFiniteSet(Crew') /\ Cardinality(Crew') <= MaxParallel
    BY CrewShrinks
  <1> QED
    BY <1>1, <1>2 DEF Fleet, Over

LEMMA FleetRestart ==
  ASSUME Shape, Fleet, Restart
  PROVE  Fleet'
  <1>1. /\ UNCHANGED <<roster, missed, runners>> /\ pc' = "entry"
        /\ session' = [session EXCEPT !.active = TRUE, !.life = @ + 1]
    BY DEF Restart, tickets, processes
  <1>2. session'.life = session.life + 1 /\ session.life \in Nat
    BY <1>1 DEF Shape, SessionOK
  <1>3. \A r \in runners \cup missed : r.life \in Nat /\ r.life <= session.life
    BY RunnerFields DEF Shape, ProcsOK
  <1>4. \A r \in runners \cup missed : r.life < session'.life
    BY <1>2, <1>3
  <1>5. Apart'
    BY <1>1, ApartShrinks DEF Fleet
  <1>6. Crew' = {}
    <2>1. \A r \in runners : r.life # session'.life
      BY <1>2, <1>3
    <2> QED
      BY <1>1, <2>1 DEF Crew
  <1> QED
    BY <1>1, <1>4, <1>5, <1>6, NoCrew DEF Fleet

LEMMA FleetEntry ==
  ASSUME Shape, Fleet, Reap \/ ReapKill \/ EnterLanes
  PROVE  Fleet'
  <1>1. UNCHANGED <<roster, session>> /\ runners' \subseteq runners
    BY DEF Reap, ReapKill, EnterLanes, tickets
  <1>2. IsFiniteSet(Crew') /\ Cardinality(Crew') <= MaxParallel
    BY <1>1, CrewShrinks
  <1>3. \A r \in runners \cup missed : r.life < session.life
    BY DEF Fleet, Reap, ReapKill, EnterLanes
  <1>4. runners' \ missed' \subseteq runners \ missed
    BY DEF Reap, ReapKill, EnterLanes
  <1>5. Apart'
    BY <1>1, <1>4, ApartShrinks DEF Fleet
  <1>6. CASE Reap
    <2>1. wave'.live = LiveUnits /\ pc' = "reaping" /\ UNCHANGED runners
          /\ missed' = missed \cup {r \in runners : owner[r.ticket] # r.life}
      BY <1>6, ReapWave DEF Reap
    <2>2. runners' \ missed' \subseteq wave'.live
      BY <2>1 DEF LiveUnits
    <2> QED
      BY <1>1, <1>2, <1>3, <1>5, <2>1, <2>2 DEF Fleet
  <1>7. CASE ReapKill
    <2>1. pc' = "head" /\ UNCHANGED missed /\ runners' = runners \ wave.live /\ pc = "reaping"
      BY <1>7 DEF ReapKill
    <2>2. runners' \subseteq missed'
      BY <2>1 DEF Fleet
    <2> QED
      BY <1>1, <1>2, <1>3, <1>5, <2>1, <2>2 DEF Fleet
  <1>8. CASE EnterLanes
    <2>1. pc' = "wait" /\ UNCHANGED runners /\ missed' = missed \cup runners
      BY <1>8 DEF EnterLanes
    <2>2. wave'.ran = {}
      BY <1>8, EnterLanesWave
    <2> QED
      BY <1>1, <1>2, <1>3, <1>5, <2>1, <2>2 DEF Fleet
  <1> QED
    BY <1>6, <1>7, <1>8

(* The members of a wave have nothing to do with each other. *)
LEMMA PlanIsApart ==
  ASSUME Pending # {}, NEW t \in PlanTicketWave(Pending), NEW u \in PlanTicketWave(Pending), t # u
  PROVE  ~Related(t, u)
  <1>1. PlanTicketWave(Pending) \in SUBSET Pending
    BY PendingIs, PlanIs
  <1>2. CASE PlanTicketWave(Pending) = {Least(Pending)}
    BY <1>2
  <1>3. CASE Together(PlanTicketWave(Pending))
    <2>1. t \in Pending /\ u \in Pending /\ ~Waits(t) /\ ~Waits(u) /\ ~Clash(t, u)
      BY <1>1, <1>3 DEF Together, ParallelSafe
    <2> QED
      BY <2>1 DEF Related, Waits
  <1> QED
    BY <1>2, <1>3, PendingIs, PlanIs

LEMMA PlanIsSmall ==
  ASSUME Pending # {}
  PROVE  Cardinality(PlanTicketWave(Pending)) <= MaxParallel
  <1>1. CASE PlanTicketWave(Pending) = {Least(Pending)}
    <2>1. MaxParallel \in Nat /\ 1 <= MaxParallel
      BY WavesAssumption
    <2> QED
      BY <1>1, <2>1, FS_Singleton
  <1>2. CASE Together(PlanTicketWave(Pending))
    BY <1>2 DEF Together
  <1> QED
    BY <1>1, <1>2, PendingIs, PlanIs

LEMMA FleetStartWave ==
  ASSUME Shape, Fleet, StartWave
  PROVE  Fleet'
  <1>1. UNCHANGED <<roster, missed, session>> /\ pc = "head" /\ pc' = "wait"
    BY DEF StartWave, tickets
  <1> DEFINE plan == PlanTicketWave(Pending)
             life == session.life
  <1>2. PICK ran \in SUBSET plan :
          /\ ran \in SUBSET Tickets /\ Pending # {} /\ plan \in SUBSET Pending
          /\ runners' = runners \cup [ticket : ran, life : {life}]
          /\ wave'.ran = ran /\ wave'.left = {} /\ Blank(wave')
    BY StartWaveWave
  <1>3. runners \subseteq missed /\ \A r \in missed : r.life < life /\ r.life \in Nat
    BY <1>1, RunnerFields DEF Fleet, Shape, ProcsOK
  <1>4. life \in Nat \ {0}
    BY DEF Shape, SessionOK
  <1>5. \A t, u \in plan : t # u => ~Related(t, u)
    BY <1>2, PlanIsApart
  <1>6. Cardinality(plan) <= MaxParallel
    BY <1>2, PlanIsSmall
  <1> HIDE DEF plan, life
  <1> DEFINE new == [ticket : ran, life : {life}]
  <1>7. /\ \A r \in new : r.life = life /\ r.ticket \in ran /\ r \in Runners
        /\ \A r, s \in new : r # s => r.ticket # s.ticket
    BY <1>2, <1>4 DEF Runners
  <1>8. runners' = runners \cup new
    BY <1>2
  <1> HIDE DEF new
  <1>9. runners' \ missed' \subseteq new
    BY <1>1, <1>3, <1>8
  <1>10. Apart'
    <2>1. \A r, s \in runners' \ missed' : r # s => ~Related(r.ticket, s.ticket)
      BY <1>2, <1>5, <1>7, <1>9
    <2> QED
      BY <1>1, <2>1, ApartKept
  <1>11. Crew' \subseteq new
    <2>1. \A r \in runners : r.life # life
      BY <1>3, <1>4
    <2> QED
      BY <1>1, <1>8, <2>1 DEF Crew, life
  <1>12. IsFiniteSet(Crew') /\ Cardinality(Crew') <= MaxParallel
    <2>1. plan \in SUBSET Tickets
      BY <1>2, PendingIs
    <2>2. Crew' \in SUBSET Runners /\ \A r \in Crew' : r.life = life /\ r.ticket \in plan
      BY <1>2, <1>7, <1>11
    <2>3. /\ IsFiniteSet(Crew') /\ Cardinality(Crew') <= Cardinality(plan)
          /\ Cardinality(Crew') \in Nat /\ Cardinality(plan) \in Nat
      BY <2>1, <2>2, CrewOf
    <2>4. MaxParallel \in Nat
      BY WavesAssumption
    <2> QED
      BY <1>6, <2>3, <2>4
  <1>13. \A r \in runners' \ missed' : /\ r.life = session'.life /\ r.ticket \in wave'.ran
                                       /\ wave'.ends[r.ticket] = "None"
    BY <1>1, <1>2, <1>7, <1>9 DEF Blank, life
  <1>14. \A r \in missed' : r.life < session'.life
    BY <1>1, <1>3 DEF life
  <1> QED
    BY <1>1, <1>2, <1>10, <1>12, <1>13, <1>14 DEF Fleet

LEMMA LanesApart ==
  ASSUME Shape, roster.lanes, NEW t \in Tickets, NEW u \in Tickets, t # u
  PROVE  ~Related(t, u)
  BY DEF Related, Clash, Shape, RosterOK

(* What a step of the lanes makes of the runners that belong to them. *)
LEMMA FleetLanes ==
  ASSUME Shape, Fleet, UNCHANGED <<roster, missed, session, pc>>, pc = "wait", roster.lanes,
         runners' = runners, wave'.left \subseteq wave.left, wave'.ran = wave.ran,
         \A r \in runners \ missed : wave'.ends[r.ticket] = "None"
  PROVE  Fleet'
  <1>1. Apart'
    BY ApartShrinks DEF Fleet
  <1>2. IsFiniteSet(Crew') /\ Cardinality(Crew') <= MaxParallel
    BY CrewShrinks
  <1> QED
    BY <1>1, <1>2 DEF Fleet

LEMMA FleetLaneEnds ==
  ASSUME Shape, Fleet, NEW t \in Tickets, LaneEnds(t)
  PROVE  Fleet'
  <1>1. /\ UNCHANGED <<roster, missed, session, pc, runners>> /\ pc = "wait" /\ roster.lanes
        /\ LaneOf(t) \notin runners
    BY DEF LaneEnds, tickets
  <1>2. PICK end : /\ wave'.ends = [wave.ends EXCEPT ![t] = end] /\ wave'.ran = wave.ran
                   /\ wave'.left = wave.left
    BY LaneEndsWave DEF KeepsPlace
  <1>3. wave.ends \in [Tickets -> Ends]
    BY WaveFields DEF Shape, WaveOK
  <1>4. ASSUME NEW r \in runners \ missed PROVE wave'.ends[r.ticket] = "None"
    <2>1. r.life = session.life /\ wave.ends[r.ticket] = "None"
      BY <1>1 DEF Fleet
    <2>2. r \in Runners /\ r.ticket \in Tickets
      BY RunnerFields DEF Shape, ProcsOK
    <2>3. r.ticket # t
      <3>1. r = [ticket |-> r.ticket, life |-> r.life]
        BY <2>2 DEF Runners
      <3> QED
        BY <1>1, <2>1, <3>1 DEF LaneOf
    <2> QED
      BY <1>2, <1>3, <2>1, <2>2, <2>3
  <1> QED
    BY <1>1, <1>2, <1>4, FleetLanes

(* A lane that is settled without a runner. *)
LEMMA FleetSettles ==
  ASSUME Shape, Fleet, UNCHANGED <<roster, missed, session, pc, runners>>, pc = "wait",
         roster.lanes, NEW t \in wave.left, NEW end, wave'.ends = [wave.ends EXCEPT ![t] = end],
         wave'.left = wave.left \ {t}, wave'.ran = wave.ran
  PROVE  Fleet'
  <1>1. wave.ends \in [Tickets -> Ends]
    BY WaveFields DEF Shape, WaveOK
  <1>2. ASSUME NEW r \in runners \ missed PROVE wave'.ends[r.ticket] = "None"
    <2>1. r.ticket \in wave.ran /\ wave.ends[r.ticket] = "None" /\ t \notin wave.ran
      BY DEF Fleet
    <2>2. r.ticket \in Tickets
      BY RunnerFields DEF Shape, ProcsOK
    <2> QED
      BY <1>1, <2>1, <2>2
  <1> QED
    BY <1>2, FleetLanes

LEMMA FleetStartLane ==
  ASSUME Shape, Fleet, StartLane
  PROVE  Fleet'
  <1>1. /\ UNCHANGED <<roster, missed, session, pc>> /\ pc = "wait" /\ roster.lanes
        /\ Cardinality(Running) < MaxParallel
    BY DEF StartLane, tickets
  <1> DEFINE t == Least(wave.left)
  <1>2. /\ t \in wave.left /\ t \in Tickets /\ wave'.left = wave.left \ {t}
        /\ \/ /\ wave'.ends = [wave.ends EXCEPT ![t] = "None"] /\ wave'.ran = wave.ran \cup {t}
              /\ runners' = runners \cup {LaneOf(t)}
           \/ /\ wave'.ends = [wave.ends EXCEPT ![t] = "lane_no_verdict"] /\ wave'.ran = wave.ran
              /\ UNCHANGED runners
    BY StartLaneWave
  <1> HIDE DEF t
  <1>3. CASE wave'.ran = wave.ran /\ UNCHANGED runners
             /\ wave'.ends = [wave.ends EXCEPT ![t] = "lane_no_verdict"]
    BY <1>1, <1>2, <1>3, FleetSettles
  <1>4. CASE /\ wave'.ends = [wave.ends EXCEPT ![t] = "None"] /\ wave'.ran = wave.ran \cup {t}
             /\ runners' = runners \cup {LaneOf(t)}
    <2> DEFINE life == session.life
               lane == LaneOf(t)
    <2>1. life \in Nat \ {0} /\ wave.ends \in [Tickets -> Ends] /\ wave.ran \in SUBSET Tickets
      BY WaveFields DEF Shape, SessionOK, WaveOK
    <2>2. lane.ticket = t /\ lane.life = life /\ lane \in Runners
      BY <1>2, <2>1, RunnerFields DEF LaneOf
    <2>3. ASSUME NEW r \in runners \ missed
          PROVE  /\ r \in Runners /\ r.ticket \in Tickets /\ r.ticket # t
                 /\ r.life = life /\ r.ticket \in wave.ran /\ wave.ends[r.ticket] = "None"
      BY <1>1, <1>2, RunnerFields DEF Fleet, Shape, ProcsOK
    <2>4. \A r \in missed : r.life < life /\ r.life \in Nat
      BY RunnerFields DEF Fleet, Shape, ProcsOK
    <2>5. t \notin wave.ran /\ \A u \in wave.left : u \notin wave.ran
      BY <1>1, <1>2 DEF Fleet
    <2> HIDE DEF lane
    <2>6. runners' \ missed' \subseteq (runners \ missed) \cup {lane}
      BY <1>1, <1>4 DEF lane
    <2>7. Apart'
      <3>1. ASSUME NEW r \in runners' \ missed', NEW s \in runners' \ missed', r # s
            PROVE  ~Related(r.ticket, s.ticket)
        <4>1. CASE r = lane \/ s = lane
          <5>1. r.ticket # s.ticket /\ r.ticket \in Tickets /\ s.ticket \in Tickets
            BY <1>2, <2>2, <2>3, <2>6, <3>1, <4>1
          <5> QED
            BY <1>1, <5>1, LanesApart
        <4>2. CASE r # lane /\ s # lane
          BY <2>6, <3>1, <4>2 DEF Fleet, Apart
        <4> QED
          BY <4>1, <4>2
      <3> QED
        BY <1>1, <3>1, ApartKept
    <2>8. IsFiniteSet(Crew') /\ Cardinality(Crew') <= MaxParallel
      <3> DEFINE set == Running \cup {t}
      <3>1. Running \in SUBSET Tickets /\ set \in SUBSET Tickets
        BY <1>2, <2>1 DEF Running
      <3>2. Crew' \in SUBSET Runners /\ \A r \in Crew' : r.life = life /\ r.ticket \in set
        <4>1. ASSUME NEW r \in Crew' PROVE r \in Runners /\ r.life = life /\ r.ticket \in set
          <5>1. r \in runners' /\ r.life = life
            BY <1>1 DEF Crew
          <5>2. r \notin missed
            BY <2>1, <2>4, <5>1
          <5>3. r = lane \/ r \in runners \ missed
            BY <1>4, <5>1, <5>2 DEF lane
          <5> QED
            BY <2>2, <2>3, <5>1, <5>3 DEF Running
        <4> QED
          BY <4>1
      <3>3. /\ IsFiniteSet(Crew') /\ Cardinality(Crew') <= Cardinality(set)
            /\ Cardinality(Crew') \in Nat /\ Cardinality(set) \in Nat
        BY <3>1, <3>2, CrewOf
      <3>4. IsFiniteSet(Running) /\ Cardinality(Running) \in Nat
        BY <3>1, TicketsFinite
      <3>5. Cardinality(set) <= Cardinality(Running) + 1
        BY <3>4, FS_AddElement
      <3>6. MaxParallel \in Nat
        BY WavesAssumption
      <3> HIDE DEF set
      <3> QED
        BY <1>1, <3>3, <3>4, <3>5, <3>6
    <2>9. \A r \in runners' \ missed' : /\ r.life = session'.life /\ r.ticket \in wave'.ran
                                        /\ wave'.ends[r.ticket] = "None"
      <3>1. wave'.ends[t] = "None" /\ \A u \in Tickets \ {t} : wave'.ends[u] = wave.ends[u]
        BY <1>2, <1>4, <2>1
      <3> QED
        BY <1>1, <1>2, <1>4, <2>2, <2>3, <2>6, <3>1
    <2>10. \A u \in wave'.left : u \notin wave'.ran
      BY <1>2, <1>4, <2>5
    <2>11. \A r \in missed' : r.life < session'.life
      BY <1>1, <2>4
    <2> QED
      BY <1>1, <2>7, <2>8, <2>9, <2>10, <2>11 DEF Fleet
  <1> QED
    BY <1>2, <1>3, <1>4

LEMMA FleetBarrier ==
  ASSUME Shape, Fleet, Barrier
  PROVE  Fleet'
  <1>1. /\ UNCHANGED <<roster, missed, session, runners>> /\ pc = "wait" /\ pc' = "pick"
        /\ \A r \in runners : r.life # session.life
    BY DEF Barrier, tickets
  <1>2. runners \subseteq missed
    BY <1>1 DEF Fleet
  <1>3. Apart'
    BY <1>1, ApartShrinks DEF Fleet
  <1>4. IsFiniteSet(Crew') /\ Cardinality(Crew') <= MaxParallel
    BY <1>1, CrewShrinks
  <1> QED
    BY <1>1, <1>2, <1>3, <1>4 DEF Fleet

LEMMA FleetKept ==
  ASSUME Shape, Fleet, [Next]_vars
  PROVE  Fleet'
  <1>1. CASE Reap \/ ReapKill \/ EnterLanes
    BY <1>1, FleetEntry
  <1>2. CASE StartWave
    BY <1>2, FleetStartWave
  <1>3. CASE StartLane
    BY <1>3, FleetStartLane
  <1>4. CASE StopLane
    <2>1. UNCHANGED <<roster, missed, session, pc, runners>> /\ pc = "wait" /\ roster.lanes
      BY <1>4 DEF StopLane, tickets, processes
    <2> QED
      BY <1>4, <2>1, StopLaneWave, FleetSettles
  <1>5. CASE \E t \in Tickets : LaneEnds(t)
    BY <1>5, FleetLaneEnds
  <1>6. CASE Barrier
    BY <1>6, FleetBarrier
  <1>7. CASE Restart
    BY <1>7, FleetRestart
  <1>8. CASE Pick \/ Merge \/ Map \/ WriteBack \/ Release \/ Finish \/ Verdict \/ Crash
    <2>1. UNCHANGED <<roster, missed, session, runners>>
      BY <1>8 DEF Pick, Merge, Map, WriteBack, Release, Finish, Verdict, Crash, tickets, processes
    <2>2. \/ pc' \in Over
          \/ /\ pc \in {"head", "pick", "merge", "map", "write"}
             /\ pc' \in {"head", "pick", "merge", "map", "write"}
      BY <1>8 DEF Pick, Merge, Map, WriteBack, Release, Finish, Verdict, Crash, Over
    <2> QED
      BY <2>1, <2>2, FleetPasses
  <1>9. CASE (\E r \in runners : Boot(r) \/ Commit(r) \/ UnitEnds(r)) \/ Cancel \/ ForeignCommit
             \/ UNCHANGED vars
    <2>1. /\ UNCHANGED <<roster, missed, pc, wave>> /\ runners' \subseteq runners
          /\ UNCHANGED session \/ session' = [session EXCEPT !.active = FALSE]
      BY <1>9 DEF Boot, Commit, UnitEnds, Cancel, ForeignCommit, tickets, processes, vars
    <2>2. UNCHANGED session.life
      BY <2>1 DEF Shape, SessionOK
    <2> QED
      BY <2>1, <2>2, FleetQuiet
  <1>10. CASE CancelLaneRun
    <2>1. UNCHANGED <<roster, missed, session, pc>> /\ runners' \subseteq runners /\ pc = "wait"
      BY <1>10 DEF CancelLaneRun, tickets
    <2>2. KeepsRun(wave', wave) /\ wave'.left = wave.left
      BY <1>10, CancelWave DEF KeepsPlace
    <2> QED
      BY <2>1, <2>2, FleetQuiet
  <1> QED
    BY <1>1, <1>2, <1>3, <1>4, <1>5, <1>6, <1>7, <1>8, <1>9, <1>10 DEF Next, Pipeline

------------------------------------------------------------------------------
(* What a unit depends on is settled, and stays as it was when the unit began. *)

Deps ==
  /\ BuiltOnDependencies
  /\ pc \in {"wait", "pick", "merge", "map"} => wave.members \subseteq Pending
  /\ pc = "write" => wave.left \subseteq Pending

LEMMA InitDeps == Init => Deps
  BY DEF Init, Deps, BuiltOnDependencies

LEMMA PendingOf ==
  ASSUME Shape, NEW t \in Tickets
  PROVE  t \in Pending <=> status[t] \notin {"Done", "Skipped"}
  BY DEF Pending

LEMMA PlanIsReady ==
  ASSUME Shape, Pending # {}, NEW t \in PlanTicketWave(Pending), NEW d \in roster.deps[t]
  PROVE  d \in Tickets /\ status[d] \in {"Done", "Skipped"}
  <1>1. PlanTicketWave(Pending) \in SUBSET Pending /\ t \in Pending /\ t \in Tickets
    BY PendingIs, PlanIs
  <1>2. d \in Tickets /\ d < t
    BY <1>1 DEF Shape, RosterOK
  <1>3. d \notin Pending
    <2>1. CASE PlanTicketWave(Pending) = {Least(Pending)}
      <3>1. t = Least(Pending)
        BY <2>1
      <3>2. \A u \in Pending : t <= u
        BY <3>1, PendingIs, LeastIs
      <3>3. d \in Nat /\ t \in Nat
        BY <1>1, <1>2, TicketsAre
      <3> QED
        BY <1>2, <3>2, <3>3
    <2>2. CASE Together(PlanTicketWave(Pending))
      BY <2>2 DEF Together, ParallelSafe, Waits
    <2> QED
      BY <2>1, <2>2, PendingIs, PlanIs
  <1> QED
    BY <1>2, <1>3, PendingOf

(* A branch that is there was there before, unless a wave has cut it anew. *)
LEMMA BranchStays ==
  ASSUME Shape, [Next]_vars, ~StartWave, ~StartLane, NEW t \in Tickets, branches'[t].there
  PROVE  branches[t].there /\ branches'[t].base = branches[t].base
  <1>1. CASE UNCHANGED branches
    BY <1>1
  <1>2. CASE ReapKill \/ EnterLanes
    <2>1. branches'[t] = NoBranch
      BY <1>2 DEF ReapKill, EnterLanes, Recover
    <2> QED
      BY <2>1, RefFields
  <1>3. CASE Release \/ Verdict
    <2>1. branches'[t] = NoBranch \/ branches'[t] = branches[t]
      BY <1>3, ReleaseIs DEF Release, Verdict
    <2> QED
      BY <2>1, RefFields
  <1>4. CASE \E r \in runners : Commit(r)
    <2>1. PICK r \in runners : Commit(r)
      BY <1>4
    <2> DEFINE s == Append(branches[r.ticket].commits, [ticket |-> r.ticket, n |-> made[r.ticket] + 1])
    <2>2. /\ r.ticket \in trees
          /\ branches' = [branches EXCEPT ![r.ticket] = Branch(branches[r.ticket].base, s)]
      BY <2>1, CommitIs
    <2> HIDE DEF s
    <2>3. branches[r.ticket].there /\ branches \in [Tickets -> Refs]
      BY <2>2 DEF Shape, RepoOK
    <2> QED
      BY <2>2, <2>3 DEF Branch
  <1> QED
    BY <1>1, <1>2, <1>3, <1>4 DEF Next, Pipeline, Reap, CancelLaneRun, Barrier, Pick, Merge, Map,
       WriteBack, Finish, StopLane, LaneEnds, Boot, UnitEnds, Cancel, Crash, Restart, ForeignCommit,
       repository, vars

LEMMA DepsStatus ==
  ASSUME Shape, Deps, [Next]_vars, UNCHANGED <<status, evidence>>
  PROVE  BuiltOnDependencies'
  <1>0. UNCHANGED roster
    BY DEF Next, Pipeline, Reap, ReapKill, StartWave, CancelLaneRun, Barrier, Pick, Merge, Map,
           WriteBack, Release, Finish, EnterLanes, StartLane, StopLane, LaneEnds, Verdict, Boot,
           Commit, UnitEnds, Cancel, Crash, Restart, ForeignCommit, tickets, vars
  <1>1. ASSUME NEW r \in runners', NEW d \in roster.deps[r.ticket]
        PROVE  status[d] \in {"Done", "Skipped"} /\ r.ticket \in Tickets /\ d \in Tickets
    <2>0. r.ticket \in Tickets
      BY ProcsKept, RunnerFields DEF ProcsOK
    <2>1. d \in Tickets /\ ~roster.lanes
      BY <2>0 DEF Shape, RosterOK
    <2>2. CASE r \in runners
      BY <2>0, <2>1, <2>2 DEF Deps, BuiltOnDependencies
    <2>3. CASE r \notin runners
      <3>1. StartWave
        BY <2>1, <2>3 DEF Next, Pipeline, Reap, ReapKill, CancelLaneRun, Barrier, Pick, Merge, Map,
             WriteBack, Release, Finish, EnterLanes, StartLane, StopLane, LaneEnds, Verdict, Boot,
             Commit, UnitEnds, Cancel, Crash, Restart, ForeignCommit, processes, vars
      <3>2. PICK ran \in SUBSET PlanTicketWave(Pending) :
              Pending # {} /\ runners' = runners \cup [ticket : ran, life : {session.life}]
        BY <3>1, StartWaveWave
      <3>3. r.ticket \in PlanTicketWave(Pending)
        BY <2>3, <3>2
      <3> QED
        BY <2>0, <3>2, <3>3, PlanIsReady
    <2> QED
      BY <2>2, <2>3
  <1>2. ASSUME NEW r \in runners', NEW d \in roster.deps[r.ticket], branches'[r.ticket].there
        PROVE  evidence[d] <= branches'[r.ticket].base
    <2> DEFINE t == r.ticket
    <2>0. t \in Tickets /\ d \in Tickets /\ ~roster.lanes /\ evidence[d] <= Len(main)
      BY <1>1, <1>2 DEF Shape, RosterOK, TicketsOK
    <2>1. CASE StartWave
      <3>1. branches'[t] = Branch(Len(main), <<>>) \/ branches'[t] = NoBranch
        BY <2>0, <2>1, StartWaveWave
      <3> QED
        BY <1>2, <2>0, <3>1 DEF Branch, NoBranch
    <2>2. CASE ~StartWave
      <3>1. r \in runners
        BY <2>0, <2>2 DEF Next, Pipeline, Reap, ReapKill, CancelLaneRun, Barrier, Pick, Merge, Map,
             WriteBack, Release, Finish, EnterLanes, StartLane, StopLane, LaneEnds, Verdict, Boot,
             Commit, UnitEnds, Cancel, Crash, Restart, ForeignCommit, processes, vars
      <3>2. branches'[t].base = branches[t].base /\ branches[t].there
        BY <1>2, <2>0, <2>2, BranchStays DEF StartLane
      <3> QED
        BY <1>2, <3>1, <3>2 DEF Deps, BuiltOnDependencies
    <2> QED
      BY <2>1, <2>2
  <1> QED
    BY <1>0, <1>1, <1>2 DEF BuiltOnDependencies

LEMMA DepsKept ==
  ASSUME Shape, Deps, [Next]_vars
  PROVE  Deps'
  <1>1. CASE WriteBack
    <2> DEFINE t == Least(wave.left)
    <2>1. /\ t \in wave.left /\ t \in Tickets
          /\ wave'.left \subseteq wave.left
          /\ \/ UNCHANGED <<status, evidence>> /\ wave'.left = wave.left \ {t}
             \/ UNCHANGED status /\ evidence' = [evidence EXCEPT ![t] = wave.sha[t]]
             \/ /\ UNCHANGED evidence /\ status' = [status EXCEPT ![t] = wave.wanted[t]]
                /\ wave'.left = wave.left \ {t}
      BY <1>1, WriteBackWave
    <2> HIDE DEF t
    <2>2. UNCHANGED <<roster, runners, branches, pc>> /\ pc = "write"
      BY <1>1 DEF WriteBack, repository, processes
    <2>3. t \in Pending /\ status[t] \notin {"Done", "Skipped"}
      BY <2>1, <2>2, PendingOf DEF Deps
    <2>4. \A u \in Tickets \ {t} : status'[u] = status[u] /\ evidence'[u] = evidence[u]
      BY <2>1 DEF Shape, TicketsOK
    <2>5. BuiltOnDependencies'
      <3>1. ASSUME NEW r \in runners, NEW d \in roster.deps[r.ticket]
            PROVE  /\ status'[d] \in {"Done", "Skipped"}
                   /\ branches[r.ticket].there => evidence'[d] <= branches[r.ticket].base
        <4>1. r.ticket \in Tickets /\ d \in Tickets
          BY RunnerFields DEF Shape, ProcsOK, RosterOK
        <4>2. status[d] \in {"Done", "Skipped"}
          BY DEF Deps, BuiltOnDependencies
        <4>3. status'[d] = status[d] /\ evidence'[d] = evidence[d]
          BY <2>3, <2>4, <4>1, <4>2
        <4> QED
          BY <4>2, <4>3 DEF Deps, BuiltOnDependencies
      <3> QED
        BY <2>2, <3>1 DEF BuiltOnDependencies
    <2>6. wave'.left \subseteq Pending'
      <3>1. ASSUME NEW u \in wave'.left PROVE u \in Tickets /\ status'[u] \notin {"Done", "Skipped"}
        <4>1. u \in Pending /\ u \in Tickets /\ status[u] \notin {"Done", "Skipped"}
          BY <2>1, <2>2, PendingOf, PendingIs DEF Deps
        <4>2. status'[u] = status[u]
          BY <2>1, <2>4, <4>1
        <4> QED
          BY <4>1, <4>2
      <3> QED
        BY <3>1 DEF Pending
    <2> QED
      BY <2>2, <2>5, <2>6 DEF Deps
  <1>2. CASE ~WriteBack
    <2>1. UNCHANGED <<status, evidence>>
      BY <1>2 DEF Next, Pipeline, Reap, ReapKill, StartWave, CancelLaneRun, Barrier, Pick, Merge, Map,
             Release, Finish, EnterLanes, StartLane, StopLane, LaneEnds, Verdict, Boot,
             Commit, UnitEnds, Cancel, Crash, Restart, ForeignCommit, tickets, vars
    <2>2. BuiltOnDependencies'
      BY <2>1, DepsStatus
    <2>3. Pending' = Pending
      BY <2>1 DEF Pending
    <2>4. pc' \in {"wait", "pick", "merge", "map"} => wave'.members \subseteq Pending
      <3>1. CASE EnterLanes
        BY <3>1, EnterLanesWave
      <3>2. CASE StartWave
        BY <3>2, StartWaveWave
      <3>3. CASE KeepsPlan(wave', wave) /\ pc \in {"wait", "pick", "merge", "map"}
        BY <3>3 DEF KeepsPlan, Deps
      <3>4. CASE UNCHANGED <<wave, pc>>
        BY <3>4 DEF Deps
      <3>5. CASE pc' \notin {"wait", "pick", "merge", "map"}
        BY <3>5
      <3>6. \/ StartLane \/ StopLane \/ (\E t \in Tickets : LaneEnds(t)) \/ CancelLaneRun
              \/ Barrier \/ Pick \/ Merge
            => KeepsPlan(wave', wave)
        BY StartLaneWave, StopLaneWave, LaneEndsWave, CancelWave, BarrierWave, PickWave, MergeWave
      <3>7. \/ EnterLanes \/ StartWave \/ UNCHANGED <<wave, pc>>
            \/ pc' \notin {"wait", "pick", "merge", "map"}
            \/ /\ \/ StartLane \/ StopLane \/ (\E t \in Tickets : LaneEnds(t)) \/ CancelLaneRun
                  \/ Barrier \/ Pick \/ Merge
               /\ pc \in {"wait", "pick", "merge", "map"}
        BY <1>2 DEF Next, Pipeline, Reap, ReapKill, CancelLaneRun, Barrier, Pick, Merge, Map,
             Release, Finish, StartLane, StopLane, LaneEnds, Verdict, Boot,
             Commit, UnitEnds, Cancel, Crash, Restart, ForeignCommit, vars, Over
      <3> QED
        BY <3>1, <3>2, <3>3, <3>4, <3>5, <3>6, <3>7
    <2>5. pc' = "write" => wave'.left \subseteq Pending
      <3>1. CASE Map
        BY <3>1, MapWave DEF Deps, Map
      <3>2. CASE UNCHANGED <<wave, pc>>
        BY <3>2 DEF Deps
      <3>3. Map \/ UNCHANGED <<wave, pc>> \/ pc' # "write"
        BY <1>2 DEF Next, Pipeline, Reap, ReapKill, CancelLaneRun, Barrier, Pick, Merge, StartWave,
             Release, Finish, StartLane, StopLane, LaneEnds, Verdict, Boot, EnterLanes,
             Commit, UnitEnds, Cancel, Crash, Restart, ForeignCommit, vars, Over
      <3> QED
        BY <3>1, <3>2, <3>3
    <2> QED
      BY <2>2, <2>3, <2>4, <2>5 DEF Deps
  <1> QED
    BY <1>1, <1>2

------------------------------------------------------------------------------
(* Where the commits of the agents are. *)

Work ==
  /\ NoWorkIsLost
  /\ pc = "wait" /\ roster.lanes => \A t \in wave.left : t \notin trees /\ branches[t].commits = <<>>

LEMMA ElementsOfLonger ==
  ASSUME NEW T, NEW s \in Seq(T), NEW x \in T
  PROVE  Elements(Append(s, x)) = Elements(s) \cup {x}
  <1>1. /\ Append(s, x) \in Seq(T) /\ Len(Append(s, x)) = Len(s) + 1 /\ Len(s) \in Nat
        /\ \A i \in 1..Len(s) : Append(s, x)[i] = s[i]
        /\ Append(s, x)[Len(s) + 1] = x
    BY LongerIs
  <1> DEFINE r == Append(s, x)
  <1>2. Elements(r) = {r[i] : i \in 1..Len(s)+1} /\ Elements(s) = {s[i] : i \in 1..Len(s)}
    <2>1. r \in Seq(T) /\ Len(r) = Len(s) + 1
      BY <1>1
    <2> HIDE DEF r
    <2>2. Elements(r) = {r[i] : i \in 1..Len(r)}
      BY <2>1, ElementsAre
    <2> QED
      BY <2>1, <2>2, ElementsAre
  <1>3. \A i \in 1..Len(s) : r[i] = s[i]
    BY <1>1
  <1>4. r[Len(s) + 1] = x
    BY <1>1
  <1> HIDE DEF r
  <1>5. 1..Len(s)+1 = (1..Len(s)) \cup {Len(s) + 1}
    BY <1>1
  <1>6. Elements(r) = Elements(s) \cup {x}
    BY <1>2, <1>3, <1>4, <1>5
  <1> QED
    BY <1>6 DEF r

LEMMA MainElements ==
  ASSUME Shape, [Next]_vars
  PROVE  Elements(main) \subseteq Elements(main')
  <1>1. /\ main \in Seq(Commits \cup {Foreign}) /\ main' \in Seq(Commits \cup {Foreign})
        /\ Len(main) \in Nat /\ Len(main') \in Nat /\ Len(main) <= Len(main')
        /\ \A i \in 1..Len(main) : main'[i] = main[i]
    BY MainGrows DEF Shape, RepoOK
  <1>2. /\ Elements(main) = {main[i] : i \in 1..Len(main)}
        /\ Elements(main') = {main'[i] : i \in 1..Len(main')}
    BY <1>1, ElementsAre
  <1>3. 1..Len(main) \subseteq 1..Len(main')
    BY <1>1
  <1> QED
    BY <1>1, <1>2, <1>3

LEMMA InitWork == Init => Work
  <1> SUFFICES ASSUME Init PROVE Work
    OBVIOUS
  <1>1. \A t \in Tickets : made[t] = 0
    BY DEF Init
  <1>2. NoWorkIsLost
    BY <1>1 DEF NoWorkIsLost
  <1> QED
    BY <1>2 DEF Work, Init

LEMMA AsideGrows ==
  ASSUME [Next]_vars
  PROVE  aside \subseteq aside'
  BY DEF Next, Pipeline, Reap, ReapKill, StartWave, CancelLaneRun, Barrier, Pick, Merge, Map,
         WriteBack, Release, Finish, EnterLanes, StartLane, StopLane, LaneEnds, Verdict, Boot,
         Commit, UnitEnds, Cancel, Crash, Restart, ForeignCommit, repository, vars, Recover, Kept

(* What is on the branch of a unit is there after a step, or safe elsewhere. *)
LEMMA BranchWork ==
  ASSUME Shape, Work, [Next]_vars, NEW t \in Tickets, NEW c \in Elements(branches[t].commits)
  PROVE  \/ c \in Elements(main') \/ c \in Elements(branches'[t].commits)
         \/ \E b \in aside' : c \in Elements(b)
  <1> DEFINE old == branches[t].commits
  <1>1. old \in Seq(Commits)
    BY RefsOfBranches
  <1>2. old # <<>>
    BY <1>1, ElementsAre
  <1>3. CASE aside' = Kept
    <2>1. old \in Unreached \ {<<>>}
      BY <1>2 DEF Unreached
    <2> QED
      BY <1>3, <2>1 DEF Kept
  <1>4. CASE UNCHANGED branches
    BY <1>4
  <1>5. CASE StartLane
    <2> DEFINE u == Least(wave.left)
    <2>1. /\ u \in wave.left /\ u \in Tickets
          /\ UNCHANGED branches \/ branches' = [branches EXCEPT ![u] = Branch(wave.base, <<>>)]
      BY <1>5, StartLaneWave
    <2>2. pc = "wait" /\ roster.lanes
      BY <1>5 DEF StartLane
    <2>3. branches[u].commits = <<>>
      BY <2>1, <2>2 DEF Work
    <2> HIDE DEF u
    <2>4. u # t
      BY <1>2, <2>3
    <2> QED
      BY <2>1, <2>4, RefsOfBranches
  <1>6. CASE \E r \in runners : Commit(r)
    <2>1. PICK r \in runners : Commit(r)
      BY <1>6
    <2> DEFINE x == [ticket |-> r.ticket, n |-> made[r.ticket] + 1]
    <2>2. /\ r.ticket \in Tickets /\ x \in Commits
          /\ branches' = [branches EXCEPT ![r.ticket] =
                Branch(branches[r.ticket].base, Append(branches[r.ticket].commits, x))]
      BY <2>1, CommitIs
    <2> HIDE DEF x
    <2>3. CASE r.ticket = t
      <3> DEFINE new == Append(old, x)
      <3>1. branches'[t] = Branch(branches[t].base, new)
        BY <2>2, <2>3, RefsOfBranches
      <3>2. Elements(new) = Elements(old) \cup {x}
        BY <1>1, <2>2, ElementsOfLonger
      <3> HIDE DEF new
      <3>3. branches'[t].commits = new
        BY <3>1 DEF Branch
      <3> QED
        BY <3>2, <3>3
    <2>4. CASE r.ticket # t
      BY <2>2, <2>4, RefsOfBranches
    <2> QED
      BY <2>3, <2>4
  <1>7. CASE Release \/ Verdict
    <2>1. branches'[t] = branches[t] \/ Released(t)
      BY <1>7, ReleaseIs DEF Release, Verdict
    <2>2. Released(t) => Elements(old) \subseteq Elements(main)
      BY <1>2 DEF Released
    <2> QED
      BY <2>1, <2>2, MainElements
  <1>8. \/ aside' = Kept \/ UNCHANGED branches \/ StartLane \/ Release \/ Verdict
        \/ \E r \in runners : Commit(r)
    BY DEF Next, Pipeline, Reap, ReapKill, EnterLanes, StartWave, CancelLaneRun, Barrier, Pick, Merge,
       Map, WriteBack, Finish, StopLane, LaneEnds, Boot, UnitEnds, Cancel, Crash, Restart,
       ForeignCommit, Recover, repository, vars
  <1> QED
    BY <1>3, <1>4, <1>5, <1>6, <1>7, <1>8

LEMMA WorkKept ==
  ASSUME Shape, Work, [Next]_vars
  PROVE  Work'
  <1>1. ASSUME NEW t \in Tickets, NEW n \in 1..made'[t]
        PROVE  LET c == [ticket |-> t, n |-> n] IN
                 \/ c \in Elements(main') \/ c \in Elements(branches'[t].commits)
                 \/ \E b \in aside' : c \in Elements(b)
    <2> DEFINE c == [ticket |-> t, n |-> n]
    <2>1. CASE n \in 1..made[t]
      <3>1. \/ c \in Elements(main) \/ c \in Elements(branches[t].commits)
            \/ \E b \in aside : c \in Elements(b)
        BY <2>1 DEF Work, NoWorkIsLost
      <3> HIDE DEF c
      <3>2. \/ c \in Elements(main') \/ c \in Elements(branches'[t].commits)
            \/ \E b \in aside' : c \in Elements(b)
        BY <3>1, MainElements, AsideGrows, BranchWork
      <3> QED
        BY <3>2 DEF c
    <2>2. CASE n \notin 1..made[t]
      <3>1. \E r \in runners : Commit(r)
        <4>1. made' # made
          BY <2>2
        <4> QED
          BY <4>1 DEF Next, Pipeline, Reap, ReapKill, StartWave, CancelLaneRun, Barrier, Pick, Merge,
             Map, WriteBack, Release, Finish, EnterLanes, StartLane, StopLane, LaneEnds, Verdict, Boot,
             UnitEnds, Cancel, Crash, Restart, ForeignCommit, processes, vars
      <3>2. PICK r \in runners : Commit(r)
        BY <3>1
      <3> DEFINE x == [ticket |-> r.ticket, n |-> made[r.ticket] + 1]
                 new == Append(branches[r.ticket].commits, x)
      <3>3. /\ r.ticket \in Tickets /\ x \in Commits /\ made[r.ticket] \in Nat
            /\ made' = [made EXCEPT ![r.ticket] = @ + 1]
            /\ branches' = [branches EXCEPT ![r.ticket] = Branch(branches[r.ticket].base, new)]
        BY <3>2, CommitIs
      <3>4. Elements(new) = Elements(branches[r.ticket].commits) \cup {x}
        BY <3>3, RefsOfBranches, ElementsOfLonger
      <3> HIDE DEF x, new
      <3>5. made \in [Tickets -> Nat]
        BY DEF Shape, ProcsOK
      <3>6. r.ticket = t /\ n = made[t] + 1
        BY <2>2, <3>3, <3>5
      <3>7. branches'[t].commits = new
        <4>1. branches'[t] = Branch(branches[t].base, new)
          BY <3>3, <3>6, RefsOfBranches
        <4> QED
          BY <4>1 DEF Branch
      <3>8. c = x
        BY <3>6 DEF x
      <3> QED
        BY <3>4, <3>7, <3>8
    <2> QED
      BY <2>1, <2>2
  <1>2. NoWorkIsLost'
    BY <1>1 DEF NoWorkIsLost
  <1>3. ASSUME pc' = "wait", roster'.lanes, NEW t \in wave'.left
        PROVE  t \notin trees' /\ branches'[t].commits = <<>>
    <2>0. UNCHANGED roster
      BY DEF Next, Pipeline, Reap, ReapKill, StartWave, CancelLaneRun, Barrier, Pick, Merge, Map,
             WriteBack, Release, Finish, EnterLanes, StartLane, StopLane, LaneEnds, Verdict, Boot,
             Commit, UnitEnds, Cancel, Crash, Restart, ForeignCommit, tickets, vars
    <2>1. CASE EnterLanes
      <3>1. trees' = {} /\ branches' = [u \in Tickets |-> NoBranch] /\ wave'.left = Pending
        BY <2>1, EnterLanesWave DEF EnterLanes, Recover
      <3>2. t \in Tickets
        BY <1>3, <3>1, PendingIs
      <3> QED
        BY <3>1, <3>2, RefFields
    <2>2. CASE StartWave
      BY <1>3, <2>2, StartWaveWave
    <2>3. CASE StartLane
      <3> DEFINE u == Least(wave.left)
      <3>1. /\ u \in wave.left /\ u \in Tickets /\ wave'.left = wave.left \ {u}
            /\ \/ UNCHANGED <<branches, trees>>
               \/ /\ branches' = [branches EXCEPT ![u] = Branch(wave.base, <<>>)]
                  /\ trees' = trees \cup {u}
        BY <2>3, StartLaneWave
      <3>2. pc = "wait" /\ roster.lanes /\ wave.left \subseteq Tickets
        BY <2>3, WaveFields DEF StartLane, Shape, WaveOK
      <3> HIDE DEF u
      <3>3. t \in wave.left /\ t # u /\ t \in Tickets
        BY <1>3, <3>1, <3>2
      <3>4. t \notin trees /\ branches[t].commits = <<>>
        BY <3>2, <3>3 DEF Work
      <3> QED
        BY <3>1, <3>3, <3>4, RefsOfBranches
    <2>4. CASE StopLane \/ (\E u \in Tickets : LaneEnds(u)) \/ CancelLaneRun
      <3>1. UNCHANGED <<branches, trees, pc>>
        BY <2>4 DEF StopLane, LaneEnds, CancelLaneRun, repository
      <3>2. wave'.left \subseteq wave.left
        BY <2>4, StopLaneWave, LaneEndsWave, CancelWave DEF KeepsPlace
      <3> QED
        BY <1>3, <2>0, <3>1, <3>2 DEF Work
    <2>5. CASE \E r \in runners : Commit(r)
      <3>1. PICK r \in runners : Commit(r)
        BY <2>5
      <3>2. r.ticket \in trees /\ UNCHANGED <<trees, pc, wave>>
        BY <3>1 DEF Commit
      <3>3. \E b : branches' = [branches EXCEPT ![r.ticket] = b]
        BY <3>1, CommitIs
      <3>4. t \notin trees /\ branches[t].commits = <<>> /\ t \in Tickets
        BY <1>3, <2>0, <3>2, WaveFields DEF Work, Shape, WaveOK
      <3> QED
        BY <3>2, <3>3, <3>4, RefsOfBranches
    <2>6. CASE UNCHANGED <<branches, trees, pc, wave>>
      BY <1>3, <2>0, <2>6 DEF Work
    <2>7. \/ EnterLanes \/ StartWave \/ StartLane \/ StopLane \/ (\E u \in Tickets : LaneEnds(u))
          \/ CancelLaneRun \/ (\E r \in runners : Commit(r)) \/ UNCHANGED <<branches, trees, pc, wave>>
      BY <1>3 DEF Next, Pipeline, Reap, ReapKill, Barrier, Pick, Merge, Map, WriteBack, Release,
         Finish, Verdict, Boot, UnitEnds, Cancel, Crash, Restart, ForeignCommit, repository, vars, Over
    <2> QED
      BY <2>1, <2>2, <2>3, <2>4, <2>5, <2>6, <2>7
  <1> QED
    BY <1>2, <1>3 DEF Work

------------------------------------------------------------------------------
(* The evidence: what is picked, merged and mapped, and the last commit of each *)
(* member.                                                                      *)

(* The last commit of t on a branch is its n-th. *)
Last(branch, n, t) ==
  /\ n \in 1..Len(branch) /\ branch[n].ticket = t
  /\ \A i \in n+1..Len(branch) : branch[i].ticket # t

Joined == CommitsOf(wave.commits, Carried)

Evidence ==
  /\ \A t \in Tickets : status[t] = "Done" => Last(main, evidence[t], t)
  /\ pc \in {"merge", "map"} => Carried \subseteq wave.members
  /\ pc = "merge" => picks.commits = Joined
  /\ pc = "map" /\ Carried # {} =>
       /\ wave.base + Len(Joined) <= Len(main)
       /\ \A i \in 1..Len(Joined) : main[wave.base + i] = Joined[i]
  /\ pc = "write" => \A t \in wave.left :
       /\ wave.wanted[t] = "Done" => wave.sha[t] # None
       /\ wave.sha[t] # None => Last(main, wave.sha[t], t)
  /\ wave.cited => /\ pc = "write" /\ wave.left # {}
                   /\ evidence[Least(wave.left)] = wave.sha[Least(wave.left)]

LEMMA EvidenceIs == Evidence => DoneHasItsEvidence
  BY DEF Evidence, DoneHasItsEvidence, Last, None

LEMMA InitEvidence == Init => Evidence
  <1> SUFFICES ASSUME Init PROVE Evidence
    OBVIOUS
  <1>1. wave = NoWave(FALSE) /\ pc = "entry" /\ \A t \in Tickets : status[t] # "Done"
    BY DEF Init
  <1>2. ~wave.cited
    BY <1>1, NoWaveIs DEF Blank
  <1> QED
    BY <1>1, <1>2 DEF Evidence

LEMMA LastStays ==
  ASSUME Shape, [Next]_vars, NEW t, NEW n, Last(main, n, t),
         \A i \in Len(main)+1..Len(main') : main'[i].ticket # t
  PROVE  Last(main', n, t)
  <1>1. /\ Len(main) \in Nat /\ Len(main') \in Nat /\ Len(main) <= Len(main')
        /\ \A i \in 1..Len(main) : main'[i] = main[i]
    BY MainGrows
  <1>2. n \in 1..Len(main) /\ main[n].ticket = t /\ \A i \in n+1..Len(main) : main[i].ticket # t
    BY DEF Last
  <1>3. n \in 1..Len(main') /\ main'[n].ticket = t
    BY <1>1, <1>2
  <1>4. ASSUME NEW i \in n+1..Len(main') PROVE main'[i].ticket # t
    <2>1. CASE i <= Len(main)
      <3>1. i \in n+1..Len(main) /\ i \in 1..Len(main)
        BY <1>1, <1>2, <2>1
      <3> QED
        BY <1>1, <1>2, <3>1
    <2>2. CASE i > Len(main)
      <3>1. i \in Len(main)+1..Len(main')
        BY <1>1, <1>2, <2>2
      <3> QED
        BY <3>1
    <2> QED
      BY <1>1, <1>2, <2>1, <2>2
  <1> QED
    BY <1>3, <1>4 DEF Last

LEMMA JoinedIs ==
  ASSUME Shape
  PROVE  /\ wave.commits \in [Tickets -> Seq(Commits)] /\ Own(wave.commits)
         /\ Joined \in Seq(Commits) /\ Len(Joined) \in Nat
         /\ \A i \in 1..Len(Joined) : Joined[i].ticket \in Carried
  <1>1. wave.commits \in [Tickets -> Seq(Commits)] /\ Own(wave.commits)
    BY WaveFields DEF Shape, WaveOK
  <1> QED
    BY <1>1, CommitsOfTickets, CommitsOfType DEF Joined

(* A foreign commit is nobody's. *)
LEMMA ForeignIsNobodys ==
  ASSUME Shape, ForeignCommit
  PROVE  \A t \in Tickets : \A i \in Len(main)+1..Len(main') : main'[i].ticket # t
  <1>1. main \in Seq(Commits \cup {Foreign}) /\ Foreign \in Commits \cup {Foreign}
    BY DEF Shape, RepoOK
  <1>2. main' = Append(main, Foreign)
    BY DEF ForeignCommit
  <1>3. Len(main') = Len(main) + 1 /\ main'[Len(main) + 1] = Foreign /\ Len(main) \in Nat
    BY <1>1, <1>2, LongerIs
  <1>4. \A i \in Len(main)+1..Len(main') : i = Len(main) + 1
    BY <1>3
  <1>5. Foreign.ticket = None
    BY DEF Foreign
  <1> QED
    BY <1>3, <1>4, <1>5, TicketsAre

(* What the merge adds belongs to members, which are pending. *)
LEMMA MergeAdds ==
  ASSUME Shape, Deps, Evidence, Merge, main' = main \o picks.commits
  PROVE  /\ Len(main') = Len(main) + Len(Joined)
         /\ \A i \in 1..Len(Joined) : main'[Len(main) + i] = Joined[i]
         /\ \A t \in Tickets : status[t] = "Done" =>
              \A i \in Len(main)+1..Len(main') : main'[i].ticket # t
  <1>1. pc = "merge" /\ picks.commits = Joined /\ Carried \subseteq Pending
    BY DEF Merge, Evidence, Deps
  <1> DEFINE T == Commits \cup {Foreign}
  <1>2. main \in Seq(T) /\ Joined \in Seq(T)
    BY JoinedIs, WiderIs DEF Shape, RepoOK
  <1>3. main' = main \o Joined
    BY <1>1
  <1>4. /\ Len(main') = Len(main) + Len(Joined) /\ Len(main) \in Nat /\ Len(Joined) \in Nat
        /\ \A i \in 1..Len(Joined) : main'[Len(main) + i] = Joined[i]
        /\ \A i \in Len(main)+1..Len(main)+Len(Joined) : main'[i] = Joined[i - Len(main)]
    <2> HIDE DEF T
    <2> QED
      BY <1>2, <1>3, JoinOne
  <1>5. ASSUME NEW t \in Tickets, status[t] = "Done", NEW i \in Len(main)+1..Len(main')
        PROVE  main'[i].ticket # t
    <2>1. i - Len(main) \in 1..Len(Joined) /\ main'[i] = Joined[i - Len(main)]
      BY <1>4
    <2>2. main'[i].ticket \in Carried
      BY <2>1, JoinedIs
    <2>3. t \notin Pending
      BY <1>5, PendingOf
    <2> QED
      BY <1>1, <2>2, <2>3
  <1> QED
    BY <1>4, <1>5

LEMMA EvidenceMerge ==
  ASSUME Shape, Deps, Evidence, Merge, [Next]_vars
  PROVE  Evidence'
  <1>1. pc = "merge" /\ pc' = "map" /\ UNCHANGED <<status, evidence>>
    BY DEF Merge, tickets
  <1>2. /\ KeepsPlan(wave', wave) /\ KeepsPlace(wave', wave) /\ wave'.commits = wave.commits
    BY MergeWave
  <1>3. ~wave'.cited
    BY <1>1, <1>2 DEF Evidence, KeepsPlace
  <1>4. Carried \subseteq wave.members /\ wave'.members = wave.members /\ wave'.base = wave.base
    BY <1>1, <1>2 DEF Evidence, KeepsPlan
  <1>5. CASE /\ Carried = {} \/ Len(main) = wave.base
             /\ main' = main \o picks.commits /\ wave'.outcome = wave.outcome
    <2>1. Carried' = Carried /\ Joined' = Joined
      BY <1>2, <1>5 DEF Carried, Joined
    <2>2. ASSUME Carried # {}
          PROVE  /\ wave'.base + Len(Joined) <= Len(main')
                 /\ \A i \in 1..Len(Joined) : main'[wave'.base + i] = Joined[i]
      <3>1. wave'.base = Len(main) /\ Len(main') = Len(main) + Len(Joined)
            /\ Len(main) \in Nat /\ Len(Joined) \in Nat
        BY <1>4, <1>5, <2>2, MergeAdds, JoinedIs, MainGrows
      <3> QED
        BY <1>5, <3>1, MergeAdds, SMTT(30)
    <2>3. \A t \in Tickets : status[t] = "Done" => Last(main', evidence[t], t)
      BY <1>5, MergeAdds, LastStays DEF Evidence
    <2> QED
      BY <1>1, <1>3, <1>4, <2>1, <2>2, <2>3 DEF Evidence
  <1>6. CASE /\ Carried # {} /\ UNCHANGED main
             /\ \A t \in Tickets : t \in Carried => wave'.outcome[t] = "integration_ff_failed"
             /\ \A t \in Tickets : t \notin Carried => wave'.outcome[t] = wave.outcome[t]
    <2>1. Carried' = {}
      BY <1>2, <1>6 DEF Carried
    <2>2. \A t \in Tickets : status[t] = "Done" => Last(main, evidence[t], t)
      BY DEF Evidence
    <2> QED
      BY <1>1, <1>3, <1>6, <2>1, <2>2 DEF Evidence
  <1> QED
    BY <1>5, <1>6, MergeWave

LEMMA EvidenceMap ==
  ASSUME Shape, Evidence, Map
  PROVE  Evidence'
  <1>1. pc = "map" /\ pc' = "write" /\ UNCHANGED <<status, evidence, main>>
    BY DEF Map, tickets, repository
  <1>2. /\ wave'.cited = wave.cited /\ wave'.left = wave.members
        /\ \A t \in Tickets : /\ wave'.sha[t] \in {None, IntegratedSha(t)}
                              /\ wave'.wanted[t] = "Done" => wave'.sha[t] # None
    BY MapWave
  <1>3. ~wave'.cited /\ wave.members \in SUBSET Tickets
    BY <1>1, <1>2, WaveFields DEF Evidence, Shape, WaveOK
  <1>4. ASSUME NEW t \in Tickets, IntegratedSha(t) # None
        PROVE  Last(main, IntegratedSha(t), t)
    <2> DEFINE last == EndOf(wave.commits, Carried, t)
               base == wave.base
    <2>1. /\ t \in Carried /\ Len(main) - base = Len(Joined) /\ IntegratedSha(t) = base + last
      BY <1>4, ShaIs DEF Joined
    <2>2. base \in Nat /\ Len(main) \in Nat /\ Len(Joined) \in Nat
      <3>1. Len(main) \in Nat
        BY DEF Shape, RepoOK
      <3> QED
        BY <3>1, JoinedIs, WaveFields DEF Shape, WaveOK
    <2>3. \A i \in 1..Len(Joined) : main[base + i] = Joined[i]
      BY <1>1, <2>1 DEF Evidence
    <2>4. /\ last \in 1..Len(Joined) /\ Joined[last].ticket = t
          /\ \A i \in last+1..Len(Joined) : Joined[i].ticket # t
      <3>1. wave.commits[t] # <<>> /\ t \in Carried
        BY <2>1 DEF Carried
      <3>2. wave.commits \in [Tickets -> Seq(Commits)] /\ Own(wave.commits)
        BY <2>1, JoinedIs
      <3>3. /\ last \in 1..Len(CommitsOf(wave.commits, Carried))
            /\ CommitsOf(wave.commits, Carried)[last].ticket = t
            /\ \A i \in last+1..Len(CommitsOf(wave.commits, Carried)) :
                 CommitsOf(wave.commits, Carried)[i].ticket # t
        BY <3>1, <3>2, CommitsOfLast
      <3> QED
        BY <3>3 DEF Joined
    <2> HIDE DEF last, base
    <2>5. base + last \in 1..Len(main) /\ main[base + last].ticket = t
      BY <2>1, <2>2, <2>3, <2>4
    <2>6. ASSUME NEW i \in (base + last)+1..Len(main) PROVE main[i].ticket # t
      <3>1. i - base \in last+1..Len(Joined) /\ i - base \in 1..Len(Joined) /\ base + (i - base) = i
        BY <2>1, <2>2, <2>4
      <3>2. main[i] = Joined[i - base]
        BY <2>3, <3>1
      <3> QED
        BY <2>4, <3>1, <3>2
    <2> QED
      BY <2>1, <2>5, <2>6 DEF Last
  <1>5. \A t \in wave'.left :
          /\ wave'.wanted[t] = "Done" => wave'.sha[t] # None
          /\ wave'.sha[t] # None => Last(main, wave'.sha[t], t)
    BY <1>2, <1>3, <1>4
  <1> QED
    BY <1>1, <1>3, <1>5 DEF Evidence

LEMMA EvidenceWrite ==
  ASSUME Shape, Deps, Evidence, WriteBack
  PROVE  Evidence'
  <1> DEFINE t == Least(wave.left)
  <1>1. pc = "write" /\ pc' = "write" /\ UNCHANGED main
    BY DEF WriteBack, repository
  <1>2. /\ t \in wave.left /\ t \in Tickets
        /\ KeepsWanted(wave', wave) /\ KeepsPlan(wave', wave) /\ KeepsPicks(wave', wave)
        /\ \/ /\ wave'.left = wave.left \ {t} /\ ~wave'.cited
              /\ UNCHANGED <<status, evidence>>
           \/ /\ wave'.left = wave.left /\ wave'.cited /\ UNCHANGED status
              /\ evidence' = [evidence EXCEPT ![t] = wave.sha[t]]
           \/ /\ wave'.left = wave.left \ {t} /\ ~wave'.cited /\ UNCHANGED evidence
              /\ wave.sha[t] = None \/ wave.cited
              /\ status' = [status EXCEPT ![t] = wave.wanted[t]]
    BY WriteBackWave
  <1>3. status[t] # "Done"
    BY <1>1, <1>2, PendingOf DEF Deps
  <1>4. wave.cited => evidence[t] = wave.sha[t]
    BY DEF Evidence
  <1>5. wave'.cited => wave'.left # {} /\ evidence'[Least(wave'.left)] = wave'.sha[Least(wave'.left)]
    <2>1. CASE ~wave'.cited
      BY <2>1
    <2>2. CASE wave'.left = wave.left /\ evidence' = [evidence EXCEPT ![t] = wave.sha[t]]
      <3>1. evidence'[t] = wave.sha[t] /\ Least(wave'.left) = t
        BY <1>2, <2>2 DEF Shape, TicketsOK
      <3>2. wave'.sha = wave.sha
        BY <1>2 DEF KeepsWanted
      <3> QED
        BY <1>2, <2>2, <3>1, <3>2
    <2> QED
      BY <1>2, <2>1, <2>2
  <1> HIDE DEF t
  <1>6. /\ status \in [Tickets -> Statuses] /\ evidence \in [Tickets -> Nat]
        /\ \A u \in Tickets : status[u] = "Done" => Last(main, evidence[u], u)
        /\ wave.wanted[t] = "Done" => wave.sha[t] # None
        /\ wave.sha[t] # None => Last(main, wave.sha[t], t)
    BY <1>1, <1>2 DEF Evidence, Shape, TicketsOK
  <1>7. ASSUME NEW u \in Tickets, status'[u] = "Done"
        PROVE  Last(main, evidence'[u], u)
    <2>1. CASE u # t
      <3>1. status'[u] = status[u] /\ evidence'[u] = evidence[u]
        BY <1>2, <1>6, <2>1
      <3> QED
        BY <1>6, <1>7, <3>1
    <2>2. CASE u = t
      <3>1. /\ UNCHANGED evidence
            /\ wave.sha[t] = None \/ wave.cited
            /\ status' = [status EXCEPT ![t] = wave.wanted[t]]
        BY <1>2, <1>3, <1>7, <2>2
      <3>2. wave.wanted[t] = "Done"
        BY <1>6, <1>7, <2>2, <3>1
      <3> QED
        BY <1>4, <1>6, <2>2, <3>1, <3>2
    <2> QED
      BY <2>1, <2>2
  <1>8. /\ wave'.left \subseteq wave.left
        /\ wave'.sha = wave.sha /\ wave'.wanted = wave.wanted
    BY <1>2 DEF KeepsWanted
  <1>9. \A u \in wave'.left :
          /\ wave'.wanted[u] = "Done" => wave'.sha[u] # None
          /\ wave'.sha[u] # None => Last(main, wave'.sha[u], u)
    BY <1>1, <1>8 DEF Evidence
  <1> QED
    BY <1>1, <1>5, <1>7, <1>9 DEF Evidence

LEMMA NobodysCommits ==
  ASSUME NEW c \in [Tickets -> Seq(Commits)]
  PROVE  CommitsOf(c, {}) = <<>>
  <1> DEFINE U == UpTo(c, {})
             S == {n \in 0..NumTickets : U[n] = <<>>}
  <1>1. /\ NumTickets \in Nat /\ U[0] = <<>> /\ CommitsOf(c, {}) = U[NumTickets]
        /\ \A n \in 1..NumTickets : U[n] = U[n - 1] \o Part(c, {}, n)
    BY TicketsAre, UpToSteps
  <1> HIDE DEF U
  <1>2. 0 \in S
    BY <1>1
  <1>3. ASSUME NEW n \in 0..NumTickets-1, n \in S PROVE n + 1 \in S
    <2>1. n + 1 \in 1..NumTickets /\ (n + 1) - 1 = n /\ n + 1 \in 0..NumTickets
      BY <1>1
    <2>2. U[n + 1] = <<>> \o <<>>
      BY <1>1, <1>3, <2>1 DEF Part
    <2> QED
      BY <2>1, <2>2
  <1> HIDE DEF S
  <1>4. \A n \in 0..NumTickets : n \in S
    BY <1>1, <1>2, <1>3, IntervalInduction
  <1> QED
    BY <1>1, <1>4 DEF S

LEMMA EvidencePick ==
  ASSUME Shape, Evidence, Pick
  PROVE  Evidence'
  <1>1. pc = "pick" /\ pc' = "merge" /\ UNCHANGED <<status, evidence, main>>
    BY DEF Pick, tickets
  <1> DEFINE read == wave'.commits
             carried == {t \in Tickets : wave'.outcome[t] = "integrated" /\ read[t] # <<>>}
  <1>2. /\ read = Read(wave'.unread) /\ KeepsPlan(wave', wave) /\ KeepsPlace(wave', wave)
        /\ \/ picks' = NoBranch /\ carried = {}
           \/ picks' = Branch(wave.base, CommitsOf(read, carried))
    BY PickWave
  <1>3. Carried' = carried /\ Joined' = CommitsOf(read, carried)
    BY <1>2 DEF Carried, Joined
  <1>4. carried \subseteq wave.members
    <2>1. carried \subseteq wave.ran
      BY <1>2, ReadIs
    <2> QED
      BY <2>1 DEF Shape, WaveOK
  <1>5. ~wave'.cited /\ wave'.members = wave.members
    BY <1>1, <1>2 DEF Evidence, KeepsPlace, KeepsPlan
  <1>6. picks'.commits = Joined'
    <2>1. CASE picks' = NoBranch /\ carried = {}
      <3>1. Joined' = CommitsOf(read, {})
        BY <1>3, <2>1
      <3>2. read \in [Tickets -> Seq(Commits)]
        BY <1>2, ReadIs
      <3>3. CommitsOf(read, {}) = <<>>
        BY <3>2, NobodysCommits
      <3> QED
        BY <2>1, <3>1, <3>3, RefFields
    <2>2. CASE picks' = Branch(wave.base, CommitsOf(read, carried))
      BY <1>3, <2>2 DEF Branch
    <2> QED
      BY <1>2, <2>1, <2>2
  <1>7. \A t \in Tickets : status[t] = "Done" => Last(main, evidence[t], t)
    BY DEF Evidence
  <1> HIDE DEF carried
  <1> QED
    BY <1>1, <1>3, <1>4, <1>5, <1>6, <1>7 DEF Evidence

(* Steps that leave the tickets and the integration alone. *)
LEMMA EvidenceQuiet ==
  ASSUME Shape, Evidence, UNCHANGED <<status, evidence, main>>,
         \/ wave' = wave /\ pc' = pc /\ (pc = "merge" => UNCHANGED picks)
         \/ ~wave'.cited /\ pc' \notin {"merge", "map", "write"}
  PROVE  Evidence'
  <1>1. \A t \in Tickets : status[t] = "Done" => Last(main, evidence[t], t)
    BY DEF Evidence
  <1>2. CASE wave' = wave /\ pc' = pc /\ (pc = "merge" => UNCHANGED picks)
    <2>1. Carried' = Carried /\ Joined' = Joined
      BY <1>2 DEF Carried, Joined
    <2> QED
      BY <1>2, <2>1 DEF Evidence
  <1>3. CASE ~wave'.cited /\ pc' \notin {"merge", "map", "write"}
    BY <1>1, <1>3 DEF Evidence
  <1> QED
    BY <1>2, <1>3

LEMMA EvidenceForeign ==
  ASSUME Shape, Evidence, ForeignCommit, [Next]_vars
  PROVE  Evidence'
  <1>1. UNCHANGED <<status, evidence, wave, pc, picks>>
    BY DEF ForeignCommit, tickets
  <1>2. Carried' = Carried /\ Joined' = Joined
    BY <1>1 DEF Carried, Joined
  <1>3. \A t \in Tickets : \A n : Last(main, n, t) => Last(main', n, t)
    BY ForeignIsNobodys, LastStays
  <1>4. \A t \in wave.left : t \in Tickets
    BY WaveFields DEF Shape, WaveOK
  <1>5. ASSUME pc = "map", Carried # {}
        PROVE  /\ wave.base + Len(Joined) <= Len(main')
               /\ \A i \in 1..Len(Joined) : main'[wave.base + i] = Joined[i]
    <2>1. /\ wave.base + Len(Joined) <= Len(main)
          /\ \A i \in 1..Len(Joined) : main[wave.base + i] = Joined[i]
      BY <1>5 DEF Evidence
    <2>2. wave.base \in Nat /\ Len(Joined) \in Nat /\ Len(main) \in Nat
      BY JoinedIs, WaveFields, MainGrows DEF Shape, WaveOK
    <2>3. \A i \in 1..Len(Joined) : wave.base + i \in 1..Len(main)
      BY <2>1, <2>2
    <2>4. /\ Len(main') \in Nat /\ Len(main) <= Len(main')
          /\ \A i \in 1..Len(main) : main'[i] = main[i]
      BY MainGrows
    <2> QED
      BY <2>1, <2>2, <2>3, <2>4
  <1>6. \A t \in Tickets : status[t] = "Done" => Last(main', evidence[t], t)
    BY <1>3 DEF Evidence
  <1>7. pc = "write" => \A t \in wave.left :
          /\ wave.wanted[t] = "Done" => wave.sha[t] # None
          /\ wave.sha[t] # None => Last(main', wave.sha[t], t)
    BY <1>3, <1>4 DEF Evidence
  <1>8. /\ pc \in {"merge", "map"} => Carried \subseteq wave.members
        /\ pc = "merge" => picks.commits = Joined
        /\ wave.cited => /\ pc = "write" /\ wave.left # {}
                         /\ evidence[Least(wave.left)] = wave.sha[Least(wave.left)]
    BY DEF Evidence
  <1> QED
    BY <1>1, <1>2, <1>5, <1>6, <1>7, <1>8 DEF Evidence

LEMMA EvidenceKept ==
  ASSUME Shape, Deps, Evidence, [Next]_vars
  PROVE  Evidence'
  <1>1. CASE Merge
    BY <1>1, EvidenceMerge
  <1>2. CASE Map
    BY <1>2, EvidenceMap
  <1>3. CASE WriteBack
    BY <1>3, EvidenceWrite
  <1>4. CASE Pick
    BY <1>4, EvidencePick
  <1>5. CASE ForeignCommit
    BY <1>5, EvidenceForeign
  <1>6. CASE Reap \/ Forgets \/ EnterLanes \/ StartWave
    <2>1. ~wave'.cited
      BY <1>6, ReapWave, ForgetsWave, EnterLanesWave, StartWaveWave DEF Blank
    <2>2. UNCHANGED <<status, evidence, main>> /\ pc' \notin {"merge", "map", "write"}
      BY <1>6 DEF Reap, Forgets, EnterLanes, StartWave, ReapKill, Release, Verdict, Crash, Restart,
         tickets, repository
    <2> QED
      BY <2>1, <2>2, EvidenceQuiet
  <1>7. CASE StartLane \/ StopLane \/ (\E t \in Tickets : LaneEnds(t)) \/ CancelLaneRun \/ Barrier
    <2>1. wave'.cited = wave.cited
      BY <1>7, StartLaneWave, StopLaneWave, LaneEndsWave, CancelWave, BarrierWave DEF KeepsPlace
    <2>2. UNCHANGED <<status, evidence, main>> /\ pc' \notin {"merge", "map", "write"} /\ pc = "wait"
      BY <1>7 DEF StartLane, StopLane, LaneEnds, CancelLaneRun, Barrier, tickets, repository
    <2>3. ~wave'.cited
      BY <2>1, <2>2 DEF Evidence
    <2> QED
      BY <2>2, <2>3, EvidenceQuiet
  <1>8. CASE Finish
    <2>1. UNCHANGED <<status, evidence, main, wave>> /\ pc' \notin {"merge", "map", "write"} /\ pc = "head"
      BY <1>8 DEF Finish, tickets, repository
    <2> QED
      BY <2>1, EvidenceQuiet DEF Evidence
  <1>9. CASE (\E r \in runners : Boot(r) \/ Commit(r) \/ UnitEnds(r)) \/ Cancel \/ UNCHANGED vars
    <2>1. UNCHANGED <<status, evidence, main, wave, pc, picks>>
      BY <1>9 DEF Boot, Commit, UnitEnds, Cancel, tickets, repository, vars
    <2> QED
      BY <2>1, EvidenceQuiet
  <1> QED
    BY <1>1, <1>2, <1>3, <1>4, <1>5, <1>6, <1>7, <1>8, <1>9 DEF Next, Pipeline, Forgets

------------------------------------------------------------------------------
(* The verdict of the lanes. *)

Verdicts ==
  /\ \A t \in Tickets : wave.ends[t] = "converged" => t \in wave.ran
  /\ pc \in {"merge", "map"} => \A t \in Tickets : wave.ends[t] = "converged" =>
       \/ branches[t].commits = wave.commits[t] \/ t \in wave.unread
       \/ t \in trees /\ \E r \in missed : r.ticket = t

LEMMA BlankVerdicts ==
  ASSUME Blank(wave'), pc' \notin {"merge", "map"}
  PROVE  Verdicts'
  BY DEF Blank, Verdicts

LEMMA InitVerdicts == Init => Verdicts
  <1> SUFFICES ASSUME Init PROVE Verdicts
    OBVIOUS
  <1>1. Blank(wave) /\ pc = "entry"
    BY NoWaveIs DEF Init
  <1> QED
    BY <1>1 DEF Blank, Verdicts

LEMMA VerdictsKept ==
  ASSUME Shape, Fleet, Verdicts, [Next]_vars
  PROVE  Verdicts'
  <1>0. wave.ends \in [Tickets -> Ends]
    BY WaveFields DEF Shape, WaveOK
  <1>1. CASE Reap \/ Forgets \/ EnterLanes \/ StartWave
    <2>1. Blank(wave')
      BY <1>1, ReapWave, ForgetsWave, EnterLanesWave, StartWaveWave
    <2>2. pc' \notin {"merge", "map"}
      BY <1>1 DEF Reap, Forgets, EnterLanes, StartWave, ReapKill, Release, Verdict, Crash, Restart
    <2> QED
      BY <2>1, <2>2, BlankVerdicts
  <1>2. CASE StartLane \/ StopLane
    <2> DEFINE u == Least(wave.left)
    <2>1. /\ u \in Tickets /\ wave.ran \subseteq wave'.ran
          /\ \E end \in {"None", "lane_no_verdict", "stopped"} : wave'.ends = [wave.ends EXCEPT ![u] = end]
      BY <1>2, StartLaneWave, StopLaneWave
    <2>2. pc' \notin {"merge", "map"}
      BY <1>2 DEF StartLane, StopLane
    <2> HIDE DEF u
    <2>3. \A t \in Tickets : wave'.ends[t] = "converged" => t \in wave'.ran
      BY <1>0, <2>1 DEF Verdicts
    <2> QED
      BY <2>2, <2>3 DEF Verdicts
  <1>3. CASE \E t \in Tickets : LaneEnds(t)
    <2>1. PICK u \in Tickets : LaneEnds(u)
      BY <1>3
    <2>2. u \in wave.ran /\ pc' \notin {"merge", "map"}
      BY <2>1 DEF LaneEnds, Running
    <2>3. wave'.ran = wave.ran /\ \E end : wave'.ends = [wave.ends EXCEPT ![u] = end]
      BY <2>1, LaneEndsWave
    <2>4. \A t \in Tickets : wave'.ends[t] = "converged" => t \in wave'.ran
      BY <1>0, <2>2, <2>3 DEF Verdicts
    <2> QED
      BY <2>2, <2>4 DEF Verdicts
  <1>4. CASE Barrier
    <2>1. pc' \notin {"merge", "map"}
      BY <1>4 DEF Barrier
    <2>2. \A t \in Tickets : wave'.ends[t] = "converged" => t \in wave'.ran
      BY <1>4, BarrierWave DEF Verdicts, Statuses
    <2> QED
      BY <2>1, <2>2 DEF Verdicts
  <1>5. CASE Pick
    <2>1. pc' = "merge" /\ wave'.commits = Read(wave'.unread) /\ KeepsRun(wave', wave) /\ UNCHANGED branches
      BY <1>5, PickWave DEF Pick
    <2>2. ASSUME NEW t \in Tickets, wave'.ends[t] = "converged"
          PROVE  /\ t \in wave'.ran
                 /\ branches'[t].commits = wave'.commits[t] \/ t \in wave'.unread
      <3>1. t \in wave.ran /\ wave.ends[t] = "converged" /\ wave'.ran = wave.ran
        BY <2>1, <2>2 DEF Verdicts, KeepsRun
      <3>2. t \in Offered
        BY <3>1 DEF Offered
      <3> QED
        BY <2>1, <3>1, <3>2, ReadIs
    <2> QED
      BY <2>2 DEF Verdicts
  <1>6. CASE Merge
    <2>1. /\ pc = "merge" /\ UNCHANGED <<branches, trees, missed>> /\ wave'.commits = wave.commits
          /\ wave'.unread = wave.unread /\ KeepsRun(wave', wave)
      BY <1>6, MergeWave DEF Merge, processes
    <2> QED
      BY <2>1 DEF Verdicts, KeepsRun
  <1>7. CASE Map \/ WriteBack \/ CancelLaneRun
    <2>1. KeepsRun(wave', wave) /\ pc' \notin {"merge", "map"}
      BY <1>7, MapWave, WriteBackWave, CancelWave DEF Map, WriteBack, CancelLaneRun
    <2> QED
      BY <2>1 DEF Verdicts, KeepsRun
  <1>8. CASE \E r \in runners : Commit(r)
    <2>1. PICK r \in runners : Commit(r)
      BY <1>8
    <2>2. UNCHANGED <<wave, pc, trees, missed>> /\ r.ticket \in trees
      BY <2>1 DEF Commit
    <2>3. r.ticket \in Tickets /\ \E b : branches' = [branches EXCEPT ![r.ticket] = b]
      BY <2>1, CommitIs
    <2>4. pc \in {"merge", "map"} => r \in missed
      BY DEF Fleet
    <2>5. ASSUME pc \in {"merge", "map"}, NEW t \in Tickets, wave.ends[t] = "converged"
          PROVE  \/ branches'[t].commits = wave.commits[t] \/ t \in wave.unread
                 \/ t \in trees /\ \E s \in missed : s.ticket = t
      <3>1. CASE t = r.ticket
        BY <2>2, <2>4, <2>5, <3>1
      <3>2. CASE t # r.ticket
        <4>1. branches'[t] = branches[t]
          BY <2>3, <3>2, RefsOfBranches
        <4> QED
          BY <2>5, <4>1 DEF Verdicts
      <3> QED
        BY <3>1, <3>2
    <2> QED
      BY <2>2, <2>5 DEF Verdicts
  <1>9. CASE Finish
    BY <1>9 DEF Finish, Verdicts
  <1>10. CASE (\E r \in runners : Boot(r) \/ UnitEnds(r)) \/ Cancel \/ ForeignCommit \/ UNCHANGED vars
    <2>1. UNCHANGED <<wave, pc, branches, trees, missed>>
      BY <1>10 DEF Boot, UnitEnds, Cancel, ForeignCommit, repository, processes, vars
    <2> QED
      BY <2>1 DEF Verdicts
  <1> QED
    BY <1>1, <1>2, <1>3, <1>4, <1>5, <1>6, <1>7, <1>8, <1>9, <1>10 DEF Next, Pipeline, Forgets

------------------------------------------------------------------------------
(* The theorems. *)

Inv == Shape /\ Fleet /\ Deps /\ Work /\ Evidence /\ Verdicts

LEMMA InitInv == Init => Inv
  BY InitShape, InitFleet, InitDeps, InitWork, InitEvidence, InitVerdicts DEF Inv

LEMMA NextInv == Inv /\ [Next]_vars => Inv'
  <1> SUFFICES ASSUME Inv, [Next]_vars PROVE Inv'
    OBVIOUS
  <1>1. Shape /\ Fleet /\ Deps /\ Work /\ Evidence /\ Verdicts
    BY DEF Inv
  <1> QED
    BY <1>1, ShapeKept, FleetKept, DepsKept, WorkKept, EvidenceKept, VerdictsKept DEF Inv

LEMMA InvAlways == Spec => []Inv
  BY InitInv, NextInv, PTL DEF Spec

LEMMA InvTypes == Inv => TypeOK
  <1> SUFFICES ASSUME Inv PROVE TypeOK
    OBVIOUS
  <1>0. Shape /\ Fleet
    BY DEF Inv
  <1>1. /\ status \in [Tickets -> Statuses] /\ evidence \in [Tickets -> 0..Len(main)]
        /\ requeued \subseteq Tickets /\ session.life \in Nat \ {0}
        /\ pc \in Over \cup {"entry", "reaping", "head", "wait", "pick", "merge", "map", "write"}
        /\ wave.ran \subseteq wave.members
    <2>1. /\ evidence \in [Tickets -> Nat] /\ Len(main) \in Nat
          /\ \A t \in Tickets : evidence[t] <= Len(main)
      BY <1>0 DEF Shape, TicketsOK, RepoOK
    <2>2. evidence \in [Tickets -> 0..Len(main)]
      BY <2>1
    <2> QED
      BY <1>0, <2>2 DEF Shape, TicketsOK, SessionOK, WaveOK, Stages
  <1>2. Elements(main) \subseteq Commits \cup {Foreign}
    BY <1>0, ElementsAre DEF Shape, RepoOK
  <1>3. \A b \in Refs : b.base <= Len(main) =>
          b \in [there : BOOLEAN, base : 0..Len(main), commits : Seq(Commits)]
    <2>1. Len(main) \in Nat
      BY <1>0 DEF Shape, RepoOK
    <2> QED
      BY <2>1 DEF Refs
  <1>4. /\ \A t \in Tickets : branches[t] \in [there : BOOLEAN, base : 0..Len(main), commits : Seq(Commits)]
        /\ picks \in [there : BOOLEAN, base : 0..Len(main), commits : Seq(Commits)]
    BY <1>0, <1>3 DEF Shape, RepoOK
  <1>5. aside \subseteq Seq(Commits) /\ trees \subseteq {t \in Tickets : branches[t].there}
    BY <1>0 DEF Shape, RepoOK
  <1>6. session.life \in Nat
    BY <1>1
  <1>7. owner \in [Tickets -> 0..session.life] /\ booted \subseteq runners
    <2>1. /\ owner \in [Tickets -> Nat] /\ \A t \in Tickets : owner[t] <= session.life
          /\ booted \subseteq runners
      BY <1>0 DEF Shape, ProcsOK
    <2> QED
      BY <1>6, <2>1
  <1>8. runners \cup missed \subseteq [ticket : Tickets, life : 1..session.life]
    <2>1. \A r \in runners \cup missed : r \in Runners /\ r.life <= session.life
      BY <1>0 DEF Shape, ProcsOK
    <2>2. \A r \in Runners : r.life <= session.life => r \in [ticket : Tickets, life : 1..session.life]
      BY <1>6 DEF Runners
    <2> QED
      BY <2>1, <2>2
  <1>9. Cardinality({r \in runners : r.life = session.life}) <= MaxParallel
    BY <1>0 DEF Fleet, Crew
  <1> QED
    BY <1>1, <1>2, <1>4, <1>5, <1>7, <1>8, <1>9 DEF TypeOK

(* The verdict of the lanes is given when the invariant holds. *)
LEMMA InvHonest ==
  ASSUME Inv, pc = "map", pc' = "success", [Next]_vars
  PROVE  \A t \in wave.members \ wave.unread :
           \/ Elements(branches[t].commits) \subseteq Elements(main)
           \/ t \in trees /\ \E r \in missed : r.ticket = t
  <1>0. Shape /\ Evidence /\ Verdicts
    BY DEF Inv
  <1>1. Converged
    BY DEF Next, Pipeline, Reap, ReapKill, StartWave, CancelLaneRun, Barrier, Pick, Merge, Map,
       WriteBack, Release, Finish, EnterLanes, StartLane, StopLane, LaneEnds, Verdict, Boot,
       Commit, UnitEnds, Cancel, Crash, Restart, ForeignCommit, vars
  <1>2. ASSUME NEW t \in wave.members, branches[t].commits = wave.commits[t]
        PROVE  Elements(branches[t].commits) \subseteq Elements(main)
    <2> DEFINE s == wave.commits[t]
    <2>1. t \in Tickets /\ s \in Seq(Commits) /\ wave.outcome[t] = "integrated"
      BY <1>0, <1>1, JoinedIs, WaveFields DEF Converged, Shape, WaveOK
    <2>2. CASE s = <<>>
      BY <1>2, <2>1, <2>2, ElementsAre
    <2>3. CASE s # <<>>
      <3>1. t \in Carried
        BY <2>1, <2>3 DEF Carried
      <3>2. Elements(s) \subseteq Elements(Joined)
        <4>1. wave.commits \in [Tickets -> Seq(Commits)] /\ Own(wave.commits)
          BY <1>0, JoinedIs
        <4>2. Elements(wave.commits[t]) \subseteq Elements(CommitsOf(wave.commits, Carried))
          BY <2>1, <2>3, <3>1, <4>1, CommitsOfHas
        <4> QED
          BY <4>2 DEF Joined
      <3>3. /\ wave.base + Len(Joined) <= Len(main)
            /\ \A j \in 1..Len(Joined) : main[wave.base + j] = Joined[j]
        BY <1>0, <3>1 DEF Evidence
      <3>4. wave.base \in Nat /\ Len(Joined) \in Nat /\ main \in Seq(Commits \cup {Foreign})
            /\ Len(main) \in Nat
        BY <1>0, JoinedIs, WaveFields DEF Shape, WaveOK, RepoOK
      <3>5. \A j \in 1..Len(Joined) : wave.base + j \in 1..Len(main)
        BY <3>3, <3>4
      <3>6. Elements(main) = {main[i] : i \in 1..Len(main)}
        BY <3>4, ElementsAre
      <3>7. \A j \in 1..Len(Joined) : Joined[j] \in Elements(main)
        BY <3>3, <3>5, <3>6
      <3>8. Elements(Joined) = {Joined[j] : j \in 1..Len(Joined)}
        BY <1>0, JoinedIs, ElementsAre
      <3> HIDE DEF s
      <3>9. Elements(s) \subseteq Elements(main)
        BY <3>2, <3>7, <3>8
      <3> QED
        BY <1>2, <3>9 DEF s
    <2> QED
      BY <2>2, <2>3
  <1>3. \A t \in wave.members : wave.ends[t] = "converged" /\ t \in Tickets
    BY <1>0, <1>1, WaveFields DEF Converged, Shape, WaveOK
  <1> QED
    BY <1>0, <1>2, <1>3 DEF Verdicts

(* The state of the waves keeps its types, and never more units of one pipeline *)
(* runner are at work than the settings allow.                                  *)
THEOREM TypeCorrect == Spec => []TypeOK
  BY InvAlways, InvTypes, PTL

(* writeBackWave after integratedShas: whatever is killed or fails in between,  *)
(* a ticket that is Done has the last of its own commits on the working branch  *)
(* as its evidence.                                                             *)
THEOREM DoneIsProven == Spec => []DoneHasItsEvidence
  <1>1. Inv => DoneHasItsEvidence
    BY EvidenceIs DEF Inv
  <1> QED
    BY <1>1, InvAlways, PTL

(* recoverLaneBranches, releaseLaneBranches: no commit of an agent is lost. *)
THEOREM WorkIsKept == Spec => []NoWorkIsLost
  <1>1. Inv => NoWorkIsLost
    BY DEF Inv, Work
  <1> QED
    BY <1>1, InvAlways, PTL

(* planTicketWave, liveUnitRunners: no two runners that a listing could have    *)
(* found are at work on tickets that have to do with each other, across kills   *)
(* of the pipeline runner as well.                                              *)
THEOREM NoTwoAtWork == Spec => []RelatedNeverTogether
  <1>1. Inv => RelatedNeverTogether
    BY ApartIs DEF Inv, Fleet
  <1> QED
    BY <1>1, InvAlways, PTL

(* pendingWaveCandidates: a unit is cut from a branch that holds the evidence   *)
(* of what it depends on, and nothing takes a dependency back while it is at    *)
(* work.                                                                        *)
THEOREM DependenciesFirst == Spec => []BuiltOnDependencies
  <1>1. Inv => BuiltOnDependencies
    BY DEF Inv, Deps
  <1> QED
    BY <1>1, InvAlways, PTL

(* aggregateLaneExitReason: a phase that says it has converged has the commits  *)
(* of its lanes on the working branch, except those of a lane whose branch      *)
(* could not be read, and what a runner of an earlier life adds in a worktree   *)
(* that could not be removed.                                                   *)
THEOREM ConvergedIsTrue == Spec => ConvergedIsHonest
  <1> DEFINE Honest ==
        pc = "map" /\ pc' = "success" => \A t \in wave.members \ wave.unread :
          \/ Elements(branches[t].commits) \subseteq Elements(main)
          \/ t \in trees /\ \E r \in missed : r.ticket = t
  <1>1. Inv /\ [Next]_vars => [Honest]_vars
    BY InvHonest
  <1>2. [][Honest]_vars <=> ConvergedIsHonest
    BY DEF ConvergedIsHonest
  <1> HIDE DEF Honest
  <1> QED
    BY <1>1, <1>2, InvAlways, PTL DEF Spec
==============================================================================
