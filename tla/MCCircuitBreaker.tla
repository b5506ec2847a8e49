-------------------------- MODULE MCCircuitBreaker --------------------------
(* A trivial ticket and a small one, with the budgets of their tiers, and   *)
(* names that only ever are compared.                                       *)
EXTENDS CircuitBreaker, TLC

CONSTANTS t1, t2

TierBudgets == t1 :> 3 @@ t2 :> 4

Names == Permutations(Trees) \cup Permutations(Shas)
             \cup Permutations(Edits) \cup Permutations(Errors)
=============================================================================
