--------------------------- MODULE MCTicketWaves -----------------------------
EXTENDS TicketWaves

NoDeps == [t \in Tickets |-> {}]
Roster == [deps |-> NoDeps, clash |-> {}, safe |-> Tickets, over |-> {},
           lanes |-> FALSE]

\* Tickets that may all be built together; one that waits for another; two that
\* declare the same file; and one that is not marked parallel_safe.
Rosters ==
    {Roster, [Roster EXCEPT !.deps = [NoDeps EXCEPT ![3] = {1}]],
     [Roster EXCEPT !.deps = [NoDeps EXCEPT ![2] = {1}]],
     [Roster EXCEPT !.clash = {{1, 2}}], [Roster EXCEPT !.safe = {1, 3}]}
Short(rosters) == {[r EXCEPT !.over = {3}] : r \in rosters}

\* Three tickets and no trouble; two of them, and something that fails, others
\* that commit, or a pipeline runner that is killed and started again.
Undisturbed == [lives |-> 1, faults |-> 0, foreign |-> 0, commits |-> 1]
Disturbed ==
    {[Undisturbed EXCEPT !.faults = 1, !.commits = 2],
     [Undisturbed EXCEPT !.foreign = 1, !.commits = 2],
     [Undisturbed EXCEPT !.lives = 2]}
Several ==
    [roster : Rosters, bounds : {Undisturbed}]
        \cup [roster : {[Roster EXCEPT !.lanes = TRUE]}, bounds : {Undisturbed}]
        \cup [roster : Short({[Roster EXCEPT !.lanes = TRUE]}), bounds : Disturbed]
        \cup [roster : Short({Roster, [Roster EXCEPT !.deps = [NoDeps EXCEPT ![2] = {1}]],
                              [Roster EXCEPT !.clash = {{1, 2}}]}),
              bounds : Disturbed]
==============================================================================
