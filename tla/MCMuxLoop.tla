------------------------------ MODULE MCMuxLoop ------------------------------
EXTENDS MuxLoop

\* A session with more work; one with a second runner, after the end or the
\* death of the first; and one whose operator retries a ticket.
Sessions ==
    {[work |-> 2, retries |-> 0, runs |-> 1], [work |-> 1, retries |-> 0, runs |-> 2],
     [work |-> 1, retries |-> 1, runs |-> 1]}
\* A session of two runners that nobody retries.
Short == {[work |-> 1, retries |-> 0, runs |-> 2]}
==============================================================================
