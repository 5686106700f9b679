---------------------------- MODULE KernelLists ----------------------------
(***************************************************************************)
(* The queues of thread ids (std::deque<int>) that the EE kernel keeps.    *)
(***************************************************************************)
EXTENDS Integers, SequencesExt

\* The entries of w that are in S, in w's order: what a loop over w that
\* appends the entries it selects leaves behind.  A recursive function, and
\* not SelectSeq, for the provers' sake.
Among(w, S) ==
    LET upTo[i \in 0 .. Len(w)] ==
            IF i = 0 THEN <<>>
            ELSE IF w[i] \in S THEN Append(upTo[i - 1], w[i]) ELSE upTo[i - 1]
    IN  upTo[Len(w)]
=============================================================================
