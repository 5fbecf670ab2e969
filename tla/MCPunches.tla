------------------------------ MODULE MCPunches ------------------------------
(* Model values for the runs of Punches. *)
EXTENDS PunchAnswers, TLC

CONSTANTS e1, k1, k2, k3, r1, r2

OneEmployee == {e1}
ThreeKeys == {k1, k2, k3}
TwoRequests == {r1, r2}

\* Keys and request slots are interchangeable.
Symmetry == Permutations(ThreeKeys) \cup Permutations(TwoRequests)

\* Where a liveness property forbids symmetry, of the initial states that
\* differ by the names of the keys one is taken.
Rank == [OTHER |-> 0, CLOCK_IN |-> 1, BREAK_START |-> 2, BREAK_END |-> 3, CLOCK_OUT |-> 4]
InOrderOfKind ==
  Rank[tap[k1].kind] <= Rank[tap[k2].kind] /\ Rank[tap[k2].kind] <= Rank[tap[k3].kind]
OneNamingInit == AnswersInit /\ InOrderOfKind
OneNamingSpec == OneNamingInit /\ [][AnswersNext]_allVars /\ Fairness
=============================================================================
