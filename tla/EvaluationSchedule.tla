------------------------- MODULE EvaluationSchedule -------------------------
(***************************************************************************)
(* The deterministic schedule of a batch test: which initial state and     *)
(* which seed each trial uses (build_schedule in evaluation/batch.py).     *)
(* States and seeds are numbered in the order the seeded shuffle gives     *)
(* them; the last shuffle only permutes the trials, so a schedule is kept  *)
(* as the bag of its pairs.                                                *)
(*                                                                         *)
(* A definition marked "mutant" is a plausible bug: it takes no part in    *)
(* the specification and stands before the definition it would replace.    *)
(***************************************************************************)
EXTENDS Naturals, FiniteSets

(* seed_count is optional: 0 stands for None.                              *)
SeedCount(trials, states, asked) ==
  IF asked = 0 THEN (trials + states - 1) \div states ELSE asked

(* remainder // n, the first remainder % n of them one more.               *)
Degrees(n, remainder) ==
  [i \in 1..n |-> remainder \div n + (IF i <= remainder % n THEN 1 ELSE 0)]

(* The degree columns with the most seeds left, the first of equals first. *)
\* mutant
Widest(left, degree) == {i \in DOMAIN left : i <= degree}
LargestLeft(left, degree) ==
  LET before(i) == {k \in DOMAIN left : left[k] > left[i] \/ (left[k] = left[i] /\ k < i)}
  IN  {i \in DOMAIN left : Cardinality(before(i)) < degree}

(* One row of the partial round: a pair for each of its columns, which has *)
(* one seed less to give.  "raised" stands for the two RuntimeErrors.      *)
NextRow(before, row, degree) ==
  LET columns == LargestLeft(before.left, degree)
  IN  [left   |-> [c \in DOMAIN before.left |->
                     IF c \in columns /\ before.left[c] > 0
                       THEN before.left[c] - 1 ELSE before.left[c]],
       pairs  |-> before.pairs \cup ({row} \X columns),
       raised |-> before.raised \/ \E c \in columns : before.left[c] = 0]

(* The partial Cartesian round, row after row; rows come sorted, since     *)
(* Degrees never increases.                                                *)
PartialRound(states, seeds, remainder) ==
  LET rows == Degrees(states, remainder)
      round[r \in 0..states] ==
        IF r = 0
          THEN [left |-> Degrees(seeds, remainder), pairs |-> {}, raised |-> FALSE]
          ELSE NextRow(round[r - 1], r, rows[r])
  IN  round[states]

(* How often each pair occurs: the full rounds and the partial one.        *)
Schedule(trials, states, seeds) ==
  LET pairCount == states * seeds
      partial == PartialRound(states, seeds, trials % pairCount)
  IN  [count  |-> [p \in (1..states) \X (1..seeds) |->
                     trials \div pairCount + (IF p \in partial.pairs THEN 1 ELSE 0)],
       raised |-> partial.raised \/ \E c \in 1..seeds : partial.left[c] # 0]

(* f[1] + ... + f[n].                                                      *)
SumTo(n, f) ==
  LET sum[k \in 0..n] == IF k = 0 THEN 0 ELSE sum[k - 1] + f[k]
  IN  sum[n]

(* What schedule_distribution counts, over so many states and seeds.       *)
StateCount(s, seeds, state) == SumTo(seeds, [c \in 1..seeds |-> s.count[<<state, c>>]])
SeedCountOf(s, states, seed) == SumTo(states, [r \in 1..states |-> s.count[<<r, seed>>]])
TrialCount(s, states, seeds) == SumTo(states, [r \in 1..states |-> StateCount(s, seeds, r)])
=============================================================================
