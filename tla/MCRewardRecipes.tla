-------------------------- MODULE MCRewardRecipes --------------------------
EXTENDS RewardRecipes
Distances(d) == [t \in 0..5 |-> d[t + 1]]
\* a success in the third chunk, and a failed recording with a short last chunk
TwoEpisodes ==
  <<[cuts |-> <<0, 2, 4, 5>>, terminal |-> 4, distance |-> Distances(<<3, 2, 1, 1, 0, 0>>)],
    [cuts |-> <<0, 1, 3, 5>>, terminal |-> None, distance |-> Distances(<<2, 3, 1, 2, 2, 1>>)]>>
Frame(step, kind) == [step |-> step, kind |-> kind]
\* labels at the success, more setbacks than progress, a score above zero
SomeLabels ==
  <<{{}, {Frame(5, "positive")}, {Frame(1, "negative")},
     {Frame(1, "positive"), Frame(2, "positive"), Frame(3, "negative"), Frame(4, "negative")}},
    {{}, {Frame(2, "positive"), Frame(4, "negative")}}>>
Recipe(mode, gamma, cumulative, alpha, kappa, power, rescaled) ==
  [mode |-> mode, gamma |-> gamma, cumulative |-> cumulative, alpha |-> alpha,
   kappa |-> kappa, power |-> power, rescaled |-> rescaled]
SomeRecipes ==
  {Recipe("additive", 1, FALSE, 0, 1, 1, FALSE), Recipe("additive", 1, TRUE, 1, 1, 2, TRUE),
   Recipe("additive", 2, TRUE, 2, 0, 1, FALSE), Recipe("multiplicative", 1, FALSE, 0, 1, 2, TRUE)}
============================================================================
