---------------------------- MODULE RewardRecipes ----------------------------
(***************************************************************************)
(* The Final Reward of an episode and what a training run makes of it:     *)
(* keyframes become a stage score, chunks get sparse, shaping and stage    *)
(* rewards that a recipe fuses, the results of several members are bound   *)
(* for training, and the trainer adapts them to its own discount and       *)
(* reduction without evaluating anything again.  Models stage_rewards.py,  *)
(* fusion_rewards.py and the pinned rewards of rewards.py,                 *)
(* global_reward_binding.bind_global_rewards, DatasetRewardVersions'       *)
(* pinned_reward and the Bellman target of iql.py.                         *)
(*                                                                         *)
(* Numbers are exact: gamma is g/Base, alpha is a/2, temporal distances    *)
(* are whole seconds.  Powers of gamma are in units of 1/One, scores in    *)
(* 7200ths (they divide every fraction that the labels checked lead to),   *)
(* rewards in 1/(2*One*7200).  Rounding to float32 is left out.            *)
(***************************************************************************)
EXTENDS Integers, Sequences, FiniteSets, FiniteSetsExt, Functions

CONSTANTS Episodes,  \* per member: [cuts, terminal, distance], a recording
          Count,     \* the actions of each recording
          Recipes,   \* the recipes that are evaluated with
          Labels,    \* per member: the sets of keyframes [step, kind] a person may save
          Gammas,    \* the discounts g of training runs
          Base,      \* what they are fractions of: gamma = g/Base
          None       \* no terminal step, no result

\* validate_train_config: the parameters in their ranges.
ValidRecipe(r) ==
  r \in [mode : {"additive", "multiplicative"}, gamma : 0..Base, cumulative : BOOLEAN,
         alpha : 0..2, kappa : Nat, power : {1, 2}, rescaled : BOOLEAN]

Members == DOMAIN Episodes      \* in the order of the frozen dataset

\* A recording is cut into chunks of at least one action, without a gap.
Cut(cuts) ==
  /\ cuts \in Seq(0..Count) /\ cuts # <<>> /\ cuts[1] = 0 /\ cuts[Len(cuts)] = Count
  /\ \A i \in 1..Len(cuts) - 1 : cuts[i] < cuts[i + 1]

ASSUME RecipesAssumption ==
  /\ Base \in Nat \ {0} /\ Count \in Nat \ {0} /\ Gammas \subseteq 0..Base
  /\ Len(Episodes) \in Nat /\ Members = 1..Len(Episodes) /\ DOMAIN Labels = Members
  /\ \A m \in Members :
       /\ Cut(Episodes[m].cuts)
       /\ Episodes[m].distance \in [0..Count -> Nat]
       /\ Episodes[m].terminal \in 0..Count - 1 \cup {None}
       /\ \A F \in Labels[m] : IsFiniteSet(F)
  /\ \A r \in Recipes : ValidRecipe(r)
  /\ None \notin 0..Count

VARIABLES
  frames,   \* the keyframes of each member: a set of [step, kind]
  saved,    \* the global Final Reward of each member, or None
  binding,  \* the results a version or a global binding pins, or None
  training  \* the rewards and the reduction of its last training run, or None

vars == <<frames, saved, binding, training>>

-----------------------------------------------------------------------------
(* Stage scores.                                                           *)

Scale == 7200

\* The observation after the action that completes the success streak.
SuccessStep(m) == IF Episodes[m].terminal = None THEN None ELSE Episodes[m].terminal + 1

Net(F) == Cardinality({f \in F : f.kind = "positive"}) - Cardinality({f \in F : f.kind = "negative"})
Denominator(m, F) ==
  IF SuccessStep(m) # None THEN Net(F) + 1
  ELSE Cardinality({f \in F : f.kind = "positive"}) + 1

\* The labels that stage_anchors does not refuse: none at or after the
\* success, and a normalization that is positive.
Labelled(m, F) ==
  /\ SuccessStep(m) # None => \A f \in F : f.step < SuccessStep(m)
  /\ Denominator(m, F) > 0

\* The steps of the anchors, and the score at each of them.
AnchorSteps(m, F) ==
  {0} \cup {f.step : f \in F} \cup (IF SuccessStep(m) = None THEN {} ELSE {SuccessStep(m)})

AnchorScore(m, F, step) ==
  IF step = SuccessStep(m) THEN 0
  ELSE ((Net({f \in F : f.step <= step}) - Denominator(m, F)) * Scale) \div Denominator(m, F)

Raise(x, p) == IF p = 2 THEN x * x ELSE x

\* Between anchors the score follows x^p; after the last one it stays.
StageScore(m, F, p) ==
  [t \in 0..Count |->
     LET from  == Max({s \in AnchorSteps(m, F) : s <= t})
         later == {s \in AnchorSteps(m, F) : s > t}
         to    == Min(later)
         rise  == AnchorScore(m, F, to) - AnchorScore(m, F, from)
     IN IF later = {} THEN AnchorScore(m, F, from)
        ELSE AnchorScore(m, F, from) + (rise * Raise(t - from, p)) \div Raise(to - from, p)]

-----------------------------------------------------------------------------
(* Rewards of the chunks.                                                  *)

\* The highest power of gamma is that of a whole recording.
Powers(x) ==
  LET power[k \in 0..Count] == IF k = 0 THEN 1 ELSE x * power[k - 1] IN power
One       == Powers(Base)[Count]                      \* the unit: 1/One
Pow(g, n) == Powers(g)[n] * Powers(Base)[Count - n]   \* gamma^n
Chunks(m)  == 1..Len(Episodes[m].cuts) - 1
Start(m, i)  == Episodes[m].cuts[i]
End(m, i)    == Episodes[m].cuts[i + 1]
Length(m, i) == End(m, i) - Start(m, i)

\* Every step costs 1 until the confirmed success, which ends the cost.
Cost(m, t) == IF Episodes[m].terminal # None /\ t >= Episodes[m].terminal THEN 0 ELSE -1

Total(n, f) ==
  LET sum[k \in 0..n] == IF k = 0 THEN 0 ELSE sum[k - 1] + f[k] IN sum[n]

\* sparse_primitive_return and sparse_macro_reward, in 1/One
Sparse(m, i, g, cumulative) ==
  IF cumulative
  THEN Total(Length(m, i),
             [k \in 1..Length(m, i) |-> Pow(g, k - 1) * Cost(m, Start(m, i) + k - 1)])
  ELSE One * Cost(m, End(m, i) - 1)

\* chunk_reward_components: the potential is minus the remaining distance.
\* mutant: the macro transition is discounted by its primitive steps
DurationOfSteps(m, i, cumulative) == Length(m, i)
Duration(m, i, cumulative) == IF cumulative THEN Length(m, i) ELSE 1

Potential(m, t) == -Episodes[m].distance[t]
Shaping(m, i, g, cumulative) ==
  Pow(g, Duration(m, i, cumulative)) * Potential(m, End(m, i)) - One * Potential(m, Start(m, i))

\* stage_chunk_reward, in 1/(One*7200)
Stage(m, i, scores, g, cumulative) ==
  IF cumulative
  THEN Total(Length(m, i),
             [k \in 1..Length(m, i) |-> Pow(g, k - 1) * scores[Start(m, i) + k]])
  ELSE One * scores[End(m, i)]

\* effective_cumulative: a product is defined on macro transitions only.
Effective(r) == r.cumulative /\ r.mode = "additive"

\* needs_stage and needs_rynnvalue.
NeedsStage(r) == r.mode = "multiplicative" \/ r.alpha > 0
NeedsDistance(r) == r.kappa > 0

\* fused_reward_arrays, in 1/(2*One*7200)
Fused(m, i, r, scores) ==
  LET c == Effective(r)
      b == Sparse(m, i, r.gamma, c)
      f == IF NeedsDistance(r) THEN Shaping(m, i, r.gamma, c) ELSE 0
      s == IF NeedsStage(r) THEN Stage(m, i, scores, r.gamma, c) ELSE 0
  IN IF r.mode = "additive"
     THEN (2 - r.alpha) * b * Scale + r.alpha * s + r.kappa * f * 2 * Scale
     ELSE -2 * scores[End(m, i)] * (b + r.kappa * f)

Raw(m, r, scores) == [i \in Chunks(m) |-> Fused(m, i, r, scores)]

\* Refused: a positive score (never clipped), or an initial reward that is
\* not negative where the rewards are divided by it.
Acceptable(m, r, scores) ==
  /\ NeedsStage(r) => \A t \in 0..Count : scores[t] <= 0
  /\ r.rescaled => Raw(m, r, scores)[1] < 0

\* The reward arrays: the values, what they are divided by, and the signals
\* they come from.
Reference(m, r, scores) == IF r.rescaled THEN -Raw(m, r, scores)[1] ELSE 2 * One * Scale
Result(m, r, scores) ==
  [recipe |-> r, scores |-> scores, raw |-> Raw(m, r, scores),
   reference |-> Reference(m, r, scores),
   shaping |-> [i \in Chunks(m) |->
                  IF NeedsDistance(r) THEN Shaping(m, i, r.gamma, Effective(r)) ELSE 0]]

-----------------------------------------------------------------------------
Init ==
  /\ frames = [m \in Members |-> {}] /\ saved = [m \in Members |-> None]
  /\ binding = None /\ training = None

\* build_stage_annotation: the labels are saved as a whole, at most one per
\* observation and none at the start; saving them again replaces them.
Annotate(m, F) ==
  /\ F # frames[m]
  /\ \A f \in F : f.step \in 1..Count /\ \A e \in F : e.step = f.step => e = f
  /\ frames' = [frames EXCEPT ![m] = F]
  /\ UNCHANGED <<saved, binding, training>>

\* materialize_final_reward for the member, published as its global result.
NoScores == [t \in 0..Count |-> 0]
Evaluate(m, r) ==
  /\ NeedsStage(r) => Labelled(m, frames[m])
  /\ LET scores == IF NeedsStage(r) THEN StageScore(m, frames[m], r.power) ELSE NoScores
     IN /\ Acceptable(m, r, scores)
        /\ saved' = [saved EXCEPT ![m] = Result(m, r, scores)]
  /\ UNCHANGED <<frames, binding, training>>

\* global_members: the members without a result of their own.
Missing == {m \in Members : saved[m] = None}

\* bind_global_rewards copies the results of all members; the configuration
\* it writes has the recipe of the first one.
MacroOnly(results) == \E m \in DOMAIN results : results[m].recipe.mode = "multiplicative"
Bind ==
  /\ binding = None /\ Missing = {}
  /\ binding' = saved
  /\ UNCHANGED <<frames, saved, training>>

\* pinned_reward turns the reduction off for macro-only results; whoever
\* starts the trainer with a configuration file does not come through here.
Selected(cumulative, backend) == cumulative /\ ~(backend /\ MacroOnly(binding))

\* The configuration the trainer loads: the first recipe with the selected
\* discount and reduction, which load_config makes effective.
Requested(g, cumulative, backend) ==
  LET asked == [binding[1].recipe EXCEPT !.gamma = g, !.cumulative = Selected(cumulative, backend)]
  IN [asked EXCEPT !.cumulative = Effective(asked)]

\* load_pinned_reward_index refuses to mix a product with accumulated steps.
Mixed(request) == request.cumulative /\ MacroOnly(binding)

\* _adapt_pinned_training_rewards: the semantics stay those of the result.
Adapted(m, request) ==
  [binding[m].recipe EXCEPT !.gamma = request.gamma, !.cumulative = request.cumulative]

Unchanged(m, request) == Adapted(m, request) = binding[m].recipe

\* The arrays are recomputed from the saved signals, the reference too.
Recomputed(m, request) == Result(m, Adapted(m, request), binding[m].scores)

TrainingReward(m, request) ==
  IF Unchanged(m, request) THEN binding[m] ELSE Recomputed(m, request)

Train(g, cumulative, backend) ==
  /\ binding # None
  /\ LET request == Requested(g, cumulative, backend)
     IN /\ ~Mixed(request)
        /\ \A m \in Members : Unchanged(m, request)
                              \/ Acceptable(m, Adapted(m, request), binding[m].scores)
        /\ training' = [gamma |-> g, cumulative |-> request.cumulative,
                        rewards |-> [m \in Members |-> TrainingReward(m, request)]]
  /\ UNCHANGED <<frames, saved, binding>>

Next ==
  \/ \E m \in Members : \E F \in Labels[m] : Annotate(m, F)
  \/ \E m \in Members, r \in Recipes : Evaluate(m, r)
  \/ Bind
  \/ \E g \in Gammas, cumulative, backend \in BOOLEAN : Train(g, cumulative, backend)

Spec == Init /\ [][Next]_vars

-----------------------------------------------------------------------------
TypeOK ==
  /\ \A m \in Members : \A f \in frames[m] : f.step \in 1..Count
  /\ training # None => binding # None

(***************************************************************************)
(* What a member is trained on is what an evaluation of the saved signals  *)
(* with the member's own recipe and the run's discount and reduction would *)
(* give, however the results were evaluated and whichever recipe comes     *)
(* first: semantics pinned, reduction the run's, scale recomputed.         *)
(***************************************************************************)
AdaptationExact ==
  training # None =>
    \A m \in Members :
      LET own == [binding[m].recipe EXCEPT !.gamma = training.gamma,
                                           !.cumulative = training.cumulative]
          new == training.rewards[m]
      IN new.raw = Raw(m, own, binding[m].scores)
         /\ new.reference = Reference(m, own, binding[m].scores)

(***************************************************************************)
(* The discount of the Bellman target and the rewards belong together: a   *)
(* run that discounts its bootstrap by the primitive steps of a chunk has  *)
(* no reward that was reduced as one macro transition, nor the other way   *)
(* round (chunk_bellman_target against fused_reward_arrays).               *)
(***************************************************************************)
OneReduction ==
  training # None =>
    \A m \in Members :
      /\ Effective(training.rewards[m].recipe) = training.cumulative
      /\ training.rewards[m].recipe.gamma = training.gamma

(***************************************************************************)
(* Shaping changes no ordering of policies: under the discount of the      *)
(* Bellman target, the shaping rewards of consecutive chunks telescope to  *)
(* the potentials of the ends, from the start to every chunk boundary.     *)
(***************************************************************************)
Discounts(m, i) == IF training.cumulative THEN Start(m, i) ELSE i - 1
ShapingTelescopes ==
  training # None =>
    \A m \in Members : NeedsDistance(binding[m].recipe) => \A n \in Chunks(m) :
      LET exponent == IF training.cumulative THEN End(m, n) ELSE n
      IN Total(n, [i \in 1..n |-> Pow(training.gamma, Discounts(m, i))
                                    * training.rewards[m].shaping[i]])
         = One * (Pow(training.gamma, exponent) * Potential(m, End(m, n)) - One * Potential(m, 0))

(***************************************************************************)
(* A stage score that a Final Reward uses starts at -1, never exceeds 0,   *)
(* and is 0 from the confirmed success on: negative keyframes, the         *)
(* interpolation and the tail after success do not break this.             *)
(***************************************************************************)
SuccessScoresZero ==
  \A m \in Members : saved[m] # None /\ NeedsStage(saved[m].recipe) =>
    /\ saved[m].scores[0] = -Scale
    /\ \A t \in 0..Count : saved[m].scores[t] <= 0
    /\ SuccessStep(m) # None => \A t \in SuccessStep(m)..Count : saved[m].scores[t] = 0
=============================================================================
