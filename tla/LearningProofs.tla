--------------------------- MODULE LearningProofs ---------------------------
EXTENDS MCLearning, FiniteSetTheorems, WellFoundedInduction, TLAPS

runVars == <<run, phase, total, step, actor, critic, drawn, pending, latest, closing, stop, disk>>

LEMMA RunVars == UNCHANGED runVars <=> UNCHANGED Run!vars
BY DEF runVars, Run!vars, Run!process


(***************************************************************************)
(* The training process and the runs that resume from its checkpoints.     *)
(*                                                                         *)
(* That a resumed run has applied the gradients of an uninterrupted one is *)
(* not inductive by itself: a run takes over what a checkpoint holds, so   *)
(* the invariant says what each file of every checkpoint on the disk       *)
(* holds, those of runs killed between and inside the writes included      *)
(* (FileInv), and which of them are written when (SavingInv).  A           *)
(* checkpoint knows nothing of the train_steps of the run that resumes     *)
(* from it: its windows are those of any longer training exactly when all  *)
(* of them are full (Gathered).  The gradients accumulated between two     *)
(* applications are the steps after the last boundary (GradientInv), of    *)
(* which a checkpoint has none because the interval is a multiple of the   *)
(* accumulation; a stop is never older than one window because no boundary *)
(* is passed with the flag set (StopInv).                                  *)
(***************************************************************************)

Even(n) == [value |-> n, online |-> n, target |-> n]
StateOf(n) == [step |-> n, critic |-> Even(n), drawn |-> n]

\* The windows of n steps that no end of a training has cut short.
FullWindows(n) ==
  {<<k * Accumulation + 1, (k + 1) * Accumulation>> :
     k \in {j \in 0..n : (j + 1) * Accumulation <= n}}

\* What a complete actor file of step n holds.
Gathered(a, n) ==
  /\ a \subseteq Run!Windows /\ a # {} /\ \A w \in a : w[2] <= n
  /\ (\A w \in a : Run!Boundary(w[2])) => Run!Boundary(n) /\ a = FullWindows(n)

CheckpointFiles ==
  [actor : SUBSET Run!Windows,
    trainer : [step : Run!StepCounts, critic : Run!Critics, drawn : Run!StepCounts],
   whole : SUBSET {"actor", "trainer"}, meta : BOOLEAN]

FileInv(d, n) ==
  /\ d \in CheckpointFiles
  /\ "actor" \in d.whole => Gathered(d.actor, n)
  /\ "trainer" \in d.whole => d.trainer = StateOf(n)
  /\ d.meta => d.whole = {"actor", "trainer"} \/ (n % Interval # 0 /\ n \in Totals)

DiskInv ==
  /\ \A c \in DOMAIN disk :
       /\ c \in (1..MaxRuns) \X Run!StepCounts
       /\ c[1] <= run
       /\ c[1] = run => c[2] <= step /\ phase \notin {"idle", "booting", "loading"}
       /\ FileInv(disk[c], c[2])
  /\ disk = [c \in DOMAIN disk |-> disk[c]]

CountsInv ==
  /\ run \in 0..MaxRuns /\ phase \in Run!Phases /\ closing \in BOOLEAN
  /\ total \in Totals \cup {0}
  /\ phase # "idle" => run >= 1 /\ total \in Totals
  /\ step \in 0..total /\ drawn = step /\ critic = Even(step)
  /\ latest \in Run!StepCounts \cup {None}

GradientInv ==
  /\ actor \subseteq Run!Windows /\ \A w \in actor : w[2] <= step
  /\ ~Run!CutShort => actor = Run!Ideal(step)
  /\ \E b \in 0..step : pending = (b + 1)..step
  /\ phase \in {"booting", "loading"} => step = 0 /\ pending = {}
  /\ ~Run!CutShort /\ step < total => pending = (step - (step % Accumulation) + 1)..step
  /\ Run!Applies(step) => pending = {} /\ (step > 0 => actor # {})

Saving == {"save_actor", "save_trainer", "save_meta"}

SavingInv ==
  /\ phase \in Saving =>
       /\ step > 0 /\ Run!Applies(step) /\ (closing \/ Run!Checkpoints(step))
       /\ Run!Here \in Run!Listed => step % Interval # 0 /\ step = total
  /\ phase \in {"save_trainer", "save_meta"} =>
       /\ Run!Here \in DOMAIN disk /\ disk[Run!Here].actor = actor
       /\ "actor" \in disk[Run!Here].whole
  /\ phase = "save_meta" =>
       disk[Run!Here].trainer = Run!TrainerState /\ "trainer" \in disk[Run!Here].whole
  /\ phase = "deciding" =>
       /\ step > 0 /\ (Run!Here \in DOMAIN disk => Run!Checkpoints(step))
       /\ Run!Checkpoints(step) =>
            /\ Run!Here \in Run!Listed /\ latest # None /\ Run!Readable(Run!Here)
            /\ disk[Run!Here].actor = actor /\ disk[Run!Here].trainer = Run!TrainerState
  /\ Run!CanceledIsResumable

StopInv ==
  /\ stop \in 0..step \cup {None}
  /\ stop # None =>
       /\ phase = "training" => \A i \in (stop + 1)..step : ~Run!Boundary(i)
       /\ phase \in Saving \cup {"deciding"} => \A i \in (stop + 1)..(step - 1) : ~Run!Boundary(i)

RunIInv == CountsInv /\ GradientInv /\ DiskInv /\ SavingInv /\ StopInv

LEMMA RunConstants ==
  /\ Accumulation \in Nat \ {0} /\ Interval \in Nat \ {0} /\ Interval % Accumulation = 0
  /\ Totals \subseteq Nat \ {0} /\ MaxRuns \in Nat /\ None \notin Nat
BY LearningAssumption DEF Run!ConfigAssumption

LEMMA TotalsBounded ==
  Run!MaxTotal \in Nat /\ \A t \in Totals : t <= Run!MaxTotal /\ 0..t \subseteq Run!StepCounts
<1>1. \E most \in Totals : \A t \in Totals : t <= most
  BY LearningAssumption DEF Run!ConfigAssumption
<1>2. Run!MaxTotal \in Totals /\ \A t \in Totals : t <= Run!MaxTotal
  BY <1>1, RunConstants DEF Run!MaxTotal, Run!Max
<1> QED
  BY <1>2, RunConstants DEF Run!StepCounts

-----------------------------------------------------------------------------
(* The arithmetic of windows.                                              *)

LEMMA Product ==
  \A x, y \in Nat : x * y \in Nat /\ (x + 1) * y = x * y + y /\ (y # 0 => x <= x * y)
OBVIOUS

(* The boundary before a step, and the steps since.                        *)
LEMMA DivMod ==
  ASSUME NEW n \in Nat
  PROVE  \E q \in 0..n, r \in 0..(Accumulation - 1) :
           n % Accumulation = r /\ n = q * Accumulation + r
<1> DEFINE q == n \div Accumulation
           r == n % Accumulation
<1>1. r \in 0..(Accumulation - 1)
  BY RunConstants
<1>2. n = q * Accumulation + r
  BY RunConstants
<1>3. q \in Nat
  BY RunConstants
<1>4. q \in 0..n
  <2> HIDE DEF q, r
  <2>1. q * Accumulation \in Nat /\ q <= q * Accumulation
    BY <1>3, Product, RunConstants
  <2> QED
    BY <1>1, <1>2, <1>3, <2>1, RunConstants
<1> WITNESS q \in 0..n
<1> WITNESS r \in 0..(Accumulation - 1)
<1> QED
  BY <1>2

LEMMA ModOf ==
  ASSUME NEW q \in Nat, NEW r \in 0..(Accumulation - 1)
  PROVE  (q * Accumulation + r) % Accumulation = r
BY RunConstants

LEMMA Suc ==
  ASSUME NEW n \in Nat
  PROVE  (n + 1) % Accumulation = IF n % Accumulation = Accumulation - 1
                                    THEN 0 ELSE (n % Accumulation) + 1
<1>1. PICK q \in 0..n, r \in 0..(Accumulation - 1) :
        n % Accumulation = r /\ n = q * Accumulation + r
  BY DivMod
<1>a. /\ q \in Nat /\ q * Accumulation \in Nat
      /\ (q + 1) * Accumulation = q * Accumulation + Accumulation
  BY Product, RunConstants
<1>2. CASE r = Accumulation - 1
  <2>1. n + 1 = (q + 1) * Accumulation + 0
    BY <1>1, <1>a, <1>2, RunConstants
  <2>2. ((q + 1) * Accumulation + 0) % Accumulation = 0
    BY <1>a, ModOf, RunConstants
  <2> QED
    BY <2>1, <2>2, <1>1, <1>2
<1>3. CASE r # Accumulation - 1
  <2>1. n + 1 = q * Accumulation + (r + 1) /\ r + 1 \in 0..(Accumulation - 1)
    BY <1>1, <1>a, <1>3, RunConstants
  <2>2. (q * Accumulation + (r + 1)) % Accumulation = r + 1
    BY <2>1, <1>a, ModOf, RunConstants
  <2> QED
    BY <2>1, <2>2, <1>3, <1>1
<1> QED
  BY <1>2, <1>3

(* Every multiple of a checkpoint interval is a boundary.                  *)
LEMMA Mult ==
  ASSUME NEW I \in Nat \ {0}, I % Accumulation = 0, NEW n \in Nat, n % I = 0
  PROVE  n % Accumulation = 0
<1>1. PICK m \in 0..I, z \in 0..(Accumulation - 1) :
        I % Accumulation = z /\ I = m * Accumulation + z
  BY DivMod
<1>2. n = (n \div I) * I /\ n \div I \in Nat
  OBVIOUS
<1>3. PICK p \in Nat : n = p * I
  BY <1>2
<1>4. n = (p * m) * Accumulation + 0 /\ p * m \in Nat
  <2>1. I = m * Accumulation /\ m * Accumulation \in Nat
    BY <1>1, RunConstants
  <2>2. p * m \in Nat /\ p * (m * Accumulation) = (p * m) * Accumulation
    BY RunConstants
  <2> QED
    BY <2>1, <2>2, <1>3, RunConstants
<1> QED
  BY <1>4, ModOf, RunConstants

LEMMA MinPair ==
  ASSUME NEW a \in Nat, NEW b \in Nat
  PROVE  Run!Min({a, b}) = IF a <= b THEN a ELSE b
BY DEF Run!Min

LEMMA MinSeg ==
  ASSUME NEW a \in Nat, NEW b \in Nat, a <= b
  PROVE  Run!Min(a..b) = a /\ Run!Max(a..b) = b
BY DEF Run!Min, Run!Max

LEMMA WindowEnds ==
  ASSUME total \in Nat, NEW k \in Nat
  PROVE  Run!WindowEnd(k) = IF (k + 1) * Accumulation <= total
                              THEN (k + 1) * Accumulation ELSE total
<1>1. (k + 1) * Accumulation \in Nat
  BY RunConstants, Product
<1> QED
  BY <1>1, MinPair DEF Run!WindowEnd

LEMMA InIdeal ==
  ASSUME NEW n, NEW w
  PROVE  w \in Run!Ideal(n) <=>
           \E k \in 0..n : /\ k * Accumulation < n /\ Run!WindowEnd(k) <= n
                            /\ w = <<k * Accumulation + 1, Run!WindowEnd(k)>>
BY DEF Run!Ideal

LEMMA InFull ==
  ASSUME NEW n, NEW w
  PROVE  w \in FullWindows(n) <=>
           \E k \in 0..n : /\ (k + 1) * Accumulation <= n
                            /\ w = <<k * Accumulation + 1, (k + 1) * Accumulation>>
BY DEF FullWindows

(* Where no window is cut short the two agree.                             *)
LEMMA SameWindows ==
  ASSUME NEW n \in Nat,
         \A k \in 0..n :
           /\ k * Accumulation < n /\ Run!WindowEnd(k) <= n <=> (k + 1) * Accumulation <= n
           /\ (k + 1) * Accumulation <= n => Run!WindowEnd(k) = (k + 1) * Accumulation
  PROVE  Run!Ideal(n) = FullWindows(n)
<1>1. ASSUME NEW w, w \in Run!Ideal(n) PROVE w \in FullWindows(n)
  <2>1. PICK k \in 0..n : /\ k * Accumulation < n /\ Run!WindowEnd(k) <= n
                           /\ w = <<k * Accumulation + 1, Run!WindowEnd(k)>>
    BY <1>1, InIdeal
  <2>2. (k + 1) * Accumulation <= n /\ w = <<k * Accumulation + 1, (k + 1) * Accumulation>>
    BY <2>1
  <2> QED
    BY <2>2, InFull
<1>2. ASSUME NEW w, w \in FullWindows(n) PROVE w \in Run!Ideal(n)
  <2>1. PICK k \in 0..n : /\ (k + 1) * Accumulation <= n
                           /\ w = <<k * Accumulation + 1, (k + 1) * Accumulation>>
    BY <1>2, InFull
  <2>2. /\ k * Accumulation < n /\ Run!WindowEnd(k) <= n
        /\ w = <<k * Accumulation + 1, Run!WindowEnd(k)>>
    BY <2>1
  <2> QED
    BY <2>2, InIdeal
<1> QED
  BY <1>1, <1>2

(* Before the end of the training all windows are whole.                   *)
LEMMA IdealBefore ==
  ASSUME total \in Nat, NEW n \in Nat, n < total
  PROVE  Run!Ideal(n) = FullWindows(n)
<1>1. ASSUME NEW k \in 0..n
      PROVE  /\ k * Accumulation < n /\ Run!WindowEnd(k) <= n <=> (k + 1) * Accumulation <= n
             /\ (k + 1) * Accumulation <= n => Run!WindowEnd(k) = (k + 1) * Accumulation
  <2>1. /\ k \in Nat /\ k * Accumulation \in Nat
        /\ (k + 1) * Accumulation = k * Accumulation + Accumulation
    BY Product, RunConstants
  <2> QED
    BY <2>1, WindowEnds, RunConstants
<1> QED
  BY <1>1, SameWindows

(* The windows a training of whole windows ends with are whole.            *)
LEMMA IdealAtEnd ==
  ASSUME total \in Nat \ {0}, \A w \in Run!Ideal(total) : Run!Boundary(w[2])
  PROVE  Run!Boundary(total) /\ Run!Ideal(total) = FullWindows(total)
<1>1. PICK q \in 0..total, r \in 0..(Accumulation - 1) :
        total % Accumulation = r /\ total = q * Accumulation + r
  BY DivMod
<1>2. /\ q \in Nat /\ q * Accumulation \in Nat
      /\ (q + 1) * Accumulation = q * Accumulation + Accumulation
  BY Product, RunConstants
<1>3. r = 0
  <2> SUFFICES ASSUME r # 0 PROVE FALSE
    OBVIOUS
  <2>1. Run!WindowEnd(q) = total
    BY <1>1, <1>2, WindowEnds, RunConstants
  <2>2. <<q * Accumulation + 1, total>> \in Run!Ideal(total)
    BY <1>1, <1>2, <2>1, InIdeal
  <2>3. Run!Boundary(total)
    BY <2>2
  <2> QED
    BY <1>1, <2>3 DEF Run!Boundary
<1>4. ASSUME NEW k \in 0..total
      PROVE  /\ k * Accumulation < total /\ Run!WindowEnd(k) <= total
                 <=> (k + 1) * Accumulation <= total
             /\ (k + 1) * Accumulation <= total => Run!WindowEnd(k) = (k + 1) * Accumulation
  <2>1. /\ k \in Nat /\ k * Accumulation \in Nat
        /\ (k + 1) * Accumulation = k * Accumulation + Accumulation
    BY Product, RunConstants
  <2>2. k * Accumulation < q * Accumulation => (k + 1) * Accumulation <= q * Accumulation
    <3> SUFFICES ASSUME k * Accumulation < q * Accumulation
                 PROVE  (k + 1) * Accumulation <= q * Accumulation
      OBVIOUS
    <3>1. k + 1 <= q
      BY <1>2, <2>1, RunConstants
    <3> QED
      BY <1>2, <2>1, <3>1, RunConstants
  <2> QED
    BY <1>1, <1>2, <1>3, <2>1, <2>2, WindowEnds, RunConstants
<1> QED
  BY <1>1, <1>3, <1>4, SameWindows DEF Run!Boundary

(* One step adds the window it closes.                                     *)
LEMMA IdealStep ==
  ASSUME NEW n \in Nat, total \in Nat, n < total
  PROVE  Run!Ideal(n + 1) = Run!Ideal(n) \cup (IF Run!Applies(n + 1)
                                         THEN {<<n - (n % Accumulation) + 1, n + 1>>} ELSE {})
<1>1. PICK q \in 0..n, r \in 0..(Accumulation - 1) :
        n % Accumulation = r /\ n = q * Accumulation + r
  BY DivMod
<1>2. /\ q \in Nat /\ q * Accumulation \in Nat
      /\ (q + 1) * Accumulation = q * Accumulation + Accumulation
  BY Product, RunConstants
<1>3. Run!Boundary(n + 1) <=> n + 1 = (q + 1) * Accumulation
  <2>1. Run!Boundary(n + 1) <=> r = Accumulation - 1
    <3>1. (n + 1) % Accumulation = IF n % Accumulation = Accumulation - 1
                                     THEN 0 ELSE (n % Accumulation) + 1
      BY Suc
    <3>2. (n + 1) % Accumulation = IF r = Accumulation - 1 THEN 0 ELSE r + 1
      BY <1>1, <3>1
    <3>3. (n + 1) % Accumulation = 0 <=> r = Accumulation - 1
      BY <3>2, <1>1, RunConstants
    <3> QED
      BY <3>3 DEF Run!Boundary
  <2> QED
    BY <1>1, <1>2, <2>1, RunConstants
<1>4. Run!Applies(n + 1) <=> Run!WindowEnd(q) = n + 1
  BY <1>1, <1>2, <1>3, WindowEnds, RunConstants DEF Run!Applies
<1>5. ASSUME NEW k \in Nat, k * Accumulation < n + 1, Run!WindowEnd(k) <= n + 1
      PROVE  (k * Accumulation < n /\ Run!WindowEnd(k) <= n) \/ (k = q /\ Run!WindowEnd(k) = n + 1)
  <2>1. /\ k * Accumulation \in Nat
        /\ (k + 1) * Accumulation = k * Accumulation + Accumulation
    BY Product, RunConstants
  <2>2. Run!WindowEnd(k) = IF (k + 1) * Accumulation <= total THEN (k + 1) * Accumulation ELSE total
    BY WindowEnds
  <2>3. CASE Run!WindowEnd(k) <= n
    BY <2>1, <2>2, <2>3, <1>5, RunConstants
  <2>4. CASE Run!WindowEnd(k) = n + 1
    <3>1. k * Accumulation <= n /\ n < (k + 1) * Accumulation
      BY <1>5, <2>1, <2>2, <2>4, RunConstants
    <3>2. q * Accumulation <= n /\ n < (q + 1) * Accumulation
      BY <1>1, <1>2, RunConstants
    <3>3. k = q
      BY <3>1, <3>2, <1>2, RunConstants
    <3> QED
      BY <3>3, <2>4
  <2>5. Run!WindowEnd(k) \in Nat
    BY <2>1, <2>2, RunConstants
  <2> QED
    BY <1>5, <2>3, <2>4, <2>5
<1>6. /\ q \in 0..(n + 1) /\ q * Accumulation < n + 1
      /\ q * Accumulation + 1 = n - (n % Accumulation) + 1
  BY <1>1, <1>2
<1>7. \A w : w \in Run!Ideal(n) => w \in Run!Ideal(n + 1)
  <2> SUFFICES ASSUME NEW w, w \in Run!Ideal(n) PROVE w \in Run!Ideal(n + 1)
    OBVIOUS
  <2>1. PICK k \in 0..n : /\ k * Accumulation < n /\ Run!WindowEnd(k) <= n
                           /\ w = <<k * Accumulation + 1, Run!WindowEnd(k)>>
    BY InIdeal
  <2>2. k * Accumulation \in Nat /\ Run!WindowEnd(k) \in Nat
    BY Product, WindowEnds, RunConstants
  <2>3. k \in 0..(n + 1) /\ k * Accumulation < n + 1 /\ Run!WindowEnd(k) <= n + 1
    BY <2>1, <2>2
  <2> QED
    BY <2>1, <2>3, InIdeal
<1>8. Run!Applies(n + 1) => <<n - (n % Accumulation) + 1, n + 1>> \in Run!Ideal(n + 1)
  BY <1>4, <1>6, InIdeal
<1>9. ASSUME NEW w, w \in Run!Ideal(n + 1)
      PROVE  w \in Run!Ideal(n) \/ (Run!Applies(n + 1) /\ w = <<n - (n % Accumulation) + 1, n + 1>>)
  <2>1. PICK k \in 0..(n + 1) : /\ k * Accumulation < n + 1 /\ Run!WindowEnd(k) <= n + 1
                                 /\ w = <<k * Accumulation + 1, Run!WindowEnd(k)>>
    BY <1>9, InIdeal
  <2>2. CASE k * Accumulation < n /\ Run!WindowEnd(k) <= n
    <3>1. k \in 0..n
      BY <2>2, Product, RunConstants
    <3> QED
      BY <2>1, <2>2, <3>1, InIdeal
  <2>3. CASE k = q /\ Run!WindowEnd(k) = n + 1
    BY <2>1, <2>3, <1>4, <1>6
  <2> QED
    BY <2>1, <2>2, <2>3, <1>5
<1> QED
  BY <1>7, <1>8, <1>9

(* One update of the critic brings all three networks one step on.         *)
LEMMA CriticStep == ASSUME NEW n \in Nat PROVE Run!CriticUpdate(Even(n)) = Even(n + 1)
<1>1. Run!FitValue(Even(n)) = [value |-> n + 1, online |-> n, target |-> n]
  BY DEF Run!FitValue, Even
<1>2. Run!FitQ([value |-> n + 1, online |-> n, target |-> n])
        = [value |-> n + 1, online |-> n + 1, target |-> n]
  BY DEF Run!FitQ
<1>3. Run!FollowQ([value |-> n + 1, online |-> n + 1, target |-> n]) = Even(n + 1)
  BY DEF Run!FollowQ, Even
<1> QED
  BY <1>1, <1>2, <1>3 DEF Run!CriticUpdate

(* A checkpoint that can be restored is one step's.                        *)
LEMMA RestoreReads ==
  ASSUME DiskInv, NEW c \in DOMAIN disk, Run!Restore(c)
  PROVE  /\ step' = c[2] /\ step' \in Run!StepCounts /\ step' < total
         /\ critic' = Even(step') /\ drawn' = step' /\ Gathered(actor', step')
<1>1. FileInv(disk[c], c[2]) /\ c[2] \in Run!StepCounts
  BY DEF DiskInv
<1>2. disk[c].trainer = StateOf(c[2]) /\ Gathered(disk[c].actor, c[2])
  BY <1>1 DEF FileInv, Run!Restore, Run!Readable
<1> QED
  BY <1>1, <1>2 DEF Run!Restore, StateOf

LEMMA CountsStep ==
  ASSUME CountsInv, GradientInv, DiskInv, [Run!Next]_runVars
  PROVE  CountsInv'
<1> USE RunConstants DEF CountsInv
<1>s. ASSUME UNCHANGED <<run, total, step, drawn, critic>>, phase # "idle",
             phase' \in Run!Phases, closing' \in BOOLEAN, latest' \in {latest, step}
      PROVE  CountsInv'
  <2>1. step \in Run!StepCounts
    BY <1>s, TotalsBounded
  <2> QED
    BY <1>s, <2>1
<1>1. ASSUME NEW t \in Totals, Run!Launch(t) PROVE CountsInv'
  <2>1. Run!NewCritic = Even(0)
    BY DEF Run!NewCritic, Even
  <2>2. run + 1 \in 0..MaxRuns /\ run + 1 >= 1 /\ t \in Nat
    BY <1>1 DEF Run!Launch
  <2> QED
    <3>1. /\ run' = run + 1 /\ phase' = "booting" /\ total' = t /\ step' = 0 /\ drawn' = 0
          /\ critic' = Run!NewCritic /\ latest' = None /\ closing' = FALSE
      BY <1>1 DEF Run!Launch
    <3>2. critic' = Even(step') /\ drawn' = step' /\ step' \in 0..total'
      BY <2>1, <2>2, <3>1
    <3>3. phase' \in Run!Phases /\ closing' \in BOOLEAN /\ latest' \in Run!StepCounts \cup {None}
      BY <3>1 DEF Run!Phases
    <3>4. run' \in 0..MaxRuns /\ run' >= 1 /\ total' \in Totals
      BY <1>1, <2>2, <3>1
    <3> QED
      BY <3>2, <3>3, <3>4
<1>2. CASE Run!ClearStop \/ Run!StartFresh \/ \E c \in DOMAIN disk : Run!RefuseResume(c)
  BY <1>2, <1>s DEF Run!ClearStop, Run!StartFresh, Run!RefuseResume, Run!process, Run!Phases
<1>3. ASSUME NEW c \in DOMAIN disk, Run!Restore(c) PROVE CountsInv'
  <2>1. /\ step' \in Run!StepCounts /\ step' < total
        /\ critic' = Even(step') /\ drawn' = step'
    BY <1>3, RestoreReads
  <2>2. step' \in 0..total
    BY <2>1, TotalsBounded DEF Run!StepCounts
  <2> QED
    BY <1>3, <2>1, <2>2 DEF Run!Restore, Run!Phases
<1>4. CASE Run!Train
  <2>1. step \in Nat /\ step + 1 \in 0..total
    BY <1>4 DEF Run!Train
  <2>2. critic' = Even(step + 1)
    BY <1>4, <2>1, CriticStep DEF Run!Train
  <2> QED
    BY <1>4, <2>1, <2>2 DEF Run!Train, Run!Phases
<1>5. CASE \/ Run!SaveActor \/ Run!SaveTrainer \/ Run!SaveMeta \/ Run!HandleStop
           \/ Run!NextIteration \/ Run!Publish
  BY <1>5, <1>s DEF Run!SaveActor, Run!SaveTrainer, Run!SaveMeta, Run!HandleStop,
                Run!NextIteration, Run!Publish, Run!process,
                    Run!Phases, Run!NeedsCheckpoint
<1>6. CASE Run!RequestStop \/ Run!Kill
  BY <1>6, <1>s DEF Run!RequestStop, Run!Kill, Run!process, Run!Phases, Run!Ended
<1>7. CASE UNCHANGED runVars
  BY <1>7 DEF runVars, Run!process
<1> QED
  BY <1>1, <1>2, <1>3, <1>4, <1>5, <1>6, <1>7 DEF Run!Next

-----------------------------------------------------------------------------
(* The gradients.                                                          *)

(* What it says of the windows depends on what has been gathered alone.    *)
LEMMA GradientsKept ==
  ASSUME GradientInv, UNCHANGED <<total, step, actor, pending>>,
         phase' \in {"booting", "loading"} => phase \in {"booting", "loading"}
  PROVE  GradientInv'
<1>1. /\ Run!CutShort' = Run!CutShort /\ Run!Ideal(step)' = Run!Ideal(step)
      /\ Run!Applies(step)' = Run!Applies(step)
  BY DEF Run!CutShort, Run!Ideal, Run!WindowEnd, Run!Applies, Run!Boundary
<1> QED
  BY <1>1 DEF GradientInv

LEMMA TrainGathers ==
  ASSUME CountsInv, GradientInv, Run!Train
  PROVE  GradientInv'
<1> DEFINE n == step + 1
           gathered == pending \cup {n}
           window == <<step - (step % Accumulation) + 1, n>>
<1> USE RunConstants
<1>1. /\ step \in Nat /\ total \in Nat /\ step < total /\ n \in Run!StepCounts
      /\ 0 \in Run!StepCounts
  BY TotalsBounded DEF Run!Train, CountsInv, Run!StepCounts
<1>2. PICK b \in 0..step : pending = (b + 1)..step
  BY DEF GradientInv
<1>3. gathered = (b + 1)..n /\ b \in Nat /\ b + 1 <= n /\ b + 1 \in Run!StepCounts
  BY <1>1, <1>2, TotalsBounded DEF Run!StepCounts
<1>4. Run!AccumulationWindow(gathered) = <<b + 1, n>>
  <2>1. b + 1 \in Nat /\ n \in Nat
    BY <1>1, <1>3
  <2>2. Run!Min((b + 1)..n) = b + 1 /\ Run!Max((b + 1)..n) = n
    BY <1>3, <2>1, MinSeg
  <2> QED
    BY <1>3, <2>2 DEF Run!AccumulationWindow
<1>5. /\ step' = n /\ total' = total
      /\ Run!Applies(n) => actor' = actor \cup {<<b + 1, n>>} /\ pending' = {}
      /\ ~Run!Applies(n) => actor' = actor /\ pending' = gathered
      /\ Run!Applies(step)' <=> Run!Applies(n)
  BY <1>4 DEF Run!Train, Run!Applies, Run!Boundary
<1>6. ~Run!CutShort' => ~Run!CutShort
  BY <1>5 DEF Run!CutShort, Run!Boundary
<1>7. ~Run!CutShort' => b = step - (step % Accumulation)
  <2> SUFFICES ASSUME ~Run!CutShort PROVE b = step - (step % Accumulation)
    BY <1>6
  <2>1. (b + 1)..step = (step - (step % Accumulation) + 1)..step
    BY <1>1, <1>2 DEF GradientInv
  <2>2. PICK q \in 0..step, r \in 0..(Accumulation - 1) :
          step % Accumulation = r /\ step = q * Accumulation + r
    BY <1>1, DivMod
  <2>3. r <= step
    BY <2>2, <1>1, Product
  <2>4. (b + 1)..step = (step - r + 1)..step
    BY <2>1, <2>2
  <2>5. CASE r = 0
    BY <2>2, <2>4, <2>5, <1>1
  <2>6. CASE r # 0
    BY <2>2, <2>3, <2>4, <2>6, <1>1
  <2> QED
    BY <2>5, <2>6
<1>8. actor' \subseteq Run!Windows /\ \A w \in actor' : w[2] <= step'
  <2>1. <<b + 1, n>> \in Run!Windows
    BY <1>1, <1>3 DEF Run!Windows
  <2>2. \A w \in actor : w \in Run!Windows /\ w[2] <= step /\ w[2] \in Nat
    BY TotalsBounded DEF GradientInv, Run!Windows, Run!StepCounts
  <2> QED
    BY <1>1, <1>5, <2>1, <2>2
<1>9. ~Run!CutShort' => actor' = Run!Ideal(step)'
  <2> SUFFICES ASSUME ~Run!CutShort' PROVE actor' = Run!Ideal(step)'
    OBVIOUS
  <2>1. actor = Run!Ideal(step)
    BY <1>6 DEF GradientInv
  <2>2. Run!Ideal(step)' = Run!Ideal(n)
    BY <1>5 DEF Run!Ideal, Run!WindowEnd
  <2>3. Run!Ideal(n) = Run!Ideal(step) \cup (IF Run!Applies(n) THEN {window} ELSE {})
    BY <1>1, IdealStep
  <2>4. window = <<b + 1, n>>
    BY <1>7
  <2> QED
    BY <1>5, <2>1, <2>2, <2>3, <2>4
<1>10. \E d \in 0..step' : pending' = (d + 1)..step'
  <2>1. CASE Run!Applies(n)
    <3>1. {} = (n + 1)..n
      BY <1>1
    <3>2. pending' = {}
      BY <1>5, <2>1
    <3>3. pending' = (n + 1)..n /\ n \in 0..n
      BY <1>1, <3>1, <3>2
    <3> QED
      BY <1>5, <3>3
  <2>2. CASE ~Run!Applies(n)
    <3>1. pending' = gathered
      BY <1>5, <2>2
    <3>2. pending' = (b + 1)..n /\ b \in 0..n
      BY <1>1, <1>3, <3>1
    <3> QED
      BY <1>5, <3>2
  <2> QED
    BY <2>1, <2>2
<1>11. ~Run!CutShort' /\ step' < total' =>
         pending' = (step' - (step' % Accumulation) + 1)..step'
  <2> SUFFICES ASSUME ~Run!CutShort', n < total
               PROVE  pending' = (n - (n % Accumulation) + 1)..n
    BY <1>5
  <2>1. Run!Applies(n) <=> n % Accumulation = 0
    BY <1>1 DEF Run!Applies, Run!Boundary
  <2>2. n % Accumulation = IF step % Accumulation = Accumulation - 1
                             THEN 0 ELSE (step % Accumulation) + 1
    BY <1>1, Suc
  <2>3. PICK q \in 0..step, r \in 0..(Accumulation - 1) :
          step % Accumulation = r /\ step = q * Accumulation + r
    BY <1>1, DivMod
  <2>4. CASE r = Accumulation - 1
    <3>1. n % Accumulation = 0
      BY <2>2, <2>3, <2>4
    <3>2. pending' = {}
      BY <1>5, <2>1, <3>1
    <3>3. (n - 0 + 1)..n = {}
      BY <1>1
    <3> QED
      BY <3>1, <3>2, <3>3
  <2>5. CASE r # Accumulation - 1
    <3>1. n % Accumulation = r + 1
      BY <2>2, <2>3, <2>5
    <3>2. pending' = (b + 1)..n
      <4>1. ~Run!Applies(n)
        BY <2>1, <2>3, <3>1, <1>1
      <4> QED
        BY <1>3, <1>5, <4>1
    <3>3. b = step - r
      BY <1>7, <2>3
    <3>4. n - (r + 1) + 1 = b + 1
      BY <1>1, <3>3
    <3> QED
      BY <3>1, <3>2, <3>4
  <2> QED
    BY <2>4, <2>5
<1>12. Run!Applies(step)' => pending' = {} /\ actor' # {}
  BY <1>5
<1> QED
  BY <1>1, <1>5, <1>8, <1>9, <1>10, <1>11, <1>12 DEF GradientInv, Run!Train

LEMMA RestoreGathers ==
  ASSUME CountsInv, GradientInv, DiskInv, NEW c \in DOMAIN disk, Run!Restore(c)
  PROVE  GradientInv'
<1> DEFINE n == c[2]
<1> USE RunConstants
<1>1. /\ step' = n /\ n \in Run!StepCounts /\ n < total /\ Gathered(actor', n)
      /\ total' = total /\ pending' = {} /\ phase' = "training"
  BY RestoreReads DEF Run!Restore, GradientInv
<1>2. n \in Nat /\ total \in Nat
  <2>1. n \in 0..Run!MaxTotal
    BY <1>1 DEF Run!StepCounts
  <2>2. total \in Nat
    BY DEF CountsInv
  <2> QED
    BY <2>1, <2>2, TotalsBounded
<1>3. actor' \subseteq Run!Windows /\ actor' # {} /\ \A w \in actor' : w[2] <= n
  BY <1>1 DEF Gathered
<1>4. ~Run!CutShort' => Run!Boundary(n) /\ actor' = Run!Ideal(step)'
  <2> SUFFICES ASSUME ~Run!CutShort' PROVE Run!Boundary(n) /\ actor' = Run!Ideal(step)'
    OBVIOUS
  <2>1. \A w \in actor' : Run!Boundary(w[2]) \/ w[2] = total
    BY <1>1 DEF Run!CutShort, Run!Boundary
  <2>2. \A w \in actor' : w[2] # total
    BY <1>1, <1>2, <1>3
  <2>3. Run!Boundary(n) /\ actor' = FullWindows(n)
    BY <1>1, <2>1, <2>2 DEF Gathered
  <2>4. Run!Ideal(step)' = Run!Ideal(n)
    BY <1>1 DEF Run!Ideal, Run!WindowEnd
  <2> QED
    BY <1>1, <1>2, <2>3, <2>4, IdealBefore
<1>5. {} = (n + 1)..n /\ n \in 0..n
  BY <1>2
<1>6. ~Run!CutShort' => pending' = (n - (n % Accumulation) + 1)..n
  BY <1>1, <1>2, <1>4, <1>5 DEF Run!Boundary
<1>7. \E b \in 0..step' : pending' = (b + 1)..step'
  BY <1>1, <1>5
<1> QED
  BY <1>1, <1>3, <1>4, <1>6, <1>7 DEF GradientInv

LEMMA GradientStep ==
  ASSUME CountsInv, GradientInv, DiskInv, [Run!Next]_runVars
  PROVE  GradientInv'
<1>1. ASSUME NEW t \in Totals, Run!Launch(t) PROVE GradientInv'
  <2> USE RunConstants
  <2>1. step' = 0 /\ actor' = {} /\ pending' = {} /\ total' = t /\ t \in Nat
    BY <1>1 DEF Run!Launch
  <2>2. ~Run!CutShort'
    BY <2>1 DEF Run!CutShort
  <2>3. Run!Ideal(step)' = {}
    <3>1. \A k \in 0..0 : ~(k * Accumulation < 0)
      OBVIOUS
    <3> QED
      BY <2>1, <3>1 DEF Run!Ideal
  <2>4. {} = (0 + 1)..0 /\ 0 \in 0..0
    OBVIOUS
  <2>5. 0 % Accumulation = 0
    <3>1. PICK q \in 0..0, r \in 0..(Accumulation - 1) :
            0 % Accumulation = r /\ 0 = q * Accumulation + r
      BY DivMod
    <3>2. q = 0 /\ q * Accumulation = 0
      OBVIOUS
    <3> QED
      BY <3>1, <3>2
  <2>6. pending' = (0 - (0 % Accumulation) + 1)..0
    BY <2>1, <2>4, <2>5
  <2>7. \E b \in 0..step' : pending' = (b + 1)..step'
    BY <2>1, <2>4
  <2> QED
    BY <2>1, <2>2, <2>3, <2>6, <2>7 DEF GradientInv
<1>2. CASE Run!ClearStop \/ Run!StartFresh \/ \E c \in DOMAIN disk : Run!RefuseResume(c)
  BY <1>2, GradientsKept DEF Run!ClearStop, Run!StartFresh, Run!RefuseResume, Run!process
<1>3. ASSUME NEW c \in DOMAIN disk, Run!Restore(c) PROVE GradientInv'
  BY <1>3, RestoreGathers
<1>4. CASE Run!Train
  BY <1>4, TrainGathers
<1>5. CASE \/ Run!SaveActor \/ Run!SaveTrainer \/ Run!SaveMeta \/ Run!HandleStop
           \/ Run!NextIteration \/ Run!Publish
  BY <1>5, GradientsKept DEF Run!SaveActor, Run!SaveTrainer, Run!SaveMeta, Run!HandleStop,
                Run!NextIteration, Run!Publish,
                             Run!process
<1>6. CASE Run!RequestStop \/ Run!Kill
  BY <1>6, GradientsKept DEF Run!RequestStop, Run!Kill, Run!process
<1>7. CASE UNCHANGED runVars
  BY <1>7, GradientsKept DEF runVars, Run!process
<1> QED
  BY <1>1, <1>2, <1>3, <1>4, <1>5, <1>6, <1>7 DEF Run!Next

(* At the end of a window a checkpoint can be made of the actor: if it has *)
(* been cut short nowhere it has all windows so far.                       *)
LEMMA ActorGathered ==
  ASSUME CountsInv, GradientInv, step > 0, Run!Applies(step)
  PROVE  Gathered(actor, step)
<1> USE RunConstants
<1>1. step \in Nat /\ total \in Nat \ {0} /\ step <= total
  BY DEF CountsInv
<1>2. ASSUME \A w \in actor : Run!Boundary(w[2])
      PROVE  Run!Boundary(step) /\ actor = FullWindows(step)
  <2>1. actor = Run!Ideal(step)
    BY <1>2 DEF GradientInv, Run!CutShort
  <2>2. CASE step < total
    BY <1>1, <2>1, <2>2, IdealBefore DEF Run!Applies
  <2>3. CASE step = total
    BY <1>1, <1>2, <2>1, <2>3, IdealAtEnd
  <2> QED
    BY <1>1, <2>2, <2>3
<1> QED
  BY <1>2 DEF Gathered, GradientInv

-----------------------------------------------------------------------------
(* The checkpoints.                                                        *)

(* The files before and after.                                             *)
LEMMA DiskKept ==
  ASSUME CountsInv, DiskInv, UNCHANGED disk,
         \/ /\ run' = run /\ step <= step' /\ step' \in Nat
            /\ phase' \in {"idle", "booting", "loading"} => phase \in {"idle", "booting", "loading"}
         \/ run' = run + 1
  PROVE  DiskInv'
<1> USE RunConstants
<1>1. /\ DOMAIN disk' = DOMAIN disk /\ disk' = disk
      /\ \A c \in DOMAIN disk : FileInv(disk[c], c[2])' = FileInv(disk[c], c[2])
  BY DEF FileInv, Gathered, Run!Boundary, FullWindows
<1>2. ASSUME NEW c \in DOMAIN disk
      PROVE  /\ c \in (1..MaxRuns) \X Run!StepCounts /\ FileInv(disk[c], c[2])
             /\ c[1] <= run'
             /\ c[1] = run' => c[2] <= step' /\ phase' \notin {"idle", "booting", "loading"}
  <2>1. /\ c \in (1..MaxRuns) \X Run!StepCounts /\ FileInv(disk[c], c[2]) /\ c[1] <= run
        /\ c[1] = run => c[2] <= step /\ phase \notin {"idle", "booting", "loading"}
    BY DEF DiskInv
  <2>2. c[1] \in Nat /\ c[2] \in Nat /\ run \in Nat /\ step \in Nat
    BY <2>1, TotalsBounded DEF Run!StepCounts, CountsInv
  <2> QED
    BY <2>1, <2>2
<1> QED
  BY <1>1, <1>2 DEF DiskInv

LEMMA DiskWritten ==
  ASSUME CountsInv, DiskInv, phase \notin {"idle", "booting", "loading"},
         NEW f, FileInv(f, step), Run!Write(f),
         run' = run, step' = step, phase' \notin {"idle", "booting", "loading"}
  PROVE  DiskInv'
<1> USE RunConstants
<1>1. Run!Here \in (1..MaxRuns) \X Run!StepCounts /\ Run!Here[1] = run /\ Run!Here[2] = step
  <2>1. run \in 1..MaxRuns /\ step \in Run!StepCounts
    BY TotalsBounded DEF CountsInv
  <2> QED
    BY <2>1 DEF Run!Here
<1>2. /\ DOMAIN disk' = DOMAIN disk \cup {Run!Here}
      /\ disk' = [c \in DOMAIN disk' |-> disk'[c]]
      /\ \A c \in DOMAIN disk' : disk'[c] = IF c = Run!Here THEN f ELSE disk[c]
  BY DEF Run!Write
<1>3. ASSUME NEW c \in DOMAIN disk'
      PROVE  /\ c \in (1..MaxRuns) \X Run!StepCounts /\ FileInv(disk'[c], c[2])
             /\ c[1] <= run'
             /\ c[1] = run' => c[2] <= step' /\ phase' \notin {"idle", "booting", "loading"}
  <2>1. CASE c = Run!Here
    BY <1>1, <1>2, <2>1 DEF CountsInv
  <2>2. CASE c # Run!Here
    BY <1>2, <2>2 DEF DiskInv
  <2> QED
    BY <2>1, <2>2
<1>4. \A c \in DOMAIN disk' : FileInv(disk[c], c[2])' = FileInv(disk'[c], c[2])
  BY DEF FileInv, Gathered, Run!Boundary, FullWindows
<1> QED
  BY <1>2, <1>3, <1>4 DEF DiskInv

(* What is there of the checkpoint of this step.                           *)
LEMMA FilesHere ==
  ASSUME CountsInv, DiskInv
  PROVE  FileInv(Run!Files(Run!Here), step)
<1>1. CASE Run!Here \in DOMAIN disk
  BY <1>1 DEF Run!Files, Run!Here, DiskInv
<1>2. CASE Run!Here \notin DOMAIN disk
  <2>1. Run!NoFiles \in CheckpointFiles
    <3>1. 0 \in Run!StepCounts
      BY TotalsBounded DEF Run!StepCounts
    <3>2. Run!NewCritic \in Run!Critics
      BY <3>1 DEF Run!NewCritic, Run!Critics
    <3> QED
      BY <3>1, <3>2 DEF Run!NoFiles, CheckpointFiles
  <2> QED
    BY <1>2, <2>1 DEF Run!Files, FileInv, Run!NoFiles
<1> QED
  BY <1>1, <1>2

LEMMA DiskStep ==
  ASSUME CountsInv, GradientInv, DiskInv, SavingInv, [Run!Next]_runVars
  PROVE  DiskInv'
<1> USE RunConstants
<1>s. step \in Nat /\ step \in Run!StepCounts /\ step <= step
  BY TotalsBounded DEF CountsInv, Run!StepCounts
<1>1. ASSUME NEW t \in Totals, Run!Launch(t) PROVE DiskInv'
  BY <1>1, DiskKept DEF Run!Launch
<1>2. CASE Run!ClearStop \/ Run!StartFresh \/ \E c \in DOMAIN disk : Run!RefuseResume(c)
  BY <1>2, <1>s, DiskKept DEF Run!ClearStop, Run!StartFresh, Run!RefuseResume, Run!process
<1>3. ASSUME NEW c \in DOMAIN disk, Run!Restore(c) PROVE DiskInv'
  <2>1. step' \in Nat /\ step <= step'
    BY <1>3, RestoreReads, TotalsBounded DEF Run!StepCounts, Run!Restore, GradientInv
  <2> QED
    BY <1>3, <2>1, DiskKept DEF Run!Restore
<1>4. CASE Run!Train
  BY <1>4, <1>s, DiskKept DEF Run!Train
<1>5. ASSUME Run!SaveActor PROVE DiskInv'
  <2> DEFINE f == [Run!Files(Run!Here) EXCEPT !.actor = actor, !.whole = @ \cup {"actor"}]
  <2>1. Gathered(actor, step)
    BY <1>5, ActorGathered DEF Run!SaveActor, SavingInv, Saving
  <2>2. FileInv(f, step)
    <3>1. FileInv(Run!Files(Run!Here), step) /\ Run!Files(Run!Here) \in CheckpointFiles
      BY FilesHere DEF FileInv
    <3>2. actor \subseteq Run!Windows
      BY DEF GradientInv
    <3>3. /\ f \in CheckpointFiles /\ f.actor = actor /\ f.trainer = Run!Files(Run!Here).trainer
          /\ f.whole = Run!Files(Run!Here).whole \cup {"actor"} /\ f.meta = Run!Files(Run!Here).meta
      BY <3>1, <3>2 DEF CheckpointFiles
    <3> QED
      BY <2>1, <3>1, <3>3 DEF FileInv
  <2> QED
    BY <1>5, <2>2, DiskWritten DEF Run!SaveActor, Run!process
<1>6. ASSUME Run!SaveTrainer PROVE DiskInv'
  <2> DEFINE f == [Run!Files(Run!Here) EXCEPT !.trainer = Run!TrainerState,
                                              !.whole = @ \cup {"trainer"}]
  <2>1. /\ Run!TrainerState = StateOf(step)
        /\ Run!TrainerState \in [step : Run!StepCounts, critic : Run!Critics, drawn : Run!StepCounts]
    BY <1>s DEF Run!TrainerState, StateOf, CountsInv, Even, Run!Critics
  <2>2. FileInv(f, step)
    <3>1. FileInv(Run!Files(Run!Here), step) /\ Run!Files(Run!Here) \in CheckpointFiles
      BY FilesHere DEF FileInv
    <3>2. /\ f \in CheckpointFiles /\ f.actor = Run!Files(Run!Here).actor
          /\ f.trainer = Run!TrainerState
          /\ f.whole = Run!Files(Run!Here).whole \cup {"trainer"}
                /\ f.meta = Run!Files(Run!Here).meta
      BY <2>1, <3>1 DEF CheckpointFiles
    <3> QED
      BY <2>1, <3>1, <3>2 DEF FileInv
  <2> QED
    BY <1>6, <2>2, DiskWritten DEF Run!SaveTrainer, Run!process
<1>7. ASSUME Run!SaveMeta PROVE DiskInv'
  <2> DEFINE f == [Run!Files(Run!Here) EXCEPT !.meta = TRUE]
  <2>1. Run!Files(Run!Here).whole = {"actor", "trainer"}
    <3>1. Run!Files(Run!Here) \in CheckpointFiles
      BY FilesHere DEF FileInv
    <3> QED
      BY <1>7, <3>1 DEF Run!SaveMeta, SavingInv, Run!Files, CheckpointFiles
  <2>2. FileInv(f, step)
    <3>1. FileInv(Run!Files(Run!Here), step) /\ Run!Files(Run!Here) \in CheckpointFiles
      BY FilesHere DEF FileInv
    <3>2. /\ f \in CheckpointFiles /\ f.actor = Run!Files(Run!Here).actor
          /\ f.trainer = Run!Files(Run!Here).trainer /\ f.whole = Run!Files(Run!Here).whole
      BY <3>1 DEF CheckpointFiles
    <3> QED
      BY <2>1, <3>1, <3>2 DEF FileInv
  <2> QED
    BY <1>7, <2>2, DiskWritten DEF Run!SaveMeta
<1>8. CASE Run!HandleStop \/ Run!NextIteration \/ Run!Publish \/ Run!RequestStop
  BY <1>8, <1>s, DiskKept DEF Run!HandleStop, Run!NextIteration, Run!Publish, Run!RequestStop,
                Run!process
<1>9. ASSUME Run!Kill PROVE DiskInv'
  <2>1. CASE UNCHANGED disk
    BY <1>9, <2>1, <1>s, DiskKept DEF Run!Kill, Run!process
  <2>2. ASSUME phase \in {"save_actor", "save_trainer"}, NEW file \in {"actor", "trainer"},
               Run!Write([Run!Files(Run!Here) EXCEPT !.whole = @ \ {file}])
        PROVE  DiskInv'
    <3> DEFINE f == [Run!Files(Run!Here) EXCEPT !.whole = @ \ {file}]
    <3>1. FileInv(Run!Files(Run!Here), step) /\ Run!Files(Run!Here) \in CheckpointFiles
      BY FilesHere DEF FileInv
    <3>2. /\ f \in CheckpointFiles /\ f.actor = Run!Files(Run!Here).actor
          /\ f.trainer = Run!Files(Run!Here).trainer /\ f.whole = Run!Files(Run!Here).whole \ {file}
          /\ f.meta = Run!Files(Run!Here).meta
      BY <3>1 DEF CheckpointFiles
    <3>3. Run!Files(Run!Here).meta => step % Interval # 0 /\ step \in Totals
      BY <2>2 DEF SavingInv, Saving, Run!Files, Run!NoFiles, Run!Listed, CountsInv
    <3>4. FileInv(f, step)
      BY <3>1, <3>2, <3>3 DEF FileInv
    <3> QED
      BY <1>9, <2>2, <3>4, DiskWritten DEF Run!Kill, Run!process
  <2> QED
    BY <1>9, <2>1, <2>2 DEF Run!Kill
<1>10. CASE UNCHANGED runVars
  BY <1>10, <1>s, DiskKept DEF runVars, Run!process
<1> QED
  BY <1>1, <1>2, <1>3, <1>4, <1>5, <1>6, <1>7, <1>8, <1>9, <1>10 DEF Run!Next

(* What a write leaves of the checkpoint of this step.                     *)
LEMMA WrittenHere ==
  ASSUME NEW f, Run!Write(f), run' = run, step' = step
  PROVE  /\ Run!Here' = Run!Here /\ Run!Here \in DOMAIN disk'
         /\ disk'[Run!Here] = f /\ Run!Files(Run!Here)' = f
         /\ Run!Here' \in Run!Listed' <=> f.meta = TRUE
         /\ Run!Readable(Run!Here)' <=> f.whole = {"actor", "trainer"}
<1>1. Run!Here' = Run!Here /\ Run!Here \in DOMAIN disk' /\ disk'[Run!Here] = f
  BY DEF Run!Write, Run!Here
<1> QED
  BY <1>1 DEF Run!Files, Run!Listed, Run!Readable

(* Outside of saving, deciding and canceled there is nothing to say.       *)
LEMMA NothingSaved ==
  ASSUME phase' \notin {"save_actor", "save_trainer", "save_meta", "deciding", "canceled"}
  PROVE  SavingInv'
BY DEF SavingInv, Saving, Run!CanceledIsResumable

LEMMA SavingKept ==
  ASSUME SavingInv, UNCHANGED <<run, phase, Run!process, disk>>
  PROVE  SavingInv'
BY DEF SavingInv, Saving, Run!CanceledIsResumable, Run!process, Run!Here, Run!Listed,
       Run!Readable, Run!Files, Run!TrainerState,
       Run!Applies, Run!Checkpoints, Run!Boundary

LEMMA SavingStep ==
  ASSUME CountsInv, GradientInv, DiskInv, SavingInv, [Run!Next]_runVars
  PROVE  SavingInv'
<1> USE RunConstants
<1>1. ASSUME \/ \E t \in Totals : Run!Launch(t)
             \/ Run!ClearStop \/ Run!StartFresh \/ Run!NextIteration \/ Run!Publish \/ Run!Kill
             \/ \E c \in DOMAIN disk : Run!Restore(c) \/ Run!RefuseResume(c)
      PROVE  SavingInv'
  BY <1>1, NothingSaved DEF Run!Launch, Run!ClearStop, Run!StartFresh, Run!NextIteration,
                Run!Publish, Run!Kill, Run!Restore,
                            Run!RefuseResume
<1>2. CASE Run!RequestStop \/ UNCHANGED runVars
  BY <1>2, SavingKept DEF Run!RequestStop, runVars, Run!process
<1>3. ASSUME Run!Train PROVE SavingInv'
  <2> DEFINE n == step + 1
  <2>1. step \in Nat /\ n \in Nat /\ step' = n /\ run' = run /\ total' = total /\ disk' = disk
    BY <1>3 DEF Run!Train, CountsInv
  <2>2. Run!Here' \notin DOMAIN disk'
    <3>1. Run!Here'[1] = run /\ Run!Here'[2] = n
      BY <2>1 DEF Run!Here
    <3> QED
      BY <2>1, <3>1 DEF DiskInv
  <2>3. Run!Here' \notin Run!Listed'
    BY <2>2 DEF Run!Listed
  <2>4. Run!Checkpoints(n) => Run!Applies(n)
    BY <2>1, Mult DEF Run!Checkpoints, Run!Applies, Run!Boundary
  <2>5. Run!Checkpoints(step)' <=> Run!Checkpoints(n)
    BY <2>1 DEF Run!Checkpoints
  <2>6. Run!Applies(step)' <=> Run!Applies(n)
    BY <2>1 DEF Run!Applies, Run!Boundary
  <2>7. phase' = IF Run!Checkpoints(n) THEN "save_actor" ELSE "deciding"
    BY <1>3 DEF Run!Train
  <2>8. step' > 0
    BY <2>1
  <2>9. CASE Run!Checkpoints(n)
    BY <2>3, <2>4, <2>5, <2>6, <2>7, <2>8, <2>9 DEF SavingInv, Saving, Run!CanceledIsResumable
  <2>10. CASE ~Run!Checkpoints(n)
    BY <2>2, <2>5, <2>7, <2>8, <2>10 DEF SavingInv, Saving, Run!CanceledIsResumable
  <2> QED
    BY <2>9, <2>10
<1>4. FileInv(Run!Files(Run!Here), step) /\ Run!Files(Run!Here) \in CheckpointFiles
  BY FilesHere DEF FileInv
<1>5. ASSUME Run!SaveActor PROVE SavingInv'
  <2> DEFINE f == [Run!Files(Run!Here) EXCEPT !.actor = actor, !.whole = @ \cup {"actor"}]
  <2>1. f.actor = actor /\ "actor" \in f.whole /\ f.meta = Run!Files(Run!Here).meta
    BY <1>4 DEF CheckpointFiles
  <2>2. /\ Run!Write(f) /\ phase = "save_actor" /\ phase' = "save_trainer"
        /\ UNCHANGED <<run, Run!process, stop>>
    BY <1>5 DEF Run!SaveActor
  <2>3. /\ Run!Here' = Run!Here /\ Run!Here \in DOMAIN disk' /\ disk'[Run!Here] = f
        /\ Run!Here' \in Run!Listed' <=> f.meta = TRUE
    BY <2>2, WrittenHere DEF Run!process
  <2>4. f.meta = TRUE => Run!Here \in Run!Listed
    BY <2>1 DEF Run!Files, Run!NoFiles, Run!Listed
  <2>5. /\ step > 0 /\ Run!Applies(step) /\ (closing \/ Run!Checkpoints(step))
        /\ Run!Here \in Run!Listed => step % Interval # 0 /\ step = total
    BY <2>2 DEF SavingInv, Saving
  <2>6. UNCHANGED <<step, total, actor, closing, Run!Applies(step), Run!Checkpoints(step)>>
    BY <2>2 DEF Run!process, Run!Applies, Run!Checkpoints, Run!Boundary
  <2> QED
    BY <2>1, <2>2, <2>3, <2>4, <2>5, <2>6 DEF SavingInv, Saving, Run!CanceledIsResumable
<1>6. ASSUME Run!SaveTrainer PROVE SavingInv'
  <2> DEFINE f == [Run!Files(Run!Here) EXCEPT !.trainer = Run!TrainerState,
                                              !.whole = @ \cup {"trainer"}]
  <2>1. /\ f.actor = Run!Files(Run!Here).actor /\ f.trainer = Run!TrainerState
        /\ f.meta = Run!Files(Run!Here).meta
        /\ f.whole = Run!Files(Run!Here).whole \cup {"trainer"}
    BY <1>4 DEF CheckpointFiles
  <2>2. /\ Run!Write(f) /\ phase = "save_trainer" /\ phase' = "save_meta"
        /\ UNCHANGED <<run, Run!process, stop>>
    BY <1>6 DEF Run!SaveTrainer
  <2>3. /\ Run!Here' = Run!Here /\ Run!Here \in DOMAIN disk' /\ disk'[Run!Here] = f
        /\ Run!Here' \in Run!Listed' <=> f.meta = TRUE
    BY <2>2, WrittenHere DEF Run!process
  <2>4. f.meta = TRUE => Run!Here \in Run!Listed
    BY <2>1 DEF Run!Files, Run!NoFiles, Run!Listed
  <2>5. /\ step > 0 /\ Run!Applies(step) /\ (closing \/ Run!Checkpoints(step))
        /\ Run!Here \in Run!Listed => step % Interval # 0 /\ step = total
        /\ Run!Files(Run!Here).actor = actor /\ "actor" \in Run!Files(Run!Here).whole
    BY <2>2 DEF SavingInv, Saving, Run!Files
  <2>6. UNCHANGED <<step, total, actor, closing, Run!Applies(step),
                  Run!Checkpoints(step), Run!TrainerState>>
    BY <2>2 DEF Run!process, Run!Applies, Run!Checkpoints, Run!Boundary, Run!TrainerState
  <2> QED
    BY <2>1, <2>2, <2>3, <2>4, <2>5, <2>6 DEF SavingInv, Saving, Run!CanceledIsResumable
<1>7. ASSUME Run!SaveMeta PROVE SavingInv'
  <2> DEFINE f == [Run!Files(Run!Here) EXCEPT !.meta = TRUE]
  <2>1. /\ f.actor = Run!Files(Run!Here).actor /\ f.trainer = Run!Files(Run!Here).trainer
        /\ f.whole = Run!Files(Run!Here).whole /\ f.meta = TRUE
    BY <1>4 DEF CheckpointFiles
  <2>2. /\ Run!Write(f) /\ phase = "save_meta" /\ latest' = step
        /\ phase' = IF closing THEN "canceled" ELSE "deciding"
        /\ UNCHANGED <<run, total, step, actor, critic, drawn, pending, closing, stop>>
    BY <1>7 DEF Run!SaveMeta
  <2>3. /\ Run!Here' = Run!Here /\ Run!Here \in DOMAIN disk'
         /\ disk'[Run!Here] = f /\ Run!Files(Run!Here)' = f
        /\ Run!Here' \in Run!Listed'
        /\ Run!Readable(Run!Here)' <=> f.whole = {"actor", "trainer"}
    BY <2>1, <2>2, WrittenHere
  <2>4. /\ step > 0 /\ Run!Applies(step) /\ (closing \/ Run!Checkpoints(step))
        /\ Run!Files(Run!Here).actor = actor /\ "actor" \in Run!Files(Run!Here).whole
        /\ Run!Files(Run!Here).trainer = Run!TrainerState
        /\ "trainer" \in Run!Files(Run!Here).whole
    BY <2>2 DEF SavingInv, Saving, Run!Files
  <2>5. f.whole = {"actor", "trainer"}
    BY <1>4, <2>1, <2>4 DEF CheckpointFiles
  <2>6. pending = {} /\ step # None
    BY <2>4 DEF GradientInv, CountsInv
  <2>7. UNCHANGED <<step, total, actor, closing, Run!Checkpoints(step), Run!TrainerState, pending>>
    BY <2>2 DEF Run!Checkpoints, Run!TrainerState
  <2>8. CASE closing
    BY <2>1, <2>2, <2>3, <2>4, <2>5, <2>6, <2>7, <2>8 DEF SavingInv, Saving,
                Run!CanceledIsResumable
  <2>9. CASE ~closing
    BY <2>1, <2>2, <2>3, <2>4, <2>5, <2>6, <2>7, <2>9 DEF SavingInv, Saving,
                Run!CanceledIsResumable
  <2> QED
    BY <2>8, <2>9
<1>8. ASSUME Run!HandleStop PROVE SavingInv'
  <2>1. /\ phase = "deciding" /\ Run!StopsHere /\ closing' = Run!NeedsCheckpoint
        /\ phase' = IF Run!NeedsCheckpoint THEN "save_actor" ELSE "canceled"
        /\ UNCHANGED <<run, total, step, actor, critic, drawn, pending, latest, stop, disk>>
    BY <1>8 DEF Run!HandleStop
  <2>2. /\ step > 0 /\ (Run!Here \in DOMAIN disk => Run!Checkpoints(step))
        /\ Run!Checkpoints(step) =>
             /\ Run!Here \in Run!Listed /\ latest # None /\ Run!Readable(Run!Here)
             /\ disk[Run!Here].actor = actor /\ disk[Run!Here].trainer = Run!TrainerState
    BY <2>1 DEF SavingInv
  <2>3. Run!Applies(step)
    BY <2>1 DEF Run!StopsHere, Run!Applies
  <2>4. UNCHANGED <<step, total, actor, pending, Run!Here, Run!Listed, Run!Readable(Run!Here),
                  Run!Files(Run!Here), Run!Applies(step),
                    Run!TrainerState>>
    BY <2>1 DEF Run!Applies, Run!Boundary, Run!TrainerState, Run!Here, Run!Listed,
                Run!Readable, Run!Files
  <2>5. CASE Run!NeedsCheckpoint
    <3>1. Run!Here \in Run!Listed => step % Interval # 0 /\ step = total
      BY <2>2, <2>5 DEF Run!NeedsCheckpoint, Run!Checkpoints, Run!Listed
    <3> QED
      BY <2>1, <2>2, <2>3, <2>4, <2>5, <3>1 DEF SavingInv, Saving, Run!CanceledIsResumable
  <2>6. CASE ~Run!NeedsCheckpoint
    <3>1. /\ Run!Here \in Run!Listed /\ Run!Readable(Run!Here)
          /\ Run!Files(Run!Here).actor = actor
          /\ Run!Files(Run!Here).trainer = Run!TrainerState
      BY <2>2, <2>6 DEF Run!NeedsCheckpoint, Run!Checkpoints, Run!Listed, Run!Files
    <3>2. pending = {}
      BY <2>3 DEF GradientInv
    <3> QED
      BY <2>1, <2>4, <2>6, <3>1, <3>2 DEF SavingInv, Saving, Run!CanceledIsResumable
  <2> QED
    BY <2>5, <2>6
<1> QED
  BY <1>1, <1>2, <1>3, <1>5, <1>6, <1>7, <1>8 DEF Run!Next

-----------------------------------------------------------------------------
(* The stop.                                                               *)

(* A stop that has come waits for the end of a window.                     *)
LEMMA StopStep ==
  ASSUME CountsInv, GradientInv, DiskInv, SavingInv, StopInv, [Run!Next]_runVars
  PROVE  StopInv'
<1> USE RunConstants
<1>0. step \in Nat /\ total \in Nat
  BY DEF CountsInv
<1>b. \A i : Run!Boundary(i)' = Run!Boundary(i)
  BY DEF Run!Boundary
<1>1. ASSUME NEW t \in Totals, Run!Launch(t) PROVE StopInv'
  BY <1>1 DEF Run!Launch, StopInv, Saving
<1>2. CASE Run!ClearStop
  BY <1>2 DEF Run!ClearStop, StopInv, Saving
<1>3. CASE Run!StartFresh
  <2>1. step = 0 /\ stop \in {0, None} /\ step' = step /\ stop' = stop /\ phase' = "training"
    BY <1>3 DEF Run!StartFresh, StopInv, GradientInv, Run!process
  <2>2. stop # None => \A i \in (stop + 1)..step : ~Run!Boundary(i)
    <3>1. \A i \in (0 + 1)..0 : FALSE
      OBVIOUS
    <3> QED
      BY <2>1, <3>1
  <2>3. "training" \notin Saving \cup {"deciding"}
    BY DEF Saving
  <2>4. \A i : Run!Boundary(i)' = Run!Boundary(i)
    BY DEF Run!Boundary
  <2>5. stop' \in 0..step' \cup {None}
    BY <2>1
  <2> QED
    BY <2>1, <2>2, <2>3, <2>4, <2>5 DEF StopInv
<1>4. ASSUME NEW c \in DOMAIN disk, Run!Restore(c) PROVE StopInv'
  <2>1. step' \in Nat /\ stop' \in {step', None} /\ phase' = "training"
    BY <1>4, RestoreReads, TotalsBounded DEF Run!Restore, Run!StepCounts
  <2>2. \A i \in (step' + 1)..step' : FALSE
    <3>1. \A n \in Nat : \A i \in (n + 1)..n : FALSE
      OBVIOUS
    <3> QED
      BY <2>1, <3>1
  <2>3. stop' \in 0..step' \cup {None}
    BY <2>1
  <2>4. "training" \notin Saving \cup {"deciding"}
    BY DEF Saving
  <2> QED
    BY <2>1, <2>2, <2>3, <2>4 DEF StopInv
<1>5. ASSUME NEW c \in DOMAIN disk, Run!RefuseResume(c) PROVE StopInv'
  BY <1>5 DEF Run!RefuseResume, StopInv, Saving, Run!process
<1>6. CASE Run!Train
  <2>1. /\ step' = step + 1 /\ stop' = stop /\ phase = "training"
        /\ phase' \in {"save_actor", "deciding"}
    BY <1>6 DEF Run!Train
  <2>2. ASSUME stop # None, NEW i \in (stop + 1)..(step' - 1) PROVE ~Run!Boundary(i)
    <3>1. i \in (stop + 1)..step
      BY <1>0, <2>1, <2>2 DEF StopInv
    <3> QED
      BY <2>1, <2>2, <3>1 DEF StopInv
  <2>3. stop' \in 0..step' \cup {None}
    BY <1>0, <2>1 DEF StopInv
  <2> QED
    BY <1>b, <2>1, <2>2, <2>3 DEF StopInv
<1>7. CASE Run!SaveActor \/ Run!SaveTrainer \/ Run!SaveMeta
  <2>1. /\ UNCHANGED <<step, stop>> /\ phase \in Saving
        /\ phase' \in {"save_trainer", "save_meta", "deciding", "canceled"}
    BY <1>7 DEF Run!SaveActor, Run!SaveTrainer, Run!SaveMeta, Run!process, Saving
  <2> QED
    BY <1>b, <2>1 DEF StopInv, Saving
<1>8. CASE Run!HandleStop
  <2>1. /\ UNCHANGED <<step, stop>> /\ phase = "deciding"
        /\ phase' \in {"save_actor", "canceled"}
    BY <1>8 DEF Run!HandleStop
  <2> QED
    BY <1>b, <2>1 DEF StopInv, Saving
<1>9. CASE Run!NextIteration
  <2>1. /\ UNCHANGED <<step, stop>> /\ phase = "deciding" /\ phase' \in {"training", "publishing"}
        /\ stop # None => ~Run!Boundary(step)
    BY <1>9 DEF Run!NextIteration, Run!StopsHere, Run!process
  <2>2. ASSUME stop # None, NEW i \in (stop + 1)..step PROVE ~Run!Boundary(i)
    <3>1. i \in (stop + 1)..(step - 1) \/ i = step
      BY <1>0, <2>2 DEF StopInv
    <3> QED
      BY <2>1, <2>2, <3>1 DEF StopInv
  <2> QED
    BY <1>b, <2>1, <2>2 DEF StopInv, Saving
<1>10. CASE Run!Publish \/ Run!Kill
  BY <1>10 DEF Run!Publish, Run!Kill, StopInv, Saving, Run!process
<1>11. CASE Run!RequestStop
  <2>1. stop' = step /\ UNCHANGED <<step, phase>>
    BY <1>11 DEF Run!RequestStop, Run!process
  <2>2. (step + 1)..step = {} /\ (step + 1)..(step - 1) = {}
    BY <1>0
  <2> QED
    BY <1>0, <2>1, <2>2 DEF StopInv
<1>12. CASE UNCHANGED runVars
  BY <1>12, <1>b DEF runVars, Run!process, StopInv
<1> QED
  BY <1>1, <1>2, <1>3, <1>4, <1>5, <1>6, <1>7, <1>8, <1>9, <1>10, <1>11, <1>12 DEF Run!Next

-----------------------------------------------------------------------------
RunIsOrderly ==
  /\ Run!TypeOK
  /\ Run!ResumeContinues /\ Run!CanceledIsResumable /\ Run!ListedIsWhole /\ Run!StopIsPrompt

LEMMA RunImplies == ASSUME RunIInv PROVE RunIsOrderly
<1> USE RunConstants DEF RunIInv
<1>0. step \in Run!StepCounts /\ step \in Nat /\ total \in Nat /\ step <= total
  BY TotalsBounded DEF CountsInv, Run!StepCounts
<1>1. Run!TypeOK
  <2>1. critic \in Run!Critics
    BY <1>0 DEF CountsInv, Even, Run!Critics
  <2>2. pending \subseteq Run!StepCounts
    <3>1. PICK b \in 0..step : pending = (b + 1)..step
      BY DEF GradientInv
    <3> QED
      BY <1>0, <3>1, TotalsBounded DEF Run!StepCounts
  <2>3. stop \in Run!StepCounts \cup {None}
    BY <1>0, TotalsBounded DEF StopInv, Run!StepCounts
  <2>4. DOMAIN disk \subseteq (1..MaxRuns) \X Run!StepCounts
    BY DEF DiskInv
  <2> QED
    BY <1>0, <2>1, <2>2, <2>3, <2>4 DEF Run!TypeOK, CountsInv, GradientInv
<1>2. Run!ResumeContinues
  BY DEF Run!ResumeContinues, CountsInv, GradientInv, Even
<1>3. Run!CanceledIsResumable
  BY DEF SavingInv
<1>4. Run!ListedIsWhole
  <2> SUFFICES ASSUME NEW c \in Run!Listed
               PROVE  \/ ~Run!Readable(c) /\ c[2] % Interval # 0 /\ c[2] \in Totals
                      \/ /\ Run!Readable(c) /\ disk[c].trainer.step = c[2]
                         /\ \A w \in disk[c].actor : w[2] <= c[2]
                         /\ disk[c].actor # {}
    BY DEF Run!ListedIsWhole
  <2>1. c \in DOMAIN disk /\ disk[c].meta /\ FileInv(disk[c], c[2])
    BY DEF Run!Listed, DiskInv
  <2>2. CASE ~Run!Readable(c)
    BY <2>1, <2>2 DEF FileInv, Run!Readable
  <2>3. CASE Run!Readable(c)
    <3>1. Gathered(disk[c].actor, c[2]) /\ disk[c].trainer = StateOf(c[2])
      BY <2>1, <2>3 DEF FileInv, Run!Readable
    <3> QED
      BY <2>3, <3>1 DEF Gathered, StateOf
  <2> QED
    BY <2>2, <2>3
<1>5. Run!StopIsPrompt
  <2> SUFFICES ASSUME stop # None, phase \in {"training", "deciding"}, step > stop + Accumulation
               PROVE  FALSE
    BY <1>0 DEF Run!StopIsPrompt, StopInv
  <2>1. stop \in Nat
    BY DEF StopInv
  <2>2. PICK q \in 0..stop, r \in 0..(Accumulation - 1) :
          stop % Accumulation = r /\ stop = q * Accumulation + r
    BY <2>1, DivMod
  <2> DEFINE i == (q + 1) * Accumulation
  <2>3. i \in Nat /\ i = stop - r + Accumulation
    BY <2>1, <2>2, Product
  <2>4. i \in (stop + 1)..step /\ i \in (stop + 1)..(step - 1)
    <3> HIDE DEF i
    <3> QED
      BY <1>0, <2>1, <2>2, <2>3
  <2>5. Run!Boundary(i)
    <3>1. ((q + 1) * Accumulation + 0) % Accumulation = 0
      BY <2>2, ModOf
    <3> QED
      BY <2>3, <3>1 DEF Run!Boundary
  <2> QED
    BY <2>4, <2>5 DEF StopInv
<1> QED
  BY <1>1, <1>2, <1>3, <1>4, <1>5 DEF RunIsOrderly

LEMMA RunInit == ASSUME Run!Init PROVE RunIInv
<1> USE RunConstants DEF Run!Init
<1>1. CountsInv
  <2>1. critic = Even(0) /\ 0 \in 0..0
    BY DEF Run!NewCritic, Even
  <2>2. drawn = step /\ critic = Even(step) /\ step \in 0..total
    BY <2>1
  <2>3. phase \in Run!Phases /\ phase = "idle" /\ closing \in BOOLEAN
    BY DEF Run!Phases
  <2>4. run \in 0..MaxRuns /\ total \in Totals \cup {0} /\ latest \in Run!StepCounts \cup {None}
    OBVIOUS
  <2> QED
    BY <2>2, <2>3, <2>4 DEF CountsInv
<1>2. GradientInv
  <2>1. ~Run!CutShort
    BY DEF Run!CutShort
  <2>2. Run!Ideal(step) = {}
    <3>1. \A k \in 0..0 : ~(k * Accumulation < 0)
      OBVIOUS
    <3> QED
      BY <3>1 DEF Run!Ideal
  <2>3. \E b \in 0..step : pending = (b + 1)..step
    <3>1. {} = (0 + 1)..0 /\ 0 \in 0..0
      OBVIOUS
    <3> QED
      BY <3>1
  <2> QED
    BY <2>1, <2>2, <2>3 DEF GradientInv
<1>3. DiskInv
  <2>1. DOMAIN disk = {} /\ disk = [c \in {} |-> disk[c]]
    OBVIOUS
  <2> QED
    BY <2>1 DEF DiskInv
<1>4. SavingInv /\ StopInv
  BY DEF SavingInv, StopInv, Saving, Run!CanceledIsResumable
<1> QED
  BY <1>1, <1>2, <1>3, <1>4 DEF RunIInv

LEMMA RunStep == ASSUME RunIInv, [Run!Next]_runVars PROVE RunIInv'
BY CountsStep, GradientStep, DiskStep, SavingStep, StopStep DEF RunIInv

(* While the training process is there, a step is one of its own.          *)
LEMMA RunSteps ==
  ASSUME part = "run", [PartsNext]_parts
  PROVE  [Run!Next]_runVars /\ part' = part
BY RunVars DEF PartsNext, parts, runVars

(* Whatever runs a training resumes and wherever they were stopped or      *)
(* killed, it has drawn the batches, updated the critic and applied the    *)
(* actor's gradients as if never interrupted; a listed checkpoint is one   *)
(* step's, a canceled training leaves one that can be resumed, and a stop  *)
(* is handled within one accumulation window.                              *)
THEOREM ResumingIsExact == PartsSpec => []ResumingChangesNothing
<1>1. PartsInit => (part = "run" => RunIInv)
  BY RunInit DEF PartsInit
<1>2. (part = "run" => RunIInv) /\ [PartsNext]_parts => (part = "run" => RunIInv)'
  <2> SUFFICES ASSUME part = "run" => RunIInv, [PartsNext]_parts, part' = "run" PROVE RunIInv'
    OBVIOUS
  <2>1. part = "run"
    BY DEF PartsNext, parts
  <2> QED
    BY <2>1, RunSteps, RunStep
<1>3. (part = "run" => RunIInv) => ResumingChangesNothing
  BY RunImplies DEF ResumingChangesNothing, RunIsOrderly
<1> QED
  BY <1>1, <1>2, <1>3, PTL DEF PartsSpec

-----------------------------------------------------------------------------
(***************************************************************************)
(* The pipeline and its caches.                                            *)
(*                                                                         *)
(* What a training reads is decided long before it: by the annotations its *)
(* pipeline has left or found, the manifest derived of them and the files  *)
(* bound beside the trajectories.  The invariant follows each of them      *)
(* through the stages (AloneAt), for a pipeline that works alone; that no  *)
(* other one may have written meanwhile is SoleOK.  For any pipeline, a    *)
(* manifest that nobody has replaced since it was checked is still of the  *)
(* derivation it was checked for (ReadOK).                                 *)
(***************************************************************************)

pipelineVars == <<pc, alive, stopped, force, config, index, input, used, prepared, cache,
                  annotations, rewards, sidecar, alone, overtaken>>

LEMMA PipelineVars == UNCHANGED pipelineVars <=> UNCHANGED Flow!vars
BY DEF pipelineVars, Flow!vars, Flow!local, Flow!choice, Flow!memory,
       Flow!disk, Flow!history

(* Incomplete manifests list fewer episodes; rewards are always derived of *)
(* all of them.                                                            *)
FilesOK ==
  /\ Flow!TypeOK
  /\ Flow!AnnotationsValid => Len(annotations.of) = N
  /\ rewards # None => Len(rewards.of) = N
  /\ \A p \in Pipelines :
       /\ pc[p] \notin {"annotating", "binding"} => index[p] = << >>
       /\ pc[p] \in {"writing", "completing", "rewriting", "recompleting"} => Len(input[p]) = N
       /\ used[p] # None => Len(used[p].of) = N
       /\ pc[p] = "binding" => used[p] # None

Derivation(p, manifest) ==
  manifest # None /\ manifest.complete => manifest.config = config[p]

ReadOK ==
  \A p \in Pipelines : ~overtaken[p] =>
    /\ pc[p] = "reading" => rewards # None /\ Derivation(p, rewards)
    /\ pc[p] = "training" => used[p] # None /\ used[p].complete /\ Derivation(p, used[p])

StopOK ==
  \A p \in Pipelines :
    pc[p] \in Flow!TrainPcs \cup {"train", "completed"} => stopped[p] # "before"

Sole(p) == alone[p] /\ Flow!Working(p)
SoleOK == \A p, o \in Pipelines : Sole(p) /\ o # p => ~Flow!Working(o)

Own(p, list) == force[p] => \A e \in DOMAIN list : list[e] = p
BoundAs(e) == Flow!Bound(e) /\ sidecar[e].json = [of |-> rewards.of[e], config |-> rewards.config]
Annotated == {"rewards", "deriving", "writing", "completing"}
Derived == {"bind", "binding", "train", "checking", "reading", "training"}

AloneAt(p) ==
  /\ pc[p] \notin {"rewriting", "recompleting"}
  /\ pc[p] = "annotating" => Own(p, index[p])
  /\ pc[p] \in Annotated =>
       /\ force[p] => Flow!AnnotationsValid
       /\ Flow!AnnotationsValid => Own(p, annotations.of)
  /\ pc[p] \in {"writing", "completing"} => Flow!AnnotationsValid /\ input[p] = annotations.of
  /\ pc[p] \in Derived => Flow!RewardsValid(p) /\ Own(p, rewards.of)
  /\ pc[p] \in {"binding", "training"} => used[p] = rewards
  /\ pc[p] = "binding" => \A e \in 1..Len(index[p]) : BoundAs(e)
  /\ pc[p] \in {"train", "checking", "reading", "training"} => \A e \in Flow!EpisodeIds : BoundAs(e)

AloneOK == \A p \in Pipelines : Sole(p) => AloneAt(p)

PipeIInv == FilesOK /\ ReadOK /\ StopOK /\ SoleOK /\ AloneOK

Step(p) ==
    \/ Flow!Launch(p) \/ Flow!Prepare(p) \/ Flow!MarkPrepared(p) \/ Flow!Annotate(p)
    \/ Flow!Rewards(p)
    \/ Flow!StartBind(p) \/ Flow!BindEpisode(p) \/ Flow!EndBind(p) \/ Flow!Train(p)
    \/ Flow!PrepareDataset(p) \/ Flow!ScanAnnotations(p) \/ Flow!AnnotateEpisode(p)
    \/ Flow!EndAnnotate(p) \/ Flow!Derive(p)
    \/ Flow!CheckRewards(p) \/ Flow!ReadRewards(p) \/ Flow!EndTraining(p)
    \/ Flow!FailStage(p) \/ Flow!Interrupt(p) \/ Flow!Crash(p)

LEMMA PipelineConstants ==
  /\ N \in Nat \ {0} /\ None \notin Pipelines /\ None \notin Configs /\ None # "before"
  /\ None \notin Flow!AnnotationManifests /\ None \notin Flow!RewardManifests
  /\ None \notin Flow!Entries
BY LearningAssumption DEF Flow!PipelineAssumption

(* A list with one more episode.                                           *)
LEMMA Appended ==
  ASSUME NEW list \in Flow!Evaluations, Len(list) < N, NEW made \in Pipelines
  PROVE  /\ Append(list, made) \in Flow!Evaluations /\ Len(Append(list, made)) = Len(list) + 1
         /\ Len(list) + 1 \in Flow!EpisodeIds
         /\ Append(list, made)[Len(list) + 1] = made
         /\ \A e \in DOMAIN list : Append(list, made)[e] = list[e]
         /\ DOMAIN Append(list, made) = DOMAIN list \cup {Len(list) + 1}
BY PipelineConstants DEF Flow!Evaluations, Flow!EpisodeIds

LEMMA Empty == << >> \in Flow!Evaluations /\ Len(<< >>) = 0
BY PipelineConstants DEF Flow!Evaluations

LEMMA Made ==
  /\ \A list \in Flow!Evaluations, b \in BOOLEAN :
       [complete |-> b, of |-> list] \in Flow!AnnotationManifests
  /\ \A list \in Flow!Evaluations, b \in BOOLEAN, c \in Configs :
       [complete |-> b, of |-> list, config |-> c] \in Flow!RewardManifests
BY DEF Flow!AnnotationManifests, Flow!RewardManifests

(* What is bound to an episode.                                            *)
LEMMA EntryTyped ==
  ASSUME FilesOK, NEW p \in Pipelines, used[p] # None, NEW e \in Flow!EpisodeIds
  PROVE  Flow!Entry(p, e) \in Flow!Entries
<1>1. used[p] \in Flow!RewardManifests /\ Len(used[p].of) = N
  BY DEF FilesOK, Flow!TypeOK
<1>2. used[p].of \in Seq(Pipelines) /\ used[p].config \in Configs
  BY <1>1 DEF Flow!RewardManifests, Flow!Evaluations
<1>3. used[p].of[e] \in Pipelines
  BY <1>1, <1>2 DEF Flow!EpisodeIds
<1> QED
  BY <1>2, <1>3 DEF Flow!Entry, Flow!Entries

(* The types, and the lengths of the lists.                                *)
LEMMA FilesStep ==
  ASSUME FilesOK, NEW p \in Pipelines, Step(p)
  PROVE  FilesOK'
<1> USE PipelineConstants
<1>t. Flow!TypeOK /\ Flow!TrainPcs \subseteq Flow!StagePcs
  BY DEF FilesOK, Flow!StagePcs
<1>k. ASSUME NEW next \in {"off"} \cup Flow!ControllerPcs \cup Flow!StagePcs \cup Flow!Outcomes,
             Flow!Goto(p, next),
             UNCHANGED <<input, used, cache, annotations, rewards, sidecar, force, config>>,
             next \notin {"writing", "completing", "rewriting", "recompleting", "binding"},
             \/ index' = [index EXCEPT ![p] = << >>]
             \/ index' = index /\ pc[p] \notin {"annotating", "binding"},
             prepared' \in {"none", "written", "marked"},
             alive' \in [Pipelines -> BOOLEAN], alone' \in [Pipelines -> BOOLEAN],
             overtaken' \in [Pipelines -> BOOLEAN], stopped' = stopped
      PROVE  FilesOK'
  BY <1>k, <1>t, Empty DEF FilesOK, Flow!TypeOK, Flow!Goto, Flow!AnnotationsValid
<1>1. CASE Flow!Launch(p)
  <2>1. alone' \in [Pipelines -> BOOLEAN] /\ alive' \in [Pipelines -> BOOLEAN]
    BY <1>1, <1>t DEF Flow!Launch, Flow!TypeOK
  <2> QED
    BY <1>1, <1>t, <1>k, <2>1 DEF Flow!Launch, Flow!disk, Flow!TypeOK, Flow!ControllerPcs
<1>2. CASE Flow!Prepare(p) \/ Flow!Train(p)
  BY <1>2, <1>t, <1>k DEF Flow!Prepare, Flow!Train, Flow!local, Flow!choice, Flow!memory,
                          Flow!disk, Flow!history, Flow!TypeOK,
                          Flow!StagePcs, Flow!TrainPcs
<1>3. CASE Flow!MarkPrepared(p)
  BY <1>3, <1>t, <1>k DEF Flow!MarkPrepared, Flow!local, Flow!choice, Flow!memory,
                          Flow!history, Flow!TypeOK, Flow!ControllerPcs
<1>4. CASE Flow!Annotate(p) \/ Flow!Rewards(p)
  BY <1>4, <1>t, <1>k DEF Flow!Annotate, Flow!Rewards, Flow!local, Flow!choice, Flow!memory,
                          Flow!disk, Flow!history, Flow!TypeOK,
                          Flow!ControllerPcs, Flow!StagePcs
<1>5. CASE Flow!StartBind(p)
  <2>1. CASE ~Flow!Bindable
    BY <1>5, <2>1, <1>t, <1>k DEF Flow!StartBind, Flow!choice, Flow!disk, Flow!history,
                                  Flow!TypeOK, Flow!Outcomes, Flow!ControllerPcs
  <2>2. CASE Flow!Bindable
    <3>1. /\ Flow!Goto(p, "binding") /\ used' = [used EXCEPT ![p] = rewards] /\ rewards # None
          /\ pc[p] \notin {"annotating", "binding"}
          /\ UNCHANGED <<Flow!choice, index, input, Flow!disk, Flow!history>>
      BY <1>5, <2>2 DEF Flow!StartBind, Flow!Bindable
    <3> QED
      BY <3>1, <1>t DEF FilesOK, Flow!TypeOK, Flow!Goto, Flow!AnnotationsValid,
                        Flow!ControllerPcs, Flow!choice, Flow!disk, Flow!history
  <2> QED
    BY <2>1, <2>2
<1>6. CASE Flow!BindEpisode(p)
  <2> DEFINE e == Len(index[p]) + 1
             wanted == Flow!Entry(p, e)
  <2>1. /\ e \in Flow!EpisodeIds /\ p \in Pipelines /\ index[p] \in Flow!Evaluations
        /\ pc[p] = "binding"
    BY <1>6, <1>t, Appended DEF Flow!BindEpisode, Flow!TypeOK
  <2>2. wanted \in Flow!Entries
    BY <2>1, EntryTyped DEF FilesOK
  <2>3. index' \in [Pipelines -> Flow!Evaluations]
           /\ \A q \in Pipelines \ {p} : index'[q] = index[q]
    <3>1. index' = index \/ index' = [index EXCEPT ![p] = Append(@, p)]
      BY <1>6 DEF Flow!BindEpisode
    <3>2. Append(index[p], p) \in Flow!Evaluations
      BY <1>6, <2>1, Appended DEF Flow!BindEpisode
    <3>3. index \in [Pipelines -> Flow!Evaluations]
      BY <1>t DEF Flow!TypeOK
    <3> HIDE DEF e, wanted
    <3> QED
      BY <3>1, <3>2, <3>3
  <2>4. sidecar' \in [Flow!EpisodeIds ->
                        [values : Flow!Entries \cup {None}, json : Flow!Entries \cup {None}]]
    <3> HIDE DEF wanted, e
    <3>1. \/ sidecar' = sidecar
          \/ sidecar' = [sidecar EXCEPT ![e].values = wanted]
          \/ sidecar' = [sidecar EXCEPT ![e].json = wanted]
      BY <1>6 DEF Flow!BindEpisode, Flow!CopyValues, wanted, e
    <3> QED
      BY <3>1, <2>1, <2>2, <1>t DEF Flow!TypeOK
  <2>5. UNCHANGED <<pc, alive, stopped, force, config, input, used, prepared,
                    cache, annotations, rewards, Flow!history>>
    BY <1>6 DEF Flow!BindEpisode
  <2> QED
    BY <2>1, <2>3, <2>4, <2>5, <1>t DEF FilesOK, Flow!TypeOK, Flow!AnnotationsValid,
                Flow!history
<1>7. CASE Flow!EndBind(p)
  <2>1. /\ pc[p] = "binding" /\ (Flow!Goto(p, "interrupted") \/ Flow!Goto(p, "train"))
        /\ index' = [index EXCEPT ![p] = << >>] /\ input' = [input EXCEPT ![p] = << >>]
        /\ used' = [used EXCEPT ![p] = None]
        /\ UNCHANGED <<Flow!choice, Flow!disk, Flow!history>>
    BY <1>7 DEF Flow!EndBind, Flow!Forget
  <2> QED
    BY <2>1, <1>t, Empty DEF FilesOK, Flow!TypeOK, Flow!Goto, Flow!AnnotationsValid,
                             Flow!ControllerPcs, Flow!Outcomes,
                             Flow!choice, Flow!disk, Flow!history
<1>e. ASSUME pc[p] \in Flow!StagePcs,
             NEW next \in {"mark", "rewards", "bind", "reading", "completed", "interrupted", "failed"},
             Flow!EndStage(p, next),
             used' = used \/ used' = [used EXCEPT ![p] = None],
             alone' = alone, overtaken' \in [Pipelines -> BOOLEAN],
             UNCHANGED <<Flow!choice, cache, sidecar>>,
             prepared' \in {"none", "written", "marked"},
             annotations' \in Flow!AnnotationManifests \cup {None},
             Flow!AnnotationsValid' => Len(annotations'.of) = N,
             rewards' \in Flow!RewardManifests \cup {None}, rewards' # None => Len(rewards'.of) = N
      PROVE  FilesOK'
  <2>1. /\ index' = [index EXCEPT ![p] = << >>] /\ input' = [input EXCEPT ![p] = << >>]
        /\ \/ pc' = [pc EXCEPT ![p] = next]
           \/ pc' = [pc EXCEPT ![p] = "dead"]
    BY <1>e DEF Flow!EndStage, Flow!Forget, Flow!Goto
  <2>2. {next, "dead"} \subseteq Flow!ControllerPcs \cup Flow!StagePcs \cup Flow!Outcomes
    BY DEF Flow!ControllerPcs, Flow!StagePcs, Flow!TrainPcs, Flow!Outcomes
  <2>3. UNCHANGED <<alive, stopped, force, config, cache, sidecar, alone>>
    BY <1>e DEF Flow!choice
  <2>4. Flow!TypeOK'
    BY <1>e, <2>1, <2>2, <2>3, <1>t, Empty DEF Flow!TypeOK
  <2>5. \A q \in Pipelines :
          /\ pc'[q] \notin {"annotating", "binding"} => index'[q] = << >>
          /\ pc'[q] \in {"writing", "completing", "rewriting", "recompleting"} => Len(input'[q]) = N
          /\ used'[q] # None => Len(used'[q].of) = N
          /\ pc'[q] = "binding" => used'[q] # None
    BY <1>e, <2>1, <1>t DEF FilesOK, Flow!TypeOK
  <2> QED
    BY <1>e, <2>4, <2>5 DEF FilesOK
<1>8. CASE Flow!PrepareDataset(p)
  BY <1>8, <1>e, <1>t DEF Flow!PrepareDataset, Flow!history, Flow!TypeOK, FilesOK,
                          Flow!AnnotationsValid, Flow!StagePcs
<1>9. CASE Flow!ScanAnnotations(p)
  <2>1. /\ pc[p] = "scanning" /\ pc' = [pc EXCEPT ![p] = "annotating"]
        /\ UNCHANGED <<alive, stopped, force, config, index, used, prepared, cache, annotations,
                       rewards, sidecar, alone, overtaken>>
    BY <1>9 DEF Flow!ScanAnnotations, Flow!Goto, Flow!choice, Flow!disk, Flow!history
  <2>2. input' \in [Pipelines -> Flow!Evaluations]
           /\ \A q \in Pipelines \ {p} : input'[q] = input[q]
    BY <1>9, <1>t, Empty DEF Flow!ScanAnnotations, Flow!TypeOK, Flow!AnnotationManifests
  <2> QED
    BY <2>1, <2>2, <1>t DEF FilesOK, Flow!TypeOK, Flow!AnnotationsValid, Flow!StagePcs
<1>10. CASE Flow!AnnotateEpisode(p)
  <2> DEFINE e == Len(index[p]) + 1
             reusable == IF force[p] THEN None ELSE Flow!Reusable(p, e)
             made == IF Flow!Hit(p, e) THEN cache[e] ELSE IF reusable # None THEN reusable ELSE p
             list == Append(index[p], made)
  <2>1. /\ pc[p] = "annotating" /\ Len(index[p]) < N /\ index[p] \in Flow!Evaluations
        /\ e \in Flow!EpisodeIds
    BY <1>10, <1>t, Appended DEF Flow!AnnotateEpisode, Flow!TypeOK
  <2>2. made \in Pipelines
    <3>1. Flow!Reusable(p, e) \in Pipelines \cup {None}
      <4>1. e \in DOMAIN input[p] => input[p][e] \in Pipelines
        BY <1>t DEF Flow!TypeOK, Flow!Evaluations
      <4>2. Flow!Bound(e) => sidecar[e].json.of \in Pipelines
        BY <2>1, <1>t DEF Flow!TypeOK, Flow!Bound, Flow!Entries
      <4> QED
        BY <4>1, <4>2 DEF Flow!Reusable
    <3>2. Flow!Hit(p, e) => cache[e] \in Pipelines
      BY <2>1, <1>t DEF Flow!Hit, Flow!TypeOK
    <3> QED
      BY <3>1, <3>2
  <2>3. list \in Flow!Evaluations
    BY <2>1, <2>2, Appended
  <2>4. /\ index' = [index EXCEPT ![p] = list] /\ cache' = [cache EXCEPT ![e] = made]
        /\ annotations' = annotations \/ annotations' = [complete |-> FALSE, of |-> list]
        /\ UNCHANGED <<pc, alive, stopped, force, config, input, used, prepared, rewards, sidecar,
                       alone, overtaken>>
    BY <1>10 DEF Flow!AnnotateEpisode, Flow!history
  <2> HIDE DEF made, list, e
  <2>5. annotations' \in Flow!AnnotationManifests \cup {None}
    <3>1. [complete |-> FALSE, of |-> list] \in Flow!AnnotationManifests
      BY <2>3 DEF Flow!AnnotationManifests
    <3> QED
      BY <2>4, <3>1, <1>t DEF Flow!TypeOK
  <2>6. Flow!AnnotationsValid' => Len(annotations'.of) = N
    BY <2>4 DEF FilesOK, Flow!AnnotationsValid
  <2> QED
    BY <2>1, <2>2, <2>3, <2>4, <2>5, <2>6, <1>t DEF FilesOK, Flow!TypeOK
<1>11. CASE Flow!EndAnnotate(p)
  <2>1. index[p] \in Flow!Evaluations /\ Len(index[p]) = N /\ pc[p] \in Flow!StagePcs
    BY <1>11, <1>t DEF Flow!EndAnnotate, Flow!TypeOK, Flow!StagePcs
  <2>2. annotations' \in Flow!AnnotationManifests /\ annotations'.of = index[p]
    BY <1>11, <2>1, Made DEF Flow!EndAnnotate
  <2> QED
    BY <1>11, <1>e, <1>t, <2>1, <2>2 DEF Flow!EndAnnotate, FilesOK, Flow!TypeOK, Flow!history
<1>l. ASSUME NEW at \in {"deriving", "checking"}, NEW write \in {"writing", "rewriting"},
             NEW done \in {"bind", "reading"}, NEW again,
             Flow!LoadAnnotations(p, at, write, done, again)
      PROVE  FilesOK'
  <2>1. /\ pc[p] = at /\ Flow!AnnotationsValid /\ overtaken' = [overtaken EXCEPT ![p] = FALSE]
        /\ UNCHANGED <<alive, stopped, force, config, used, prepared, cache, annotations,
                       rewards, sidecar, alone>>
    BY <1>l DEF Flow!LoadAnnotations, Flow!choice, Flow!disk
  <2>2. overtaken' \in [Pipelines -> BOOLEAN] /\ pc[p] \in Flow!StagePcs
    BY <2>1, <1>t DEF Flow!TypeOK, Flow!StagePcs, Flow!TrainPcs
  <2>3. CASE Flow!EndStage(p, done)
    BY <2>1, <2>2, <2>3, <1>e, <1>t DEF FilesOK, Flow!TypeOK, Flow!choice, Flow!AnnotationsValid
  <2>4. CASE /\ Flow!Goto(p, write) /\ index' = index
             /\ input' = [input EXCEPT ![p] = annotations.of]
    <3>1. annotations.of \in Flow!Evaluations /\ Len(annotations.of) = N
      BY <2>1, <1>t DEF FilesOK, Flow!TypeOK, Flow!AnnotationsValid, Flow!AnnotationManifests
    <3>2. pc' = [pc EXCEPT ![p] = write] /\ write \in Flow!StagePcs
      BY <2>4 DEF Flow!Goto, Flow!StagePcs, Flow!TrainPcs
    <3> QED
      BY <2>1, <2>2, <2>4, <3>1, <3>2, <1>t DEF FilesOK, Flow!TypeOK, Flow!AnnotationsValid
  <2> QED
    BY <1>l, <2>3, <2>4 DEF Flow!LoadAnnotations
<1>p. ASSUME NEW complete \in BOOLEAN, Flow!Publish(p, complete), Len(input[p]) = N
      PROVE  /\ rewards' \in Flow!RewardManifests /\ Len(rewards'.of) = N
             /\ overtaken' \in [Pipelines -> BOOLEAN]
             /\ UNCHANGED <<Flow!choice, used, prepared, cache, annotations, sidecar, alone>>
  BY <1>p, <1>t, Made DEF Flow!Publish, Flow!TypeOK
<1>s. ASSUME NEW at \in {"writing", "rewriting"}, NEW next \in {"completing", "recompleting"},
             Flow!StartManifest(p, at, next)
      PROVE  FilesOK'
  <2>1. pc[p] = at /\ Flow!Publish(p, FALSE) /\ Flow!Goto(p, next) /\ UNCHANGED <<index, input>>
    BY <1>s DEF Flow!StartManifest
  <2>2. Len(input[p]) = N
    BY <2>1 DEF FilesOK
  <2>3. pc' = [pc EXCEPT ![p] = next] /\ next \in Flow!StagePcs
    BY <2>1 DEF Flow!Goto, Flow!StagePcs, Flow!TrainPcs
  <2>4. /\ rewards' \in Flow!RewardManifests /\ Len(rewards'.of) = N
        /\ overtaken' \in [Pipelines -> BOOLEAN]
        /\ UNCHANGED <<Flow!choice, used, prepared, cache, annotations, sidecar, alone>>
    BY <2>1, <2>2, <1>p
  <2> QED
    BY <2>1, <2>2, <2>3, <2>4, <1>t DEF FilesOK, Flow!TypeOK, Flow!AnnotationsValid, Flow!choice
<1>m. ASSUME NEW at \in {"completing", "recompleting"}, NEW done \in {"bind", "reading"},
             Flow!EndManifest(p, at, done)
      PROVE  FilesOK'
  <2>1. pc[p] = at /\ Flow!Publish(p, TRUE) /\ Flow!EndStage(p, done) /\ at \in Flow!StagePcs
    BY <1>m DEF Flow!EndManifest, Flow!StagePcs, Flow!TrainPcs
  <2>2. Len(input[p]) = N
    BY <2>1 DEF FilesOK
  <2>3. Flow!AnnotationsValid' => Len(annotations'.of) = N
    BY <2>1, <2>2, <1>p DEF FilesOK, Flow!AnnotationsValid
  <2> QED
    BY <2>1, <2>2, <2>3, <1>p, <1>e, <1>t DEF FilesOK, Flow!TypeOK
<1>12. CASE Flow!Derive(p)
  BY <1>12, <1>l, <1>s, <1>m DEF Flow!Derive
<1>13. CASE Flow!CheckRewards(p)
  BY <1>13, <1>l, <1>s, <1>m DEF Flow!CheckRewards
<1>14. CASE Flow!ReadRewards(p)
  <2>1. /\ pc[p] = "reading" /\ pc' = [pc EXCEPT ![p] = "training"]
        /\ "training" \in Flow!StagePcs
        /\ used' = [used EXCEPT ![p] = rewards]
        /\ UNCHANGED <<alive, stopped, force, config, index, input, prepared, cache, annotations,
                       rewards, sidecar, alone, overtaken>>
    BY <1>14 DEF Flow!ReadRewards, Flow!Goto, Flow!disk, Flow!history, Flow!StagePcs,
                 Flow!TrainPcs
  <2> QED
    BY <2>1, <1>t DEF FilesOK, Flow!TypeOK, Flow!AnnotationsValid
<1>15. CASE Flow!EndTraining(p) \/ Flow!FailStage(p)
  <2>1. pc[p] \in Flow!StagePcs
    BY <1>15 DEF Flow!EndTraining, Flow!FailStage, Flow!StagePcs, Flow!TrainPcs
  <2>2. Flow!Failure(p) \in {"interrupted", "failed"}
    BY DEF Flow!Failure
  <2> QED
    BY <1>15, <2>1, <2>2, <1>e, <1>t DEF Flow!EndTraining, Flow!FailStage, FilesOK,
                Flow!TypeOK, Flow!disk, Flow!history,
                                        Flow!AnnotationsValid
<1>16. CASE Flow!Interrupt(p)
  BY <1>16, <1>t DEF Flow!Interrupt, FilesOK, Flow!TypeOK, Flow!AnnotationsValid, Flow!disk,
                     Flow!history
<1>17. CASE Flow!Crash(p)
  <2>1. /\ alive' = [alive EXCEPT ![p] = FALSE]
        /\ UNCHANGED <<stopped, force, config, prepared, cache, annotations, rewards, sidecar,
                       alone, overtaken>>
    BY <1>17 DEF Flow!Crash, Flow!disk, Flow!history
  <2>2. CASE UNCHANGED <<pc, index, input, used>>
    BY <2>1, <2>2, <1>t DEF FilesOK, Flow!TypeOK, Flow!AnnotationsValid
  <2>3. CASE /\ pc' = [pc EXCEPT ![p] = "dead"] /\ used' = [used EXCEPT ![p] = None]
             /\ index' = [index EXCEPT ![p] = << >>] /\ input' = [input EXCEPT ![p] = << >>]
    BY <2>1, <2>3, <1>t, Empty DEF FilesOK, Flow!TypeOK, Flow!AnnotationsValid, Flow!Outcomes
  <2> QED
    BY <1>17, <2>2, <2>3 DEF Flow!Crash, Flow!Goto, Flow!Forget, Flow!memory
<1> QED
  BY <1>1, <1>2, <1>3, <1>4, <1>5, <1>6, <1>7, <1>8, <1>9, <1>10, <1>11, <1>12, <1>13, <1>14,
     <1>15, <1>16, <1>17 DEF Step

(* A step of one pipeline leaves the others where they are.                *)
LEMMA Others ==
  ASSUME FilesOK, NEW p \in Pipelines, Step(p), NEW q \in Pipelines, q # p
  PROVE  /\ pc'[q] = pc[q] /\ used'[q] = used[q] /\ stopped'[q] = stopped[q]
         /\ (rewards' = rewards /\ overtaken'[q] = overtaken[q]) \/ overtaken'[q]
<1>t. Flow!TypeOK
  BY DEF FilesOK
<1> USE <1>t DEF Flow!TypeOK, Flow!choice, Flow!memory, Flow!local, Flow!disk, Flow!history
<1>1. CASE \/ Flow!Launch(p) \/ Flow!Prepare(p) \/ Flow!MarkPrepared(p) \/ Flow!Annotate(p)
           \/ Flow!Rewards(p) \/ Flow!Train(p)
  BY <1>1 DEF Flow!Launch, Flow!Prepare, Flow!MarkPrepared, Flow!Annotate, Flow!Rewards,
              Flow!Train, Flow!Goto
<1>2. CASE \/ Flow!StartBind(p) \/ Flow!BindEpisode(p) \/ Flow!EndBind(p)
           \/ Flow!ReadRewards(p) \/ Flow!EndTraining(p)
  BY <1>2 DEF Flow!StartBind, Flow!BindEpisode, Flow!EndBind, Flow!ReadRewards,
              Flow!EndTraining, Flow!Goto, Flow!EndStage
<1>3. CASE \/ Flow!PrepareDataset(p) \/ Flow!ScanAnnotations(p) \/ Flow!AnnotateEpisode(p)
           \/ Flow!EndAnnotate(p)
  BY <1>3 DEF Flow!PrepareDataset, Flow!ScanAnnotations, Flow!AnnotateEpisode,
              Flow!EndAnnotate, Flow!Goto, Flow!EndStage
<1>4. ASSUME NEW at, NEW write, NEW done, NEW again, Flow!LoadAnnotations(p, at, write, done, again)
      PROVE  /\ pc'[q] = pc[q] /\ used'[q] = used[q] /\ stopped'[q] = stopped[q]
             /\ rewards' = rewards /\ overtaken'[q] = overtaken[q]
  BY <1>4 DEF Flow!LoadAnnotations, Flow!Goto, Flow!EndStage
<1>5. ASSUME NEW at, NEW next, NEW complete, Flow!Publish(p, complete),
             Flow!Goto(p, next) \/ Flow!EndStage(p, next)
      PROVE  /\ pc'[q] = pc[q] /\ used'[q] = used[q] /\ stopped'[q] = stopped[q]
             /\ overtaken'[q]
  BY <1>5 DEF Flow!Publish, Flow!Goto, Flow!EndStage
<1>6. CASE Flow!Derive(p) \/ Flow!CheckRewards(p)
  BY <1>6, <1>4, <1>5 DEF Flow!Derive, Flow!CheckRewards, Flow!StartManifest, Flow!EndManifest
<1>7. CASE Flow!FailStage(p) \/ Flow!Interrupt(p) \/ Flow!Crash(p)
  BY <1>7 DEF Flow!FailStage, Flow!Interrupt, Flow!Crash, Flow!Goto, Flow!EndStage
<1> QED
  BY <1>1, <1>2, <1>3, <1>6, <1>7 DEF Step

(* What a pipeline was started with does not change.                       *)
LEMMA Chosen ==
  ASSUME NEW p \in Pipelines, Step(p)
  PROVE  force' = force /\ config' = config
<1> USE DEF Flow!choice, Flow!local
<1>1. CASE \/ Flow!Launch(p) \/ Flow!Prepare(p) \/ Flow!MarkPrepared(p) \/ Flow!Annotate(p)
           \/ Flow!Rewards(p) \/ Flow!Train(p)
           \/ Flow!StartBind(p) \/ Flow!BindEpisode(p) \/ Flow!EndBind(p)
           \/ Flow!ReadRewards(p) \/ Flow!EndTraining(p)
  BY <1>1 DEF Flow!Launch, Flow!Prepare, Flow!MarkPrepared, Flow!Annotate, Flow!Rewards,
              Flow!Train,
              Flow!StartBind, Flow!BindEpisode, Flow!EndBind, Flow!ReadRewards, Flow!EndTraining
<1>2. CASE \/ Flow!PrepareDataset(p) \/ Flow!ScanAnnotations(p) \/ Flow!AnnotateEpisode(p)
           \/ Flow!EndAnnotate(p)
           \/ Flow!FailStage(p) \/ Flow!Interrupt(p) \/ Flow!Crash(p)
  BY <1>2 DEF Flow!PrepareDataset, Flow!ScanAnnotations, Flow!AnnotateEpisode, Flow!EndAnnotate,
              Flow!FailStage, Flow!Interrupt, Flow!Crash
<1>3. CASE Flow!Derive(p) \/ Flow!CheckRewards(p)
  BY <1>3 DEF Flow!Derive, Flow!CheckRewards, Flow!LoadAnnotations, Flow!StartManifest,
              Flow!EndManifest, Flow!Publish
<1> QED
  BY <1>1, <1>2, <1>3 DEF Step

(* Where a pipeline goes.                                                  *)
LEMMA Ways ==
  ASSUME FilesOK, NEW p \in Pipelines, Step(p)
  PROVE  \/ pc'[p] \notin Flow!TrainPcs \cup {"train", "completed"}
         \/ Flow!EndBind(p) \/ Flow!Train(p) \/ Flow!CheckRewards(p) \/ Flow!ReadRewards(p)
         \/ Flow!EndTraining(p)
         \/ Flow!Interrupt(p) \/ Flow!Crash(p)
<1>t. Flow!TypeOK
  BY DEF FilesOK
<1> USE <1>t DEF Flow!TypeOK, Flow!TrainPcs, Flow!Goto, Flow!EndStage
<1>1. CASE \/ Flow!Launch(p) \/ Flow!Prepare(p) \/ Flow!MarkPrepared(p) \/ Flow!Annotate(p)
           \/ Flow!Rewards(p)
  BY <1>1 DEF Flow!Launch, Flow!Prepare, Flow!MarkPrepared, Flow!Annotate, Flow!Rewards
<1>2. CASE Flow!StartBind(p) \/ Flow!BindEpisode(p)
  BY <1>2 DEF Flow!StartBind, Flow!BindEpisode
<1>3. CASE \/ Flow!PrepareDataset(p) \/ Flow!ScanAnnotations(p) \/ Flow!AnnotateEpisode(p)
           \/ Flow!EndAnnotate(p)
  BY <1>3 DEF Flow!PrepareDataset, Flow!ScanAnnotations, Flow!AnnotateEpisode, Flow!EndAnnotate
<1>4. CASE Flow!Derive(p)
  BY <1>4 DEF Flow!Derive, Flow!LoadAnnotations, Flow!StartManifest, Flow!EndManifest
<1>5. CASE Flow!FailStage(p)
  BY <1>5 DEF Flow!FailStage, Flow!Failure
<1> QED
  BY <1>1, <1>2, <1>3, <1>4, <1>5 DEF Step

LEMMA StopKept ==
  ASSUME FilesOK, StopOK, NEW p \in Pipelines, Step(p)
  PROVE  StopOK'
<1>t. Flow!TypeOK
  BY DEF FilesOK
<1> SUFFICES ASSUME pc'[p] \in Flow!TrainPcs \cup {"train", "completed"}
             PROVE  stopped'[p] # "before"
  BY Others DEF StopOK
<1> USE <1>t, PipelineConstants DEF Flow!TypeOK, Flow!TrainPcs, Flow!choice, Flow!local, StopOK
<1>1. CASE Flow!EndBind(p)
  BY <1>1 DEF Flow!EndBind, Flow!Goto, Flow!StopSeen
<1>2. CASE Flow!Train(p) \/ Flow!ReadRewards(p) \/ Flow!EndTraining(p)
  BY <1>2 DEF Flow!Train, Flow!ReadRewards, Flow!EndTraining
<1>3. CASE Flow!CheckRewards(p)
  BY <1>3 DEF Flow!CheckRewards, Flow!LoadAnnotations, Flow!StartManifest, Flow!EndManifest,
              Flow!Publish
<1>4. CASE Flow!Interrupt(p)
  <2>1. stopped'[p] = (IF pc[p] \in Flow!TrainPcs \cup {"train"} THEN "after" ELSE "before")
    BY <1>4 DEF Flow!Interrupt
  <2>2. pc[p] \in Flow!TrainPcs \cup {"train"}
    BY <1>4 DEF Flow!Interrupt, Flow!ControllerPcs, Flow!StagePcs
  <2> QED
    BY <2>1, <2>2
<1>5. CASE Flow!Crash(p)
  BY <1>5 DEF Flow!Crash, Flow!Goto
<1> QED
  BY <1>1, <1>2, <1>3, <1>4, <1>5, Ways

LEMMA ReadKept ==
  ASSUME FilesOK, ReadOK, NEW p \in Pipelines, Step(p)
  PROVE  ReadOK'
<1>t. Flow!TypeOK
  BY DEF FilesOK
<1>o. ASSUME NEW q \in Pipelines, q # p, ~overtaken'[q]
      PROVE  /\ pc'[q] = "reading" => rewards' # None /\ Derivation(q, rewards)'
             /\ pc'[q] = "training" =>
                  used'[q] # None /\ used'[q].complete /\ Derivation(q, used[q])'
  BY <1>o, Others, Chosen DEF ReadOK, Derivation
<1> SUFFICES ASSUME ~overtaken'[p], pc'[p] \in {"reading", "training"}
             PROVE  /\ pc'[p] = "reading" => rewards' # None /\ Derivation(p, rewards)'
                    /\ pc'[p] = "training" =>
                         used'[p] # None /\ used'[p].complete /\ Derivation(p, used[p])'
  BY <1>o DEF ReadOK
<1> USE <1>t, Chosen DEF Flow!TypeOK, Flow!choice, Flow!local, Flow!history, Flow!disk
<1>1. CASE Flow!EndBind(p) \/ Flow!Train(p) \/ Flow!EndTraining(p)
  BY <1>1 DEF Flow!EndBind, Flow!Train, Flow!EndTraining, Flow!Goto, Flow!EndStage
<1>2. CASE Flow!LoadAnnotations(p, "checking", "rewriting", "reading", FALSE)
  <2>1. Flow!RewardsMatch(p, annotations.of) /\ rewards' = rewards /\ pc'[p] = "reading"
    BY <1>2 DEF Flow!LoadAnnotations, Flow!Goto, Flow!EndStage
  <2> QED
    BY <2>1 DEF Flow!RewardsMatch, Flow!SameDerivation, Derivation
<1>3. CASE Flow!StartManifest(p, "rewriting", "recompleting")
  BY <1>3 DEF Flow!StartManifest, Flow!Goto
<1>4. CASE Flow!EndManifest(p, "recompleting", "reading")
  <2>1. /\ rewards' = [complete |-> TRUE, of |-> input[p], config |-> config[p]]
        /\ pc'[p] = "reading" /\ pc[p] = "recompleting"
    BY <1>4 DEF Flow!EndManifest, Flow!Publish, Flow!EndStage, Flow!Goto
  <2>2. input[p] \in Flow!Evaluations /\ config[p] \in Configs
    OBVIOUS
  <2>3. rewards' # None
    <3>1. [complete |-> TRUE, of |-> input[p], config |-> config[p]] \in Flow!RewardManifests
      BY <2>2, Made
    <3> QED
      BY <2>1, <3>1, PipelineConstants
  <2> QED
    BY <2>1, <2>3 DEF Derivation
<1>5. CASE Flow!ReadRewards(p)
  <2>1. /\ pc[p] = "reading" /\ rewards.complete /\ used'[p] = rewards /\ pc'[p] = "training"
        /\ overtaken'[p] = overtaken[p]
    BY <1>5 DEF Flow!ReadRewards, Flow!Goto
  <2> QED
    BY <2>1 DEF ReadOK, Derivation
<1>6. CASE Flow!Interrupt(p) \/ Flow!Crash(p)
  <2>1. UNCHANGED <<rewards, overtaken>> /\ pc'[p] = pc[p] /\ used'[p] = used[p]
    BY <1>6 DEF Flow!Interrupt, Flow!Crash, Flow!Goto, Flow!memory
  <2> QED
    BY <2>1 DEF ReadOK, Derivation
<1> QED
  BY <1>1, <1>2, <1>3, <1>4, <1>5, <1>6, Ways DEF Flow!CheckRewards, Flow!TrainPcs

(* A pipeline that is still alone after a step has made that step itself.  *)
LEMMA OnlyItself ==
  ASSUME FilesOK, SoleOK, NEW p \in Pipelines, Step(p), NEW q \in Pipelines, Sole(q)'
  PROVE  /\ q = p
         /\ Sole(q) \/ (Flow!Launch(q) /\ \A o \in Pipelines : ~Flow!Working(o))
<1>t. Flow!TypeOK
  BY DEF FilesOK
<1> USE <1>t DEF Flow!TypeOK
<1>1. CASE Flow!Launch(p)
  <2>1. /\ pc[p] = "off" /\ alone'[q]
        /\ alone' = [o \in Pipelines |-> alone[o] /\
                       (IF o = p THEN \A r \in Pipelines : ~Flow!Working(r)
                                                       ELSE ~Flow!Working(o))]
    BY <1>1 DEF Flow!Launch, Sole
  <2>2. alone[q] /\ (IF q = p THEN \A r \in Pipelines : ~Flow!Working(r) ELSE ~Flow!Working(q))
    BY <2>1
  <2>3. ASSUME q # p PROVE FALSE
    BY <2>2, <2>3, Others DEF Sole, Flow!Working
  <2> QED
    BY <1>1, <2>2, <2>3
<1>2. CASE ~Flow!Launch(p)
  <2>1. Flow!Working(p)
    <3> USE DEF Flow!Working, Flow!ControllerPcs, Flow!StagePcs, Flow!TrainPcs
    <3>1. CASE \/ Flow!Prepare(p) \/ Flow!MarkPrepared(p) \/ Flow!Annotate(p)
               \/ Flow!Rewards(p) \/ Flow!Train(p)
               \/ Flow!StartBind(p) \/ Flow!BindEpisode(p) \/ Flow!EndBind(p)
               \/ Flow!ReadRewards(p) \/ Flow!EndTraining(p)
      BY <3>1 DEF Flow!Prepare, Flow!MarkPrepared, Flow!Annotate, Flow!Rewards, Flow!Train,
                  Flow!StartBind, Flow!BindEpisode, Flow!EndBind, Flow!ReadRewards,
                  Flow!EndTraining
    <3>2. CASE \/ Flow!PrepareDataset(p) \/ Flow!ScanAnnotations(p)
               \/ Flow!AnnotateEpisode(p) \/ Flow!EndAnnotate(p)
               \/ Flow!FailStage(p) \/ Flow!Interrupt(p) \/ Flow!Crash(p)
      BY <3>2 DEF Flow!PrepareDataset, Flow!ScanAnnotations, Flow!AnnotateEpisode,
                  Flow!EndAnnotate,
                  Flow!FailStage, Flow!Interrupt, Flow!Crash
    <3>3. CASE Flow!Derive(p) \/ Flow!CheckRewards(p)
      BY <3>3 DEF Flow!Derive, Flow!CheckRewards, Flow!LoadAnnotations, Flow!StartManifest,
                  Flow!EndManifest
    <3> QED
      BY <1>2, <3>1, <3>2, <3>3 DEF Step
  <2>2. alone' = alone
    <3> USE DEF Flow!history
    <3>1. CASE \/ Flow!Prepare(p) \/ Flow!MarkPrepared(p) \/ Flow!Annotate(p)
               \/ Flow!Rewards(p) \/ Flow!Train(p)
               \/ Flow!StartBind(p) \/ Flow!BindEpisode(p) \/ Flow!EndBind(p)
               \/ Flow!ReadRewards(p) \/ Flow!EndTraining(p)
      BY <3>1 DEF Flow!Prepare, Flow!MarkPrepared, Flow!Annotate, Flow!Rewards, Flow!Train,
                  Flow!StartBind, Flow!BindEpisode, Flow!EndBind, Flow!ReadRewards,
                  Flow!EndTraining
    <3>2. CASE \/ Flow!PrepareDataset(p) \/ Flow!ScanAnnotations(p)
               \/ Flow!AnnotateEpisode(p) \/ Flow!EndAnnotate(p)
               \/ Flow!FailStage(p) \/ Flow!Interrupt(p) \/ Flow!Crash(p)
      BY <3>2 DEF Flow!PrepareDataset, Flow!ScanAnnotations, Flow!AnnotateEpisode,
                  Flow!EndAnnotate,
                  Flow!FailStage, Flow!Interrupt, Flow!Crash
    <3>3. CASE Flow!Derive(p) \/ Flow!CheckRewards(p)
      BY <3>3 DEF Flow!Derive, Flow!CheckRewards, Flow!LoadAnnotations, Flow!StartManifest,
                  Flow!EndManifest, Flow!Publish
    <3> QED
      BY <1>2, <3>1, <3>2, <3>3 DEF Step
  <2>3. ASSUME q # p PROVE FALSE
    BY <2>1, <2>2, <2>3, Others DEF Sole, Flow!Working, SoleOK
  <2> QED
    BY <2>1, <2>2, <2>3 DEF Sole
<1> QED
  BY <1>1, <1>2

LEMMA SoleKept ==
  ASSUME FilesOK, SoleOK, NEW p \in Pipelines, Step(p)
  PROVE  SoleOK'
<1> SUFFICES ASSUME NEW q \in Pipelines, NEW o \in Pipelines, Sole(q)', o # q
             PROVE  ~Flow!Working(o)'
  BY DEF SoleOK
<1>1. q = p /\ ~Flow!Working(o)
  BY OnlyItself DEF SoleOK
<1>2. pc'[o] = pc[o]
  BY <1>1, Others
<1> QED
  BY <1>1, <1>2 DEF Flow!Working

(* While only p works, the files are as p has left them.                   *)
LEMMA AloneStep ==
  ASSUME FilesOK, NEW p \in Pipelines, Step(p), AloneAt(p), Flow!Working(p), Flow!Working(p)'
  PROVE  AloneAt(p)'
<1>t. Flow!TypeOK
  BY DEF FilesOK
<1> USE Chosen
<1> DEFINE Files == <<annotations, rewards, sidecar>>
<1>u. ASSUME UNCHANGED Files
      PROVE  /\ Flow!AnnotationsValid' = Flow!AnnotationsValid
             /\ Flow!RewardsValid(p)' = Flow!RewardsValid(p)
             /\ Own(p, annotations.of)' = Own(p, annotations.of)
             /\ Own(p, rewards.of)' = Own(p, rewards.of)
             /\ \A e : BoundAs(e)' = BoundAs(e)
  BY <1>u DEF Flow!AnnotationsValid, Flow!RewardsValid, Flow!RewardsMatch, Flow!SameDerivation,
              Own, BoundAs, Flow!Bound
<1>1. CASE Flow!Prepare(p) \/ Flow!MarkPrepared(p) \/ Flow!PrepareDataset(p)
  <2>1. pc'[p] \in {"preparing", "annotate", "mark", "dead"}
    BY <1>1, <1>t DEF Flow!Prepare, Flow!MarkPrepared, Flow!PrepareDataset, Flow!Goto,
                      Flow!EndStage, Flow!TypeOK
  <2> QED
    BY <2>1 DEF AloneAt, Annotated, Derived
<1>2. CASE Flow!ScanAnnotations(p)
  <2>1. pc'[p] = "annotating" /\ index'[p] = << >>
    BY <1>2, <1>t DEF Flow!ScanAnnotations, Flow!Goto, FilesOK, Flow!TypeOK
  <2> QED
    BY <2>1 DEF AloneAt, Annotated, Derived, Own
<1>3. CASE Flow!Annotate(p)
  <2>1. \/ pc'[p] = "scanning"
        \/ pc'[p] = "rewards" /\ ~force[p] /\ Flow!AnnotationsValid
    BY <1>3, <1>t DEF Flow!Annotate, Flow!Goto, Flow!TypeOK
  <2> QED
    BY <1>u, <2>1 DEF AloneAt, Annotated, Derived, Own
<1>4. CASE Flow!Rewards(p)
  <2>1. /\ pc[p] = "rewards" /\ UNCHANGED Files
        /\ \/ pc'[p] = "deriving"
           \/ pc'[p] = "bind" /\ ~force[p] /\ Flow!RewardsValid(p)
    BY <1>4, <1>t DEF Flow!Rewards, Flow!Goto, Flow!TypeOK, Flow!disk
  <2>2. /\ force[p] => Flow!AnnotationsValid
        /\ Flow!AnnotationsValid => Own(p, annotations.of)
    BY <2>1 DEF AloneAt, Annotated
  <2> QED
    BY <1>u, <2>1, <2>2 DEF AloneAt, Annotated, Derived, Own
<1>5. CASE Flow!AnnotateEpisode(p)
  <2> DEFINE e == Len(index[p]) + 1
             reusable == IF force[p] THEN None ELSE Flow!Reusable(p, e)
             made == IF Flow!Hit(p, e) THEN cache[e] ELSE IF reusable # None THEN reusable ELSE p
  <2>1. /\ pc[p] = "annotating" /\ pc'[p] = "annotating" /\ Len(index[p]) < N
        /\ index[p] \in Flow!Evaluations /\ index'[p] = Append(index[p], made)
    BY <1>5, <1>t DEF Flow!AnnotateEpisode, Flow!TypeOK
  <2>2. force[p] => made = p
    BY DEF Flow!Hit
  <2> HIDE DEF made
  <2>3. Own(p, Append(index[p], made))
    <3> SUFFICES ASSUME force[p], NEW d \in DOMAIN Append(index[p], made)
                 PROVE  Append(index[p], made)[d] = p
      BY DEF Own
    <3>1. index[p] \in Seq(Pipelines) /\ made = p /\ p \in Pipelines
      BY <2>1, <2>2 DEF Flow!Evaluations
    <3>2. \A i \in DOMAIN index[p] : index[p][i] = p
      BY <2>1 DEF AloneAt, Own
    <3> QED
      BY <3>1, <3>2
  <2>4. Own(p, index[p])'
    BY <2>1, <2>3 DEF Own
  <2> QED
    BY <2>1, <2>4 DEF AloneAt, Annotated, Derived
<1>6. CASE Flow!EndAnnotate(p)
  <2>1. /\ pc[p] = "annotating" /\ pc'[p] \in {"rewards", "dead"}
        /\ annotations' = [complete |-> TRUE, of |-> index[p]] /\ index[p] \in Flow!Evaluations
    BY <1>6, <1>t DEF Flow!EndAnnotate, Flow!EndStage, Flow!Goto, Flow!TypeOK
  <2>2. annotations' # None
    BY <2>1, Made, PipelineConstants
  <2>3. Flow!AnnotationsValid' /\ Own(p, annotations.of)'
    BY <2>1, <2>2 DEF Flow!AnnotationsValid, AloneAt, Own
  <2> QED
    BY <2>1, <2>3 DEF AloneAt, Annotated, Derived
<1>7. CASE Flow!LoadAnnotations(p, "deriving", "writing", "bind", force[p])
  <2>1. /\ pc[p] = "deriving" /\ Flow!AnnotationsValid /\ UNCHANGED Files
        /\ \/ pc'[p] \in {"bind", "dead"} /\ Flow!RewardsMatch(p, annotations.of) /\ ~force[p]
           \/ pc'[p] = "writing" /\ input'[p] = annotations.of
    BY <1>7, <1>t DEF Flow!LoadAnnotations, Flow!EndStage, Flow!Goto, Flow!TypeOK, Flow!disk
  <2>2. Own(p, annotations.of)
    BY <2>1 DEF AloneAt, Annotated
  <2> QED
    BY <1>u, <2>1, <2>2 DEF AloneAt, Annotated, Derived, Own, Flow!RewardsValid
<1>8. CASE Flow!StartManifest(p, "writing", "completing")
  <2>1. /\ pc[p] = "writing" /\ pc'[p] = "completing" /\ UNCHANGED <<annotations, input>>
    BY <1>8, <1>t DEF Flow!StartManifest, Flow!Publish, Flow!Goto, Flow!TypeOK
  <2> QED
    BY <2>1 DEF AloneAt, Annotated, Derived, Own, Flow!AnnotationsValid
<1>9. CASE Flow!EndManifest(p, "completing", "bind")
  <2>1. /\ pc[p] = "completing" /\ pc'[p] \in {"bind", "dead"} /\ annotations' = annotations
        /\ rewards' = [complete |-> TRUE, of |-> input[p], config |-> config[p]]
        /\ input[p] \in Flow!Evaluations /\ config[p] \in Configs
    BY <1>9, <1>t DEF Flow!EndManifest, Flow!Publish, Flow!EndStage, Flow!Goto, Flow!TypeOK
  <2>2. rewards' # None
    BY <2>1, Made, PipelineConstants
  <2>3. Flow!AnnotationsValid /\ input[p] = annotations.of /\ Own(p, annotations.of)
    BY <2>1 DEF AloneAt, Annotated
  <2>4. Flow!RewardsValid(p)'
    BY <2>1, <2>2, <2>3 DEF Flow!RewardsValid, Flow!RewardsMatch, Flow!SameDerivation,
                            Flow!AnnotationsValid
  <2>5. Own(p, rewards.of)'
    BY <2>1, <2>3 DEF Own
  <2> QED
    BY <2>1, <2>4, <2>5 DEF AloneAt, Annotated, Derived
<1>10. CASE Flow!StartBind(p)
  <2>1. /\ pc[p] = "bind" /\ pc'[p] \in {"binding", "failed"} /\ UNCHANGED Files
        /\ pc'[p] = "binding" => used'[p] = rewards
        /\ index'[p] = << >>
    BY <1>10, <1>t DEF Flow!StartBind, Flow!Goto, FilesOK, Flow!TypeOK, Flow!disk
  <2>2. Flow!RewardsValid(p) /\ Own(p, rewards.of)
    BY <2>1 DEF AloneAt, Derived
  <2>3. \A e \in 1..Len(index'[p]) : FALSE
    BY <2>1
  <2> QED
    BY <1>u, <2>1, <2>2, <2>3 DEF AloneAt, Annotated, Derived
<1>11. CASE Flow!BindEpisode(p)
  <2> DEFINE e == Len(index[p]) + 1
             wanted == Flow!Entry(p, e)
  <2>1. /\ pc[p] = "binding" /\ Len(index[p]) < N /\ e \in Flow!EpisodeIds
        /\ index[p] \in Flow!Evaluations
        /\ UNCHANGED <<pc, used, annotations, rewards, input>>
    BY <1>11, <1>t, Appended DEF Flow!BindEpisode, Flow!TypeOK
  <2>2. /\ Flow!RewardsValid(p) /\ Own(p, rewards.of) /\ used[p] = rewards
        /\ \A d \in 1..Len(index[p]) : BoundAs(d)
    BY <2>1 DEF AloneAt, Derived
  <2>3. wanted = [of |-> rewards.of[e], config |-> rewards.config]
    BY <2>2 DEF Flow!Entry
  <2>4. Flow!RewardsValid(p)' /\ Own(p, rewards.of)'
    BY <2>1, <2>2 DEF Flow!RewardsValid, Flow!RewardsMatch, Flow!SameDerivation,
                      Flow!AnnotationsValid, Own
  <2>5. \A d \in 1..Len(index'[p]) : BoundAs(d)'
    <3>1. CASE /\ Flow!Bound(e) /\ sidecar[e].json = wanted /\ sidecar' = sidecar
               /\ index' = [index EXCEPT ![p] = Append(@, p)]
      <4>1. index'[p] = Append(index[p], p)
        BY <3>1, <1>t DEF Flow!TypeOK
      <4>2. Len(index'[p]) = e /\ Len(index[p]) \in Nat
        BY <2>1, <4>1, Appended DEF Flow!Evaluations
      <4>3. \A d \in 1..e : d \in 1..Len(index[p]) \/ d = e
        BY <4>2
      <4>4. BoundAs(e)
        BY <3>1, <2>3 DEF BoundAs
      <4>5. \A d \in 1..e : BoundAs(d)
        BY <2>2, <4>3, <4>4
      <4>6. \A d : BoundAs(d)' = BoundAs(d)
        BY <2>1, <3>1 DEF BoundAs, Flow!Bound
      <4> QED
        BY <4>2, <4>5, <4>6
    <3>2. CASE index' = index /\ \A d \in Flow!EpisodeIds : d # e => sidecar'[d] = sidecar[d]
      <4>1. \A d \in 1..Len(index[p]) : d \in Flow!EpisodeIds /\ d # e
        BY <2>1, PipelineConstants DEF Flow!EpisodeIds, Flow!Evaluations
      <4> QED
        BY <2>1, <2>2, <3>2, <4>1 DEF BoundAs, Flow!Bound
    <3>3. \/ /\ Flow!Bound(e) /\ sidecar[e].json = wanted /\ sidecar' = sidecar
             /\ index' = [index EXCEPT ![p] = Append(@, p)]
          \/ index' = index /\ sidecar' = [sidecar EXCEPT ![e].values = wanted]
          \/ index' = index /\ sidecar' = [sidecar EXCEPT ![e].json = wanted]
      BY <1>11 DEF Flow!BindEpisode, Flow!CopyValues
    <3> HIDE DEF e, wanted
    <3> QED
      BY <3>1, <3>2, <3>3, <1>t DEF Flow!TypeOK
  <2> QED
    BY <2>1, <2>2, <2>4, <2>5 DEF AloneAt, Annotated, Derived
<1>12. CASE Flow!EndBind(p)
  <2>1. /\ pc[p] = "binding" /\ pc'[p] \in {"interrupted", "train"} /\ UNCHANGED Files
        /\ Len(index[p]) = N
    BY <1>12, <1>t DEF Flow!EndBind, Flow!Goto, Flow!TypeOK, Flow!disk
  <2>2. Flow!RewardsValid(p) /\ Own(p, rewards.of) /\ \A e \in Flow!EpisodeIds : BoundAs(e)
    BY <2>1 DEF AloneAt, Derived, Flow!EpisodeIds
  <2> QED
    BY <1>u, <2>1, <2>2 DEF AloneAt, Annotated, Derived
<1>13. CASE Flow!Train(p)
  <2>1. /\ pc[p] = "train" /\ pc'[p] = "checking" /\ UNCHANGED Files
    BY <1>13, <1>t DEF Flow!Train, Flow!Goto, Flow!TypeOK, Flow!disk
  <2> QED
    BY <1>u, <2>1 DEF AloneAt, Annotated, Derived
<1>14. CASE Flow!LoadAnnotations(p, "checking", "rewriting", "reading", FALSE)
  <2>1. pc[p] = "checking" /\ UNCHANGED Files
    BY <1>14 DEF Flow!LoadAnnotations, Flow!disk
  <2>2. Flow!RewardsMatch(p, annotations.of)
    BY <2>1 DEF AloneAt, Derived, Flow!RewardsValid
  <2>3. pc'[p] \in {"reading", "dead"}
    BY <1>14, <2>2, <1>t DEF Flow!LoadAnnotations, Flow!EndStage, Flow!Goto, Flow!TypeOK
  <2> QED
    BY <1>u, <2>1, <2>3 DEF AloneAt, Annotated, Derived
<1>15. CASE \/ Flow!StartManifest(p, "rewriting", "recompleting")
            \/ Flow!EndManifest(p, "recompleting", "reading")
  BY <1>15 DEF Flow!StartManifest, Flow!EndManifest, AloneAt
<1>16. CASE Flow!ReadRewards(p)
  <2>1. /\ pc[p] = "reading" /\ pc'[p] = "training" /\ used'[p] = rewards /\ UNCHANGED Files
    BY <1>16, <1>t DEF Flow!ReadRewards, Flow!Goto, Flow!TypeOK, Flow!disk
  <2> QED
    BY <1>u, <2>1 DEF AloneAt, Annotated, Derived
<1>17. CASE Flow!Interrupt(p) \/ Flow!Crash(p)
  <2>1. UNCHANGED <<pc, index, input, used>> /\ UNCHANGED Files
    <3>1. pc'[p] # "dead"
      BY DEF Flow!Working, Flow!ControllerPcs, Flow!StagePcs, Flow!TrainPcs
    <3> QED
      BY <1>17, <3>1, <1>t DEF Flow!Interrupt, Flow!Crash, Flow!Goto, Flow!TypeOK, Flow!disk,
                               Flow!memory
  <2> QED
    BY <1>u, <2>1 DEF AloneAt, Own
<1>18. ~(Flow!Launch(p) \/ Flow!EndTraining(p) \/ Flow!FailStage(p))
  BY <1>t DEF Flow!Launch, Flow!EndTraining, Flow!FailStage, Flow!EndStage, Flow!Goto,
              Flow!Failure, Flow!TypeOK, Flow!Working,
              Flow!ControllerPcs, Flow!StagePcs, Flow!TrainPcs
<1> QED
  BY <1>1, <1>2, <1>3, <1>4, <1>5, <1>6, <1>7, <1>8, <1>9, <1>10, <1>11, <1>12, <1>13, <1>14,
     <1>15, <1>16, <1>17, <1>18 DEF Step, Flow!Derive, Flow!CheckRewards

LEMMA AloneKept ==
  ASSUME FilesOK, SoleOK, AloneOK, NEW p \in Pipelines, Step(p)
  PROVE  AloneOK'
<1> SUFFICES ASSUME NEW q \in Pipelines, Sole(q)' PROVE AloneAt(q)'
  BY DEF AloneOK
<1>1. q = p /\ (Sole(p) \/ Flow!Launch(p))
  BY OnlyItself
<1>2. CASE Flow!Launch(p)
  <2>1. pc'[p] \in {"annotate", "prepare"}
    BY <1>2 DEF Flow!Launch, Flow!Goto, FilesOK, Flow!TypeOK
  <2> QED
    BY <1>1, <2>1 DEF AloneAt, Annotated, Derived
<1>3. CASE Sole(p)
  BY <1>1, <1>3, AloneStep DEF AloneOK, Sole
<1> QED
  BY <1>1, <1>2, <1>3

LEMMA PipeInit == ASSUME Flow!Init PROVE PipeIInv
<1> USE PipelineConstants, Empty DEF Flow!Init
<1>1. Flow!TypeOK
  BY DEF Flow!TypeOK
<1>2. FilesOK
  BY <1>1 DEF FilesOK, Flow!AnnotationsValid
<1>3. ReadOK /\ StopOK /\ SoleOK /\ AloneOK
  BY DEF ReadOK, StopOK, SoleOK, AloneOK, Sole, Flow!Working, Flow!TrainPcs,
         Flow!ControllerPcs, Flow!StagePcs
<1> QED
  BY <1>2, <1>3 DEF PipeIInv

LEMMA PipeStep == ASSUME PipeIInv, [Flow!Next]_pipelineVars PROVE PipeIInv'
<1>1. CASE Flow!Next
  <2>1. PICK p \in Pipelines : Step(p)
    BY <1>1 DEF Flow!Next, Step
  <2> QED
    BY <2>1, FilesStep, ReadKept, StopKept, SoleKept, AloneKept DEF PipeIInv
<1>2. CASE UNCHANGED pipelineVars
  <2> USE <1>2 DEF pipelineVars, Flow!local, Flow!choice, Flow!memory, Flow!disk, Flow!history
  <2>1. FilesOK'
    BY DEF PipeIInv, FilesOK, Flow!TypeOK, Flow!AnnotationsValid
  <2>2. ReadOK' /\ StopOK' /\ SoleOK'
    BY DEF PipeIInv, ReadOK, StopOK, SoleOK, Sole, Flow!Working, Derivation
  <2>3. \A p \in Pipelines : Sole(p)' = Sole(p) /\ AloneAt(p)' = AloneAt(p)
    BY DEF Sole, Flow!Working, AloneAt, Own, Flow!RewardsValid, Flow!RewardsMatch,
           Flow!SameDerivation, Flow!AnnotationsValid, BoundAs, Flow!Bound
  <2> QED
    BY <2>1, <2>2, <2>3 DEF PipeIInv, AloneOK
<1> QED
  BY <1>1, <1>2

LEMMA PipeImplies ==
  ASSUME PipeIInv
  PROVE  /\ Flow!TypeOK /\ Flow!TrainsOnItsRewards /\ Flow!TrainsOnWhatItBound
         /\ Flow!StopComesBeforeTraining
<1>1. Flow!TypeOK
  BY DEF PipeIInv, FilesOK
<1>2. Flow!TrainsOnItsRewards
  BY DEF PipeIInv, FilesOK, ReadOK, Derivation, Flow!TrainsOnItsRewards
<1>3. Flow!TrainsOnWhatItBound
  <2> SUFFICES ASSUME NEW p \in Pipelines, pc[p] = "training", alone[p], NEW e \in Flow!EpisodeIds
               PROVE  /\ Flow!Bound(e) /\ sidecar[e].json = Flow!Entry(p, e)
                      /\ force[p] => used[p].of[e] = p
    BY DEF Flow!TrainsOnWhatItBound
  <2>1. Sole(p)
    BY DEF Sole, Flow!Working, Flow!StagePcs, Flow!TrainPcs
  <2>2. /\ used[p] = rewards /\ Flow!RewardsValid(p) /\ Own(p, rewards.of) /\ BoundAs(e)
    BY <2>1 DEF PipeIInv, AloneOK, AloneAt, Derived
  <2>3. e \in DOMAIN rewards.of
    <3>1. rewards # None
      BY <2>2 DEF Flow!RewardsValid, Flow!RewardsMatch
    <3>2. rewards \in Flow!RewardManifests /\ Len(rewards.of) = N
      BY <3>1 DEF PipeIInv, FilesOK, Flow!TypeOK
    <3>3. rewards.of \in Seq(Pipelines)
      BY <3>2 DEF Flow!RewardManifests, Flow!Evaluations
    <3> QED
      BY <3>2, <3>3 DEF Flow!EpisodeIds
  <2> QED
    BY <2>2, <2>3 DEF BoundAs, Flow!Entry, Own
<1>4. Flow!StopComesBeforeTraining
  BY DEF PipeIInv, StopOK, Flow!StopComesBeforeTraining
<1> QED
  BY <1>1, <1>2, <1>3, <1>4

(* While the pipelines are there, a step is one of theirs.                 *)
LEMMA PipelineSteps ==
  ASSUME part = "pipeline", [PartsNext]_parts
  PROVE  [Flow!Next]_pipelineVars
BY PipelineVars DEF PartsNext, parts, pipelineVars

(* A training has the rewards of its own derivation, complete, unless they *)
(* were replaced between check and read; one that nobody overlaps trains   *)
(* on what it has bound, with --force-annotate on evaluations of its own;  *)
(* and a stop that came before the training never becomes one.             *)
THEOREM TrainingIsGivenItsRewards == PartsSpec => []TrainingGetsItsRewards
<1>1. PartsInit => (part = "pipeline" => PipeIInv)
  BY PipeInit DEF PartsInit
<1>2. (part = "pipeline" => PipeIInv) /\ [PartsNext]_parts => (part = "pipeline" => PipeIInv)'
  <2> SUFFICES ASSUME part = "pipeline" => PipeIInv, [PartsNext]_parts, part' = "pipeline"
               PROVE  PipeIInv'
    OBVIOUS
  <2>1. part = "pipeline"
    BY DEF PartsNext, parts
  <2> QED
    BY <2>1, PipelineSteps, PipeStep
<1>3. (part = "pipeline" => PipeIInv) => TrainingGetsItsRewards
  BY PipeImplies DEF TrainingGetsItsRewards
<1> QED
  BY <1>1, <1>2, <1>3, PTL DEF PartsSpec

-----------------------------------------------------------------------------
(***************************************************************************)
(* The Final Reward and what a training makes of it.                       *)
(*                                                                         *)
(* Sums and powers are recursive functions, so what they satisfy step by   *)
(* step (SumSteps, PowerSteps) and everything that follows from it by      *)
(* induction rests on Climb, which comes from the well-founded order of    *)
(* finite sets of numbers.  Discounts multiply (DiscountsMultiply), hence  *)
(* the shaping rewards of consecutive chunks telescope (Telescope), under  *)
(* either reduction.  A labelling that is accepted has a score of -1 at    *)
(* the start and 0 from the success on (ScoreStarts, ScoreEnds).  The      *)
(* invariant: each saved or bound result is what its own recipe makes of   *)
(* its own scores (Faithful), so that a member that is not recomputed has  *)
(* the rewards it would be given (TrainingOK).                             *)
(***************************************************************************)

(* A set of numbers has a least one.                                       *)
LEMMA LeastOf ==
  ASSUME NEW T \in SUBSET Nat, T # {}
  PROVE  \E n \in T : \A m \in T : n <= m
<1> DEFINE F == {1..n : n \in T}
<1>1. F \subseteq FiniteSubsetsOf(Nat)
  <2>1. \A n \in T : IsFiniteSet(1..n)
    BY FS_Interval
  <2>2. \A n \in T : 1..n \in SUBSET Nat
    OBVIOUS
  <2> QED
    BY <2>1, <2>2 DEF FiniteSubsetsOf
<1>2. \E x \in F : \A y \in F : ~(<<y, x>> \in StrictSubsetOrdering(Nat))
  <2>1. F # {}
    OBVIOUS
  <2> QED
    BY <2>1, <1>1, WFMin, FS_StrictSubsetOrderingWellFounded
<1>3. PICK n \in T : \A m \in T : ~(<<1..m, 1..n>> \in StrictSubsetOrdering(Nat))
  BY <1>2
<1>4. ASSUME NEW m \in T, m < n PROVE <<1..m, 1..n>> \in StrictSubsetOrdering(Nat)
  <2>1. 1..m \in SUBSET Nat /\ 1..n \in SUBSET Nat
    OBVIOUS
  <2>2. 1..m \subseteq 1..n /\ n \in 1..n /\ n \notin 1..m
    BY <1>4
  <2> QED
    BY <2>1, <2>2 DEF StrictSubsetOrdering
<1>5. ASSUME NEW m \in T PROVE n <= m
  <2>1. ~(m < n)
    BY <1>3, <1>4
  <2> QED
    BY <2>1
<1> QED
  BY <1>5

(* What holds of 0, and of the next number whenever it holds of one, holds *)
(* of n.                                                                   *)
LEMMA Climb ==
  ASSUME NEW n \in Nat, NEW S, 0 \in S, \A m \in 0..n-1 : m \in S => m + 1 \in S
  PROVE  \A m \in 0..n : m \in S
<1> DEFINE T == {m \in 0..n : m \notin S}
<1>1. SUFFICES ASSUME T # {} PROVE FALSE
  OBVIOUS
<1>2. PICK k \in T : \A m \in T : k <= m
  <2>1. T \in SUBSET Nat
    OBVIOUS
  <2> HIDE DEF T
  <2> QED
    BY <2>1, <1>1, LeastOf
<1>3. k # 0 /\ k - 1 \in 0..n-1
  BY <1>2
<1>4. k - 1 \in S
  BY <1>2, <1>3
<1> QED
  BY <1>2, <1>3, <1>4

(* A set of numbers up to a bound has a greatest one.                      *)
LEMMA GreatestOf ==
  ASSUME NEW n \in Nat, NEW T \in SUBSET (0..n), T # {}
  PROVE  \E x \in T : \A y \in T : x >= y
<1> DEFINE U == {n - x : x \in T}
<1>1. U \in SUBSET Nat /\ U # {}
  <2>1. \A x \in T : n - x \in Nat
    OBVIOUS
  <2>2. PICK x \in T : TRUE
    OBVIOUS
  <2>3. n - x \in U
    OBVIOUS
  <2> QED
    BY <2>1, <2>3
<1>2. PICK u \in U : \A v \in U : u <= v
  <2> HIDE DEF U
  <2> QED
    BY <1>1, LeastOf
<1>3. PICK x \in T : u = n - x
  BY <1>2
<1>4. ASSUME NEW y \in T PROVE x >= y
  <2>1. n - y \in U
    OBVIOUS
  <2>2. u <= n - y
    BY <1>2, <2>1
  <2> QED
    BY <1>3, <2>2
<1> QED
  BY <1>4

(* The sum of n numbers, one after the other.                              *)
LEMMA SumSteps ==
  ASSUME NEW n \in Nat, NEW f \in [1..n -> Int]
  PROVE  \E s \in [0..n -> Int] :
            s[0] = 0 /\ (\A k \in 1..n : s[k] = s[k-1] + f[k]) /\ Total(n, f) = s[n]
<1> DEFINE T == {m \in 0..n : \E s \in [0..m -> Int] :
                   s[0] = 0 /\ \A k \in 1..m : s[k] = s[k-1] + f[k]}
<1>1. 0 \in T
  <2> DEFINE s == [k \in 0..0 |-> 0]
  <2>1. s \in [0..0 -> Int] /\ s[0] = 0 /\ \A k \in 1..0 : s[k] = s[k-1] + f[k]
    OBVIOUS
  <2> HIDE DEF s
  <2> QED
    BY <2>1
<1>2. ASSUME NEW m \in 0..n-1, m \in T PROVE m + 1 \in T
  <2>1. PICK s \in [0..m -> Int] : s[0] = 0 /\ \A k \in 1..m : s[k] = s[k-1] + f[k]
    BY <1>2
  <2> DEFINE t == [k \in 0..m+1 |-> IF k <= m THEN s[k] ELSE s[m] + f[m+1]]
  <2>2. t \in [0..m+1 -> Int] /\ t[0] = 0
    BY <2>1
  <2>3. ASSUME NEW k \in 1..m+1 PROVE t[k] = t[k-1] + f[k]
    <3>1. CASE k = m + 1
      BY <3>1
    <3>2. CASE k # m + 1
      <4>1. k \in 1..m /\ k - 1 \in 0..m
        BY <3>2
      <4>2. t[k] = s[k] /\ t[k-1] = s[k-1]
        BY <4>1
      <4> HIDE DEF t
      <4> QED
        BY <2>1, <4>1, <4>2
    <3> QED
      BY <3>1, <3>2
  <2>4. m + 1 \in 0..n
    OBVIOUS
  <2> HIDE DEF t
  <2> QED
    BY <2>2, <2>3, <2>4
<1>3. n \in T
  <2> HIDE DEF T
  <2>1. \A m \in 0..n : m \in T
    BY <1>1, <1>2, Climb
  <2> QED
    BY <2>1
<1>4. PICK s \in [0..n -> Int] : s[0] = 0 /\ \A k \in 1..n : s[k] = s[k-1] + f[k]
  BY <1>3
<1> DEFINE sum[k \in 0..n] == IF k = 0 THEN 0 ELSE sum[k-1] + f[k]
<1>5. s = [k \in 0..n |-> IF k = 0 THEN 0 ELSE s[k-1] + f[k]]
  <2>1. s = [k \in 0..n |-> s[k]]
    OBVIOUS
  <2>2. \A k \in 0..n : s[k] = IF k = 0 THEN 0 ELSE s[k-1] + f[k]
    BY <1>4
  <2> QED
    BY <2>1, <2>2
<1>6. sum = [k \in 0..n |-> IF k = 0 THEN 0 ELSE sum[k-1] + f[k]]
  BY <1>5
<1>7. Total(n, f) = sum[n]
  BY DEF Total
<1> HIDE DEF sum
<1>8. \A k \in 0..n : sum[k] = IF k = 0 THEN 0 ELSE sum[k-1] + f[k]
  BY <1>6
<1>9. sum[n] = s[n]
  <2> DEFINE U == {k \in 0..n : sum[k] = s[k]}
  <2>1. 0 \in U
    BY <1>4, <1>8
  <2>2. ASSUME NEW k \in 0..n-1, k \in U PROVE k + 1 \in U
    <3>1. k + 1 \in 1..n /\ (k + 1) - 1 = k /\ k + 1 # 0
      OBVIOUS
    <3>2. sum[k+1] = sum[k] + f[k+1] /\ s[k+1] = s[k] + f[k+1]
      BY <1>4, <1>8, <3>1
    <3> QED
      BY <2>2, <3>1, <3>2
  <2> HIDE DEF U
  <2>3. \A k \in 0..n : k \in U
    BY <2>1, <2>2, Climb
  <2> QED
    BY <2>3 DEF U
<1> QED
  BY <1>4, <1>7, <1>9

(* The powers of a number.                                                 *)
LEMMA PowerSteps ==
  ASSUME NEW x \in Nat
  PROVE  /\ Powers(x) \in [0..Count -> Nat] /\ Powers(x)[0] = 1
         /\ \A k \in 1..Count : Powers(x)[k] = x * Powers(x)[k-1]
<1> DEFINE n == Count
<1>0. n \in Nat
  BY RecipesAssumption
<1> HIDE DEF n
<1> DEFINE T == {m \in 0..n : \E s \in [0..m -> Nat] :
                   s[0] = 1 /\ \A k \in 1..m : s[k] = x * s[k-1]}
<1>1. 0 \in T
  <2> DEFINE s == [k \in 0..0 |-> 1]
  <2>1. s \in [0..0 -> Nat] /\ s[0] = 1 /\ \A k \in 1..0 : s[k] = x * s[k-1]
    OBVIOUS
  <2> HIDE DEF s
  <2> QED
    BY <1>0, <2>1
<1>2. ASSUME NEW m \in 0..n-1, m \in T PROVE m + 1 \in T
  <2>1. PICK s \in [0..m -> Nat] : s[0] = 1 /\ \A k \in 1..m : s[k] = x * s[k-1]
    BY <1>2
  <2>0. m \in Nat /\ x * s[m] \in Nat
    BY <1>0
  <2> DEFINE t == [k \in 0..m+1 |-> IF k <= m THEN s[k] ELSE x * s[m]]
  <2>2. t \in [0..m+1 -> Nat] /\ t[0] = 1
    BY <2>0, <2>1
  <2>3. ASSUME NEW k \in 1..m+1 PROVE t[k] = x * t[k-1]
    <3>1. CASE k = m + 1
      BY <2>0, <3>1
    <3>2. CASE k # m + 1
      <4>1. k \in 1..m /\ k - 1 \in 0..m
        BY <2>0, <3>2
      <4>2. t[k] = s[k] /\ t[k-1] = s[k-1]
        BY <2>0, <4>1
      <4> HIDE DEF t
      <4> QED
        BY <2>1, <4>1, <4>2
    <3> QED
      BY <3>1, <3>2
  <2>4. m + 1 \in 0..n
    BY <1>0
  <2> HIDE DEF t
  <2> QED
    BY <2>2, <2>3, <2>4
<1>3. n \in T
  <2> HIDE DEF T
  <2>1. \A m \in 0..n : m \in T
    BY <1>0, <1>1, <1>2, Climb
  <2> QED
    BY <1>0, <2>1
<1>4. PICK s \in [0..n -> Nat] : s[0] = 1 /\ \A k \in 1..n : s[k] = x * s[k-1]
  BY <1>3
<1> DEFINE power[k \in 0..n] == IF k = 0 THEN 1 ELSE x * power[k-1]
<1>5. s = [k \in 0..n |-> IF k = 0 THEN 1 ELSE x * s[k-1]]
  <2>1. s = [k \in 0..n |-> s[k]]
    OBVIOUS
  <2>2. \A k \in 0..n : s[k] = IF k = 0 THEN 1 ELSE x * s[k-1]
    BY <1>0, <1>4
  <2> QED
    BY <2>1, <2>2
<1>6. power = [k \in 0..n |-> IF k = 0 THEN 1 ELSE x * power[k-1]]
  BY <1>5
<1>7. Powers(x) = power
  BY DEF Powers, n
<1> HIDE DEF power
<1>8. \A k \in 0..n : power[k] = IF k = 0 THEN 1 ELSE x * power[k-1]
  BY <1>6
<1>9. \A k \in 0..n : power[k] \in Nat
  <2> DEFINE U == {k \in 0..n : power[k] \in Nat}
  <2>1. 0 \in U
    BY <1>0, <1>8
  <2>2. ASSUME NEW k \in 0..n-1, k \in U PROVE k + 1 \in U
    <3>1. k + 1 \in 0..n /\ (k + 1) - 1 = k /\ k + 1 # 0
      BY <1>0
    <3>2. power[k+1] = x * power[k]
      BY <1>8, <3>1
    <3> QED
      BY <2>2, <3>1, <3>2
  <2> HIDE DEF U
  <2>3. \A k \in 0..n : k \in U
    BY <1>0, <2>1, <2>2, Climb
  <2> QED
    BY <2>3 DEF U
<1>10. power \in [0..n -> Nat]
  BY <1>6, <1>9
<1>11. 0 \in 0..n /\ \A k \in 1..n : k \in 0..n /\ k # 0
  BY <1>0
<1> QED
  BY <1>7, <1>8, <1>10, <1>11 DEF n

LEMMA PowersMultiply ==
  ASSUME NEW x \in Nat, NEW a \in 0..Count, NEW b \in 0..Count - a
  PROVE  Powers(x)[a] * Powers(x)[b] = Powers(x)[a + b]
<1> DEFINE q == Powers(x)
           n == Count - a
           U == {k \in 0..n : q[a] * q[k] = q[a + k]}
<1>0. n \in Nat /\ Count \in Nat
  BY RecipesAssumption
<1>1. q \in [0..Count -> Nat] /\ q[0] = 1 /\ \A k \in 1..Count : q[k] = x * q[k-1]
  BY PowerSteps
<1> HIDE DEF q
<1>2. 0 \in U
  BY <1>0, <1>1
<1>3. ASSUME NEW k \in 0..n-1, k \in U PROVE k + 1 \in U
  <2>1. /\ k + 1 \in 0..n /\ k + 1 \in 1..Count /\ a + (k + 1) \in 1..Count
        /\ (k + 1) - 1 = k /\ (a + (k + 1)) - 1 = a + k
    BY <1>0
  <2>2. q[k+1] = x * q[k] /\ q[a + (k + 1)] = x * q[a + k]
    BY <1>1, <2>1
  <2>3. q[a] * q[k] = q[a + k]
    BY <1>3
  <2>4. q[a] \in Nat /\ q[k] \in Nat
    BY <1>0, <1>1
  <2>5. \A y, z \in Nat : y * (x * z) = x * (y * z)
    OBVIOUS
  <2> QED
    BY <2>1, <2>2, <2>3, <2>4, <2>5
<1>4. \A k \in 0..n : k \in U
  <2> HIDE DEF U, n
  <2> QED
    BY <1>0, <1>2, <1>3, Climb
<1> QED
  BY <1>4 DEF q

(* Discounts multiply.                                                     *)
LEMMA DiscountsMultiply ==
  ASSUME NEW g \in Nat
  PROVE  /\ One \in Nat /\ Pow(g, 0) = One /\ \A n \in 0..Count : Pow(g, n) \in Nat
         /\ \A a, b \in 0..Count : a + b <= Count => Pow(g, a) * Pow(g, b) = One * Pow(g, a + b)
<1>0. Base \in Nat /\ Count \in Nat
  BY RecipesAssumption
<1>1. /\ Powers(g) \in [0..Count -> Nat] /\ Powers(g)[0] = 1
      /\ Powers(Base) \in [0..Count -> Nat] /\ Powers(Base)[0] = 1
  BY <1>0, PowerSteps
<1>2. One \in Nat /\ Pow(g, 0) = One /\ \A n \in 0..Count : Pow(g, n) \in Nat
  BY <1>0, <1>1 DEF One, Pow
<1>3. ASSUME NEW a \in 0..Count, NEW b \in 0..Count, a + b <= Count
      PROVE  Pow(g, a) * Pow(g, b) = One * Pow(g, a + b)
  <2> DEFINE h == Count
             q == Powers(Base)
  <2>1. Powers(g)[a] * Powers(g)[b] = Powers(g)[a + b]
    BY <1>0, <1>3, PowersMultiply
  <2>2. q[h - (a + b)] * q[b] = q[h - a]
    <3>1. h - (a + b) \in 0..h /\ b \in 0..h - (h - (a + b)) /\ (h - (a + b)) + b = h - a
      BY <1>0, <1>3
    <3> QED
      BY <1>0, <3>1, PowersMultiply
  <2>3. q[b] * q[h - b] = q[h]
    <3>1. h - b \in 0..h - b /\ b + (h - b) = h
      BY <1>0, <1>3
    <3> QED
      BY <1>0, <3>1, PowersMultiply
  <2>4. /\ Powers(g)[a] \in Nat /\ Powers(g)[b] \in Nat /\ q[b] \in Nat
        /\ q[h - (a + b)] \in Nat /\ q[h - b] \in Nat /\ h - a \in 0..h
    BY <1>0, <1>1, <1>3
  <2>5. \A u, v, w, y, z \in Nat : (u * (w * y)) * (v * z) = (y * z) * ((u * v) * w)
    OBVIOUS
  <2> HIDE DEF q, h
  <2>6. Pow(g, a) * Pow(g, b) = (Powers(g)[a] * (q[h - (a + b)] * q[b])) * (Powers(g)[b] * q[h - b])
    BY <2>2 DEF Pow, q, h
  <2>7. One * Pow(g, a + b) = (q[b] * q[h - b]) * ((Powers(g)[a] * Powers(g)[b]) * q[h - (a + b)])
    BY <2>1, <2>3 DEF Pow, One, q, h
  <2> QED
    BY <2>4, <2>5, <2>6, <2>7
<1> QED
  BY <1>2, <1>3

(* What the labels and the recordings are.                                 *)
LEMMA Recordings ==
  /\ Base \in Nat \ {0} /\ Count \in Nat \ {0}
  /\ \A m \in Members :
       /\ Cut(Episodes[m].cuts)
       /\ Episodes[m].distance \in [0..Count -> Nat]
       /\ SuccessStep(m) = None \/ SuccessStep(m) \in 1..Count
       /\ 0 # SuccessStep(m) /\ None \notin 0..Count
<1>1. Count \in Nat \ {0} /\ None \notin 0..Count
  BY RecipesAssumption
<1>2. 0 \in 0..Count
  BY <1>1
<1>3. ASSUME NEW m \in Members PROVE SuccessStep(m) = None \/ SuccessStep(m) \in 1..Count
  BY <1>2, RecipesAssumption DEF SuccessStep
<1>4. ASSUME NEW m \in Members PROVE 0 # SuccessStep(m)
  BY <1>1, <1>2, <1>3
<1> QED
  BY <1>1, <1>2, <1>3, <1>4, RecipesAssumption

(* The anchors of a score: numbers, and an anchor at the start.            *)
LEMMA Anchors ==
  ASSUME NEW m \in Members, NEW F, \A f \in F : f.step \in 1..Count
  PROVE  AnchorSteps(m, F) \subseteq 0..Count /\ 0 \in AnchorSteps(m, F)
<1>1. \A f \in F : f.step \in 0..Count
  OBVIOUS
<1> QED
  BY <1>1, Recordings DEF AnchorSteps

(* A score is a whole number at every anchor, and -1 at the start.         *)
LEMMA AnchorScores ==
  ASSUME NEW m \in Members, NEW F, IsFiniteSet(F), \A f \in F : f.step \in 1..Count,
         Denominator(m, F) > 0
  PROVE  /\ \A t \in 0..Count : AnchorScore(m, F, t) \in Int
         /\ AnchorScore(m, F, 0) = -Scale
<1>1. ASSUME NEW G \in SUBSET F PROVE Net(G) \in Int
  <2>1. /\ IsFiniteSet({f \in G : f.kind = "positive"})
        /\ IsFiniteSet({f \in G : f.kind = "negative"})
    <3>1. {f \in G : f.kind = "positive"} \in SUBSET F
             /\ {f \in G : f.kind = "negative"} \in SUBSET F
      OBVIOUS
    <3> QED
      BY <3>1, FS_Subset
  <2> QED
    BY <2>1, FS_CardinalityType DEF Net
<1>2. Denominator(m, F) \in Nat \ {0}
  <2>1. Net(F) \in Int
    BY <1>1
  <2>2. Cardinality({f \in F : f.kind = "positive"}) \in Nat
    <3>1. {f \in F : f.kind = "positive"} \in SUBSET F
      OBVIOUS
    <3> QED
      BY <3>1, FS_Subset, FS_CardinalityType
  <2>3. Denominator(m, F) \in Int
    BY <2>1, <2>2 DEF Denominator
  <2> QED
    BY <2>3
<1> DEFINE d == Denominator(m, F)
<1> HIDE DEF d
<1>3. d \in Nat \ {0}
  BY <1>2 DEF d
<1>4. \A a \in Int : a \div d \in Int
  BY <1>3
<1>5. \A t \in 0..Count : AnchorScore(m, F, t) \in Int
  <2> SUFFICES ASSUME NEW t \in 0..Count PROVE AnchorScore(m, F, t) \in Int
    OBVIOUS
  <2>1. Net({f \in F : f.step <= t}) \in Int
    <3>1. {f \in F : f.step <= t} \in SUBSET F
      OBVIOUS
    <3> QED
      BY <3>1, <1>1
  <2>2. (Net({f \in F : f.step <= t}) - d) * Scale \in Int
    BY <2>1, <1>3 DEF Scale
  <2> QED
    BY <2>2, <1>4 DEF AnchorScore, d
<1>6. AnchorScore(m, F, 0) = -Scale
  <2>1. {f \in F : f.step <= 0} = {}
    OBVIOUS
  <2>2. Net({}) = 0
    <3>1. {f \in {} : f.kind = "positive"} = {} /\ {f \in {} : f.kind = "negative"} = {}
      OBVIOUS
    <3> QED
      BY <3>1, FS_EmptySet DEF Net
  <2>3. ((0 - d) * 7200) \div d = -7200
    <3>1. (0 - d) * 7200 = (-7200) * d
      BY <1>3
    <3>2. \A k \in Int, x \in Nat \ {0} : (k * x) \div x = k
      OBVIOUS
    <3> QED
      BY <3>1, <3>2, <1>3
  <2> QED
    <3>1. AnchorScore(m, F, 0) = ((Net({f \in F : f.step <= 0}) - d) * Scale) \div d
      BY Recordings DEF AnchorScore, d
    <3>2. AnchorScore(m, F, 0) = ((0 - d) * Scale) \div d
      BY <2>1, <2>2, <3>1
    <3> QED
      BY <2>3, <3>2 DEF Scale
<1> QED
  BY <1>5, <1>6

(* The score of an accepted labelling starts at -1.                        *)
LEMMA ScoreStarts ==
  ASSUME NEW m \in Members, NEW F, IsFiniteSet(F), \A f \in F : f.step \in 1..Count,
         Labelled(m, F), NEW p
  PROVE  StageScore(m, F, p)[0] = -Scale
<1>0. Denominator(m, F) > 0
  BY DEF Labelled
<1> DEFINE A == AnchorSteps(m, F)
           later == {s \in A : s > 0}
<1>1. A \subseteq 0..Count /\ 0 \in A
  BY Anchors
<1>2. Max({s \in A : s <= 0}) = 0
  <2>1. {s \in A : s <= 0} = {0}
    BY <1>1, Recordings
  <2> QED
    BY <2>1 DEF Max
<1>3. StageScore(m, F, p)[0] =
        IF later = {} THEN AnchorScore(m, F, 0)
        ELSE AnchorScore(m, F, 0)
               + ((AnchorScore(m, F, Min(later)) - AnchorScore(m, F, 0)) * Raise(0 - 0, p))
                   \div Raise(Min(later) - 0, p)
  BY <1>2, Recordings DEF StageScore
<1>4. CASE later = {}
  BY <1>0, <1>3, <1>4, AnchorScores
<1>5. CASE later # {}
  <2>1. PICK n \in later : \A k \in later : n <= k
    <3>1. later \in SUBSET Nat
      BY <1>1
    <3> HIDE DEF later
    <3> QED
      BY <3>1, <1>5, LeastOf
  <2>2. Min(later) \in 1..Count
    <3>1. Min(later) \in later
      BY <2>1 DEF Min
    <3> QED
      BY <3>1, <1>1, Recordings
  <2> DEFINE x == AnchorScore(m, F, Min(later)) - AnchorScore(m, F, 0)
             q == Raise(Min(later) - 0, p)
  <2>3. x \in Int
    <3>1. Min(later) \in 0..Count /\ 0 \in 0..Count
      BY <2>2, Recordings
    <3> QED
      BY <3>1, <1>0, AnchorScores
  <2>4. q \in Nat \ {0}
    <3> DEFINE l == Min(later)
    <3>1. l \in Nat \ {0}
      BY <2>2
    <3> HIDE DEF l
    <3>2. l - 0 = l
      BY <3>1
    <3>3. \A k \in Nat \ {0} : k * k \in Nat \ {0}
      OBVIOUS
    <3> QED
      BY <3>1, <3>2, <3>3 DEF Raise, l
  <2>5. Raise(0 - 0, p) = 0
    BY DEF Raise
  <2> HIDE DEF x, q
  <2>6. x * 0 = 0 /\ 0 \div q = 0
    BY <2>3, <2>4
  <2>7. StageScore(m, F, p)[0] = AnchorScore(m, F, 0) + (x * Raise(0 - 0, p)) \div q
    BY <1>3, <1>5 DEF x, q
  <2>8. AnchorScore(m, F, 0) = -Scale
    BY <1>0, AnchorScores
  <2> QED
    BY <2>5, <2>6, <2>7, <2>8 DEF Scale
<1> QED
  BY <1>4, <1>5

(* From the confirmed success on, it is 0.                                 *)
LEMMA ScoreEnds ==
  ASSUME NEW m \in Members, NEW F, \A f \in F : f.step \in 1..Count,
         Labelled(m, F), SuccessStep(m) # None, NEW t \in SuccessStep(m)..Count, NEW p
  PROVE  StageScore(m, F, p)[t] = 0
<1> DEFINE A == AnchorSteps(m, F)
           z == SuccessStep(m)
<1>1. z \in 1..Count
  BY Recordings
<1>2. A \subseteq 0..Count /\ z \in A
  BY Anchors DEF AnchorSteps
<1>3. \A s \in A : s <= z
  BY <1>1, Recordings DEF AnchorSteps, Labelled
<1> HIDE DEF A
<1>4. {s \in A : s <= t} = A /\ {s \in A : s > t} = {}
  <2>0. A \subseteq Int /\ z \in Int /\ t \in Int /\ z <= t
    BY <1>1, <1>2, Recordings
  <2> HIDE DEF z
  <2>1. \A s \in A : s <= t /\ ~(s > t)
    BY <1>3, <2>0
  <2> QED
    BY <2>1
<1>5. Max(A) = z
  <2> HIDE DEF z
  <2>0. A \subseteq Int /\ z \in Int
    BY <1>1, <1>2, Recordings
  <2>1. \A k \in A : (\A y \in A : k >= y) => k = z
    <3> SUFFICES ASSUME NEW k \in A, \A y \in A : k >= y PROVE k = z
      OBVIOUS
    <3>1. k \in Int /\ k >= z /\ k <= z
      BY <1>2, <1>3, <2>0
    <3> QED
      BY <2>0, <3>1
  <2>2. \A y \in A : z >= y
    BY <1>3, <2>0
  <2> QED
    BY <1>2, <2>1, <2>2 DEF Max
<1>6. t \in 0..Count
  BY <1>1, Recordings
<1>7. AnchorScore(m, F, z) = 0
  BY DEF AnchorScore
<1> QED
  BY <1>4, <1>5, <1>6, <1>7 DEF StageScore, A

(* A list that is not empty.                                               *)
LEMMA Entries ==
  ASSUME NEW S, NEW q \in Seq(S), q # <<>>
  PROVE  Len(q) \in Nat \ {0} /\ \A k \in 1..Len(q) : q[k] \in S
OBVIOUS

(* A recording has at most as many chunks as actions.                      *)
LEMMA ChunkBounds ==
  ASSUME NEW m \in Members, NEW i \in Chunks(m)
  PROVE  /\ Start(m, i) \in 0..Count /\ End(m, i) \in 0..Count /\ Start(m, i) < End(m, i)
         /\ i \in 1..Count
<1> DEFINE cuts == Episodes[m].cuts
           n == Len(cuts)
           T == {k \in 0..n-1 : cuts[k+1] >= k}
<1>1. /\ cuts \in Seq(0..Count) /\ cuts # <<>> /\ cuts[1] = 0 /\ cuts[n] = Count
      /\ \A k \in 1..n-1 : cuts[k] < cuts[k+1]
  BY Recordings DEF Cut
<1>2. n \in Nat \ {0} /\ \A k \in 1..n : cuts[k] \in 0..Count
  <2> HIDE DEF cuts
  <2> QED
    BY <1>1, Entries DEF n
<1> HIDE DEF cuts, n
<1>3. i \in 1..n-1 /\ Start(m, i) = cuts[i] /\ End(m, i) = cuts[i+1]
  BY DEF Chunks, Start, End, cuts, n
<1>4. Count \in Nat
  BY Recordings
<1>5. 0 \in T
  BY <1>1, <1>2
<1>6. ASSUME NEW k \in 0..(n-1)-1, k \in T PROVE k + 1 \in T
  <2>1. k + 1 \in 1..n-1 /\ k + 1 \in 1..n /\ (k + 1) + 1 \in 1..n /\ k + 1 \in 0..n-1
    BY <1>2
  <2>2. cuts[k+1] < cuts[(k+1)+1]
    BY <1>1, <2>1
  <2>3. cuts[k+1] \in Nat /\ cuts[(k+1)+1] \in Nat /\ k \in Nat
    BY <1>2, <1>4, <2>1
  <2> QED
    BY <1>6, <2>1, <2>2, <2>3
<1>7. \A k \in 0..n-1 : k \in T
  <2>1. n - 1 \in Nat
    BY <1>2
  <2> HIDE DEF T
  <2> QED
    BY <1>5, <1>6, <2>1, Climb
<1>8. cuts[i+1] >= i
  BY <1>2, <1>3, <1>7
<1>9. i \in 1..n /\ i + 1 \in 1..n
  BY <1>2, <1>3
<1> QED
  BY <1>1, <1>2, <1>3, <1>4, <1>8, <1>9

(* The shaping rewards of the chunks, each discounted to the start, add up *)
(* to what the potentials of the ends say.                                 *)
LEMMA Telescope ==
  ASSUME NEW m \in Members, NEW g \in 0..Base, NEW c \in BOOLEAN, NEW n \in Chunks(m)
  PROVE  Total(n, [i \in 1..n |-> Pow(g, IF c THEN Start(m, i) ELSE i - 1) * Shaping(m, i, g, c)])
         = One * (Pow(g, IF c THEN End(m, n) ELSE n) * Potential(m, End(m, n))
                    - One * Potential(m, 0))
<1> DEFINE x(k) == IF c THEN Episodes[m].cuts[k+1] ELSE k
           V(k) == Potential(m, Episodes[m].cuts[k+1])
           f == [i \in 1..n |-> Pow(g, IF c THEN Start(m, i) ELSE i - 1) * Shaping(m, i, g, c)]
           V0 == Potential(m, 0)
<1>1. g \in Nat /\ n \in Nat \ {0} /\ Count \in Nat
  BY Recordings, ChunkBounds
<1>2. ASSUME NEW k \in 1..n
      PROVE  /\ k \in Chunks(m) /\ Start(m, k) = Episodes[m].cuts[(k-1)+1]
             /\ End(m, k) = Episodes[m].cuts[k+1]
  <2>1. k \in Chunks(m)
    BY DEF Chunks
  <2>2. (k - 1) + 1 = k
    OBVIOUS
  <2> QED
    BY <2>1, <2>2 DEF Start, End
<1>3. Episodes[m].cuts[0+1] = 0
  BY Recordings DEF Cut
<1>4. x(0) = 0 /\ V(0) = V0
  BY <1>3
<1>5. \A t \in 0..Count : Potential(m, t) \in Int
  BY Recordings DEF Potential
<1>6. ASSUME NEW k \in 1..n
      PROVE  /\ x(k-1) \in 0..Count /\ x(k) \in 0..Count /\ V(k-1) \in Int /\ V(k) \in Int
             /\ Duration(m, k, c) \in 0..Count /\ x(k-1) + Duration(m, k, c) = x(k)
             /\ f[k] = Pow(g, x(k-1)) * (Pow(g, Duration(m, k, c)) * V(k) - One * V(k-1))
  <2>1. /\ Start(m, k) \in 0..Count /\ End(m, k) \in 0..Count /\ Start(m, k) < End(m, k)
        /\ k \in 1..Count
    BY <1>2, ChunkBounds
  <2>2. x(k-1) = (IF c THEN Start(m, k) ELSE k - 1) /\ x(k) = IF c THEN End(m, k) ELSE k
    BY <1>2
  <2>3. V(k-1) = Potential(m, Start(m, k)) /\ V(k) = Potential(m, End(m, k))
    BY <1>2
  <2>4. x(k-1) \in 0..Count /\ x(k) \in 0..Count
    <3> HIDE DEF x
    <3>1. CASE c
      BY <1>1, <2>1, <2>2, <3>1
    <3>2. CASE ~c
      BY <1>1, <2>1, <2>2, <3>2
    <3> QED
      BY <3>1, <3>2
  <2>5. Duration(m, k, c) \in 0..Count /\ x(k-1) + Duration(m, k, c) = x(k)
    <3> HIDE DEF x
    <3>1. CASE c
      BY <1>1, <2>1, <2>2, <3>1 DEF Duration, Length
    <3>2. CASE ~c
      BY <1>1, <2>1, <2>2, <3>2 DEF Duration
    <3> QED
      BY <3>1, <3>2
  <2>6. V(k-1) \in Int /\ V(k) \in Int
    BY <1>5, <2>1, <2>3
  <2>7. f[k] = Pow(g, x(k-1)) * Shaping(m, k, g, c)
    BY <2>2
  <2> HIDE DEF f, x, V
  <2> QED
    BY <2>3, <2>4, <2>5, <2>6, <2>7 DEF Shaping
<1> HIDE DEF f, x, V, V0
<1>7. One \in Nat /\ Pow(g, 0) = One /\ \A k \in 0..Count : Pow(g, k) \in Nat
  BY <1>1, DiscountsMultiply
<1>8. V0 \in Int
  BY <1>1, <1>5 DEF V0
<1>9. f \in [1..n -> Int]
  <2>1. \A k \in 1..n : f[k] \in Int
    <3> SUFFICES ASSUME NEW k \in 1..n PROVE f[k] \in Int
      OBVIOUS
    <3>1. Pow(g, x(k-1)) \in Nat /\ Pow(g, Duration(m, k, c)) \in Nat
      BY <1>6, <1>7
    <3>2. \A a, b, d \in Nat, v, w \in Int : a * (b * w - d * v) \in Int
      OBVIOUS
    <3>3. V(k-1) \in Int /\ V(k) \in Int
      BY <1>6
    <3>4. Pow(g, x(k-1)) * (Pow(g, Duration(m, k, c)) * V(k) - One * V(k-1)) \in Int
      BY <1>7, <3>1, <3>2, <3>3
    <3> QED
      BY <1>6, <3>4
  <2>2. f = [k \in 1..n |-> f[k]]
    BY DEF f
  <2> QED
    BY <2>1, <2>2
<1>10. PICK s \in [0..n -> Int] :
          s[0] = 0 /\ (\A k \in 1..n : s[k] = s[k-1] + f[k]) /\ Total(n, f) = s[n]
  BY <1>1, <1>9, SumSteps
<1> DEFINE S == {k \in 0..n : s[k] = One * (Pow(g, x(k)) * V(k) - One * V0)}
<1>11. 0 \in S
  <2>1. One * (One * V0 - One * V0) = 0
    BY <1>7, <1>8
  <2> QED
    BY <1>1, <1>4, <1>7, <1>10, <2>1
<1>12. ASSUME NEW k \in 0..n-1, k \in S PROVE k + 1 \in S
  <2> DEFINE j == k + 1
             a == Pow(g, x(k))
             b == Pow(g, x(j))
             d == Pow(g, Duration(m, j, c))
             v == V(k)
             w == V(j)
  <2>1. j \in 1..n /\ j - 1 = k /\ k \in 0..n
    BY <1>1
  <2>2. s[j] = s[k] + f[j] /\ f[j] = a * (d * w - One * v)
    BY <1>6, <1>10, <2>1
  <2>3. a * d = One * b
    <3>1. /\ x(k) \in 0..Count /\ Duration(m, j, c) \in 0..Count
          /\ x(k) + Duration(m, j, c) = x(j) /\ x(j) <= Count
      BY <1>1, <1>6, <2>1
    <3> QED
      BY <1>1, <3>1, DiscountsMultiply
  <2>4. a \in Nat /\ b \in Nat /\ d \in Nat /\ v \in Int /\ w \in Int
    BY <1>6, <1>7, <2>1
  <2>5. s[k] = One * (a * v - One * V0)
    BY <1>12
  <2> HIDE DEF a, b, d, v, w, j
  <2>6. a * (d * w - One * v) = One * (b * w) - One * (a * v)
    <3>1. \A y, z, o \in Nat, p, q \in Int : y * (z * p - o * q) = (y * z) * p - o * (y * q)
      OBVIOUS
    <3>2. \A o, y \in Nat, p \in Int : (o * y) * p = o * (y * p)
      OBVIOUS
    <3> QED
      BY <1>7, <2>3, <2>4, <3>1, <3>2
  <2>7. s[j] = One * (b * w - One * V0)
    <3>1. \A o \in Nat, p, q, r \in Int : o * (p - r) + (o * q - o * p) = o * (q - r)
      OBVIOUS
    <3>2. a * v \in Int /\ b * w \in Int /\ One * V0 \in Int
      BY <1>7, <1>8, <2>4
    <3> QED
      BY <1>7, <2>2, <2>5, <2>6, <3>1, <3>2
  <2> QED
    BY <2>1, <2>7 DEF j, b, w
<1>13. s[n] = One * (Pow(g, x(n)) * V(n) - One * V0)
  <2> HIDE DEF S
  <2>1. \A k \in 0..n : k \in S
    BY <1>1, <1>11, <1>12, Climb
  <2> QED
    BY <1>1, <2>1 DEF S
<1>14. x(n) = (IF c THEN End(m, n) ELSE n) /\ V(n) = Potential(m, End(m, n))
  BY <1>1, <1>2 DEF x, V
<1> QED
  BY <1>10, <1>13, <1>14 DEF f, V0

(* The labels of a member are finitely many, at its observations.          *)
FramesOK ==
  \A m \in Members : IsFiniteSet(frames[m]) /\ \A f \in frames[m] : f.step \in 1..Count

(* A result is what its own recipe makes of the scores it was saved with.  *)
Faithful(m, x) == ValidRecipe(x.recipe) /\ x = Result(m, x.recipe, x.scores)

ResultsOK ==
  /\ DOMAIN frames = Members /\ DOMAIN saved = Members
  /\ \A m \in Members : saved[m] # None => Faithful(m, saved[m])
  /\ binding # None =>
       DOMAIN binding = Members /\ \A m \in Members : Faithful(m, binding[m])

(* A training run has the results of its own discount and reduction.       *)
Other(r, g, c) == [r EXCEPT !.gamma = g, !.cumulative = c]
OwnRecipe(m) == Other(binding[m].recipe, training.gamma, training.cumulative)
TrainingOK ==
  training # None =>
    /\ binding # None /\ training.gamma \in Gammas
    /\ \A m \in Members :
         /\ training.rewards[m] = Result(m, OwnRecipe(m), binding[m].scores)
         /\ Effective(OwnRecipe(m)) = training.cumulative

RewardIInv == FramesOK /\ ResultsOK /\ TrainingOK /\ SuccessScoresZero

(* What a recipe is, and the recipe of another discount and reduction.     *)
LEMMA OtherRecipe ==
  ASSUME NEW r, ValidRecipe(r), NEW g, NEW c
  PROVE  /\ Other(r, g, c).gamma = g
         /\ Effective(Other(r, g, c)) = (c /\ r.mode = "additive")
         /\ NeedsDistance(Other(r, g, c)) = NeedsDistance(r)
<1> DEFINE o == Other(r, g, c)
<1>1. o.gamma = g /\ o.cumulative = c /\ o.mode = r.mode /\ o.kappa = r.kappa
  BY DEF ValidRecipe, Other
<1> HIDE DEF o
<1>2. Effective(o) = (c /\ r.mode = "additive") /\ NeedsDistance(o) = NeedsDistance(r)
  BY <1>1 DEF Effective, NeedsDistance
<1> QED
  BY <1>1, <1>2 DEF o

LEMMA RewardInit == ASSUME Init PROVE RewardIInv
<1>1. FramesOK
  BY FS_EmptySet DEF Init, FramesOK
<1> QED
  BY <1>1 DEF Init, RewardIInv, ResultsOK, TrainingOK, SuccessScoresZero

LEMMA AnnotateKeeps ==
  ASSUME RewardIInv, NEW m \in Members, NEW F \in Labels[m], Annotate(m, F)
  PROVE  RewardIInv'
<1>1. IsFiniteSet(F)
  BY RecipesAssumption
<1>2. FramesOK'
  BY <1>1 DEF Annotate, RewardIInv, ResultsOK, FramesOK
<1>3. ResultsOK'
  BY DEF Annotate, RewardIInv, ResultsOK
<1>4. TrainingOK' /\ SuccessScoresZero'
  BY DEF Annotate, RewardIInv, TrainingOK, SuccessScoresZero, OwnRecipe
<1> QED
  BY <1>2, <1>3, <1>4 DEF RewardIInv

LEMMA EvaluateKeeps ==
  ASSUME RewardIInv, NEW m \in Members, NEW r \in Recipes, Evaluate(m, r)
  PROVE  RewardIInv'
<1> DEFINE scores == IF NeedsStage(r) THEN StageScore(m, frames[m], r.power) ELSE NoScores
           new == Result(m, r, scores)
<1>1. /\ Acceptable(m, r, scores) /\ saved' = [saved EXCEPT ![m] = new]
      /\ NeedsStage(r) => Labelled(m, frames[m])
      /\ UNCHANGED <<frames, binding, training>>
  BY DEF Evaluate
<1>2. ValidRecipe(r)
  BY RecipesAssumption
<1>3. new.recipe = r /\ new.scores = scores
  BY DEF Result
<1>4. NeedsStage(r) =>
        /\ scores[0] = -Scale /\ \A t \in 0..Count : scores[t] <= 0
        /\ SuccessStep(m) # None => \A t \in SuccessStep(m)..Count : scores[t] = 0
  <2> SUFFICES ASSUME NeedsStage(r)
               PROVE  /\ scores[0] = -Scale /\ \A t \in 0..Count : scores[t] <= 0
                      /\ SuccessStep(m) # None => \A t \in SuccessStep(m)..Count : scores[t] = 0
    OBVIOUS
  <2>1. IsFiniteSet(frames[m]) /\ \A f \in frames[m] : f.step \in 1..Count
    BY DEF RewardIInv, FramesOK
  <2>2. scores = StageScore(m, frames[m], r.power) /\ Labelled(m, frames[m])
    BY <1>1
  <2>3. \A t \in 0..Count : scores[t] <= 0
    BY <1>1 DEF Acceptable
  <2> HIDE DEF scores
  <2>4. scores[0] = -Scale
    BY <2>1, <2>2, ScoreStarts
  <2>5. SuccessStep(m) # None => \A t \in SuccessStep(m)..Count : scores[t] = 0
    BY <2>1, <2>2, ScoreEnds
  <2> QED
    BY <2>3, <2>4, <2>5
<1> HIDE DEF scores
<1>5. DOMAIN saved = Members
  BY DEF RewardIInv, ResultsOK
<1>6. Faithful(m, new)
  BY <1>2, <1>3 DEF Faithful
<1> HIDE DEF new
<1>7. saved'[m] = new /\ \A k \in Members : k # m => saved'[k] = saved[k]
  BY <1>1, <1>5
<1>8. FramesOK'
  BY <1>1 DEF RewardIInv, FramesOK
<1>9. ResultsOK'
  <2>1. DOMAIN saved' = Members /\ \A k \in Members : saved'[k] # None => Faithful(k, saved'[k])
    BY <1>1, <1>5, <1>6, <1>7 DEF RewardIInv, ResultsOK
  <2> QED
    BY <1>1, <2>1 DEF RewardIInv, ResultsOK
<1>10. TrainingOK'
  BY <1>1 DEF RewardIInv, TrainingOK, OwnRecipe
<1>11. SuccessScoresZero'
  <2> SUFFICES ASSUME NEW k \in Members, saved'[k] # None, NeedsStage(saved'[k].recipe)
               PROVE  /\ saved'[k].scores[0] = -Scale
                      /\ \A t \in 0..Count : saved'[k].scores[t] <= 0
                      /\ SuccessStep(k) # None =>
                           \A t \in SuccessStep(k)..Count : saved'[k].scores[t] = 0
    BY DEF SuccessScoresZero
  <2>1. CASE k = m
    BY <1>3, <1>4, <1>7, <2>1
  <2>2. CASE k # m
    BY <1>7, <2>2 DEF RewardIInv, SuccessScoresZero
  <2> QED
    BY <2>1, <2>2
<1> QED
  BY <1>8, <1>9, <1>10, <1>11 DEF RewardIInv

LEMMA BindKeeps == ASSUME RewardIInv, Bind PROVE RewardIInv'
<1>1. binding' = saved /\ UNCHANGED <<frames, saved, training>> /\ binding = None
  BY DEF Bind
<1>2. \A m \in Members : saved[m] # None
  BY DEF Bind, Missing
<1>3. training = None
  BY <1>1 DEF RewardIInv, TrainingOK
<1>4. ResultsOK'
  BY <1>1, <1>2 DEF RewardIInv, ResultsOK
<1>5. FramesOK' /\ TrainingOK' /\ SuccessScoresZero'
  BY <1>1, <1>3 DEF RewardIInv, FramesOK, TrainingOK, SuccessScoresZero
<1> QED
  BY <1>4, <1>5 DEF RewardIInv

LEMMA TrainKeeps ==
  ASSUME RewardIInv, NEW g \in Gammas, NEW c \in BOOLEAN, NEW backend \in BOOLEAN,
         Train(g, c, backend)
  PROVE  RewardIInv'
<1> DEFINE request == Requested(g, c, backend)
<1>1. /\ binding # None /\ ~Mixed(request) /\ UNCHANGED <<frames, saved, binding>>
      /\ training' = [gamma |-> g, cumulative |-> request.cumulative,
                      rewards |-> [m \in Members |-> TrainingReward(m, request)]]
  BY DEF Train
<1>2. DOMAIN binding = Members /\ \A m \in Members : Faithful(m, binding[m])
  BY <1>1 DEF RewardIInv, ResultsOK
<1>3. /\ training'.gamma = g /\ training'.cumulative = request.cumulative
      /\ \A m \in Members : training'.rewards[m] = TrainingReward(m, request)
  BY <1>1
<1>4. ASSUME NEW m \in Members
      PROVE  /\ training'.rewards[m] = Result(m, OwnRecipe(m)', binding'[m].scores)
             /\ Effective(OwnRecipe(m)') = training'.cumulative
  <2>1. 1 \in Members
    BY RecipesAssumption
  <2>2. ValidRecipe(binding[1].recipe) /\ ValidRecipe(binding[m].recipe)
    BY <1>2, <2>1 DEF Faithful
  <2> DEFINE asked == Other(binding[1].recipe, g, Selected(c, backend))
  <2>3. request.gamma = g /\ request.cumulative = Effective(asked)
    <3>1. asked.gamma = g
      BY <2>2, OtherRecipe
    <3>2. request = [asked EXCEPT !.cumulative = Effective(asked)]
      BY DEF Requested, Other
    <3>3. DOMAIN asked = {"mode", "gamma", "cumulative", "alpha", "kappa", "power", "rescaled"}
      BY <2>2 DEF ValidRecipe, Other
    <3> HIDE DEF asked, request
    <3> QED
      BY <3>1, <3>2, <3>3
  <2>4. request.cumulative \in BOOLEAN
    BY <2>3 DEF Effective
  <2> HIDE DEF asked, request
  <2>5. OwnRecipe(m)' = Adapted(m, request)
    BY <1>1, <1>3, <2>3 DEF OwnRecipe, Other, Adapted
  <2>6. training'.rewards[m] = Result(m, Adapted(m, request), binding[m].scores)
    <3>1. CASE Unchanged(m, request)
      BY <1>2, <1>3, <3>1 DEF TrainingReward, Unchanged, Faithful
    <3>2. CASE ~Unchanged(m, request)
      BY <1>3, <3>2 DEF TrainingReward, Recomputed
    <3> QED
      BY <3>1, <3>2
  <2>7. Effective(Adapted(m, request)) = (request.cumulative /\ binding[m].recipe.mode = "additive")
    <3>1. Adapted(m, request) = Other(binding[m].recipe, request.gamma, request.cumulative)
      BY DEF Adapted, Other
    <3> QED
      BY <2>2, <3>1, OtherRecipe
  <2>8. request.cumulative => binding[m].recipe.mode = "additive"
    <3>1. request.cumulative => binding[m].recipe.mode # "multiplicative"
      BY <1>1, <1>2 DEF Mixed, MacroOnly
    <3>2. binding[m].recipe.mode \in {"additive", "multiplicative"}
      BY <2>2 DEF ValidRecipe
    <3> QED
      BY <3>1, <3>2
  <2>9. Effective(Adapted(m, request)) = request.cumulative
    BY <2>4, <2>7, <2>8
  <2> QED
    BY <1>1, <1>3, <2>5, <2>6, <2>9
<1> HIDE DEF request
<1>5. TrainingOK'
  BY <1>1, <1>3, <1>4 DEF TrainingOK
<1>6. FramesOK' /\ ResultsOK' /\ SuccessScoresZero'
  BY <1>1 DEF RewardIInv, FramesOK, ResultsOK, SuccessScoresZero
<1> QED
  BY <1>5, <1>6 DEF RewardIInv

LEMMA RewardStep == ASSUME RewardIInv, [Next]_vars PROVE RewardIInv'
<1>1. CASE Next
  BY <1>1, AnnotateKeeps, EvaluateKeeps, BindKeeps, TrainKeeps DEF Next
<1>2. CASE UNCHANGED vars
  BY <1>2 DEF vars, RewardIInv, FramesOK, ResultsOK, TrainingOK, OwnRecipe, SuccessScoresZero
<1> QED
  BY <1>1, <1>2

LEMMA RewardImplies ==
  ASSUME RewardIInv
  PROVE  TypeOK /\ AdaptationExact /\ OneReduction /\ ShapingTelescopes /\ SuccessScoresZero
<1>1. TypeOK
  BY DEF RewardIInv, FramesOK, TrainingOK, TypeOK
<1>2. ASSUME training # None, NEW m \in Members
      PROVE  /\ training.rewards[m] = Result(m, OwnRecipe(m), binding[m].scores)
             /\ Effective(OwnRecipe(m)) = training.cumulative
             /\ OwnRecipe(m).gamma = training.gamma /\ training.gamma \in Gammas
             /\ NeedsDistance(OwnRecipe(m)) = NeedsDistance(binding[m].recipe)
  <2>1. ValidRecipe(binding[m].recipe)
    BY <1>2 DEF RewardIInv, ResultsOK, TrainingOK, Faithful
  <2>2. OwnRecipe(m).gamma = training.gamma
           /\ NeedsDistance(OwnRecipe(m)) = NeedsDistance(binding[m].recipe)
    BY <2>1, OtherRecipe DEF OwnRecipe
  <2> QED
    BY <1>2, <2>2 DEF RewardIInv, TrainingOK
<1>3. AdaptationExact
  <2> SUFFICES ASSUME training # None, NEW m \in Members
               PROVE  /\ training.rewards[m].raw = Raw(m, OwnRecipe(m), binding[m].scores)
                      /\ training.rewards[m].reference = Reference(m, OwnRecipe(m), binding[m].scores)
    BY DEF AdaptationExact, OwnRecipe, Other
  <2>1. training.rewards[m] = Result(m, OwnRecipe(m), binding[m].scores)
    BY <1>2
  <2> QED
    BY <2>1 DEF Result
<1>4. OneReduction
  <2> SUFFICES ASSUME training # None, NEW m \in Members
               PROVE  /\ Effective(training.rewards[m].recipe) = training.cumulative
                      /\ training.rewards[m].recipe.gamma = training.gamma
    BY DEF OneReduction
  <2>1. training.rewards[m] = Result(m, OwnRecipe(m), binding[m].scores)
    BY <1>2
  <2>2. training.rewards[m].recipe = OwnRecipe(m)
    BY <2>1 DEF Result
  <2> QED
    BY <1>2, <2>2
<1>5. ShapingTelescopes
  <2> SUFFICES ASSUME training # None, NEW m \in Members, NeedsDistance(binding[m].recipe),
                      NEW n \in Chunks(m)
               PROVE  LET exponent == IF training.cumulative THEN End(m, n) ELSE n
                      IN Total(n, [i \in 1..n |-> Pow(training.gamma, Discounts(m, i))
                                                    * training.rewards[m].shaping[i]])
                         = One * (Pow(training.gamma, exponent) * Potential(m, End(m, n))
                                    - One * Potential(m, 0))
    BY DEF ShapingTelescopes
  <2> DEFINE g == training.gamma
             c == training.cumulative
  <2>1. g \in 0..Base /\ c \in BOOLEAN
    BY <1>2, RecipesAssumption DEF Effective
  <2>2. \A i \in 1..n : i \in Chunks(m)
    BY DEF Chunks
  <2>3. \A i \in Chunks(m) : training.rewards[m].shaping[i] = Shaping(m, i, g, c)
    <3>1. /\ training.rewards[m] = Result(m, OwnRecipe(m), binding[m].scores)
          /\ OwnRecipe(m).gamma = g /\ Effective(OwnRecipe(m)) = c /\ NeedsDistance(OwnRecipe(m))
      BY <1>2
    <3>2. training.rewards[m].shaping
            = [i \in Chunks(m) |-> IF NeedsDistance(OwnRecipe(m))
                                    THEN Shaping(m, i, OwnRecipe(m).gamma, Effective(OwnRecipe(m)))
                                    ELSE 0]
      BY <3>1 DEF Result
    <3> HIDE DEF g, c
    <3> QED
      BY <3>1, <3>2
  <2>4. [i \in 1..n |-> Pow(g, Discounts(m, i)) * training.rewards[m].shaping[i]]
        = [i \in 1..n |-> Pow(g, IF c THEN Start(m, i) ELSE i - 1) * Shaping(m, i, g, c)]
    BY <2>2, <2>3 DEF Discounts
  <2> HIDE DEF g, c
  <2>5. Total(n, [i \in 1..n |-> Pow(g, Discounts(m, i)) * training.rewards[m].shaping[i]])
        = One * (Pow(g, IF c THEN End(m, n) ELSE n) * Potential(m, End(m, n))
                   - One * Potential(m, 0))
    BY <2>1, <2>4, Telescope
  <2> QED
    BY <2>5 DEF g, c
<1> QED
  BY <1>1, <1>3, <1>4, <1>5 DEF RewardIInv

(* A training has, of every member, the rewards that an evaluation with    *)
(* the run's own discount and reduction would give, reduced the way the    *)
(* Bellman target discounts; shaping telescopes to the potentials of the   *)
(* ends; and a stage score starts at -1 and is 0 from the success on.      *)
THEOREM RewardsKeepTheirGoal == PartsSpec => []RewardsKeepTheGoal
<1>1. PartsInit => (part = "rewards" => RewardIInv)
  BY RewardInit DEF PartsInit
<1>2. (part = "rewards" => RewardIInv) /\ [PartsNext]_parts => (part = "rewards" => RewardIInv)'
  <2> SUFFICES ASSUME part = "rewards" => RewardIInv, [PartsNext]_parts, part' = "rewards"
               PROVE  RewardIInv'
    OBVIOUS
  <2>1. part = "rewards"
    BY DEF PartsNext, parts
  <2>2. [Next]_vars
    BY <2>1 DEF PartsNext, parts, vars
  <2> QED
    BY <2>1, <2>2, RewardStep
<1>3. (part = "rewards" => RewardIInv) => RewardsKeepTheGoal
  BY RewardImplies DEF RewardsKeepTheGoal
<1> QED
  BY <1>1, <1>2, <1>3, PTL DEF PartsSpec
-----------------------------------------------------------------------------
(***************************************************************************)
(* The replay of recordings.                                               *)
(*                                                                         *)
(* A recording is a row of segments, one for each run that executed some   *)
(* of it (RunOK).  A segment starts where its run resumed, at the pace of  *)
(* that run, under one kind of control; what was recorded up to its end is *)
(* what that run recorded itself, so whoever copied it confirms the        *)
(* success at the same step or not at all within it.  Hence where a        *)
(* segment is cut (OnGrid) depends on its run and on the success only,     *)
(* whether or not the recording says when the policy was asked: that is    *)
(* what CutsOfPieces shows of the cuts the code makes piece by piece, and  *)
(* PreparedOK states of the chunks it keeps.  Two chunks of one key are    *)
(* then the same actions (SameKey), and of the recordings that hold them   *)
(* exactly one comes first.                                                *)
(***************************************************************************)

SegmentSet == [start : Nat, end : Nat, origin : Nat, steps : Nat \ {0}]

In(s, i) == s.start <= i /\ i < s.end

\* What a segment says of the run that executed it.
SegmentOK(f, run0, s) ==
  /\ s \in SegmentSet /\ s.start < s.end /\ s.end <= run0.count
  /\ s.origin \in DOMAIN f
  /\ s.start = f[s.origin].resume /\ s.end <= f[s.origin].count /\ s.steps = f[s.origin].steps
  /\ \A i \in s.start .. s.end - 1 :
        run0.made[i] = s.origin /\ run0.sources[i] = f[s.origin].sources[s.start]
  /\ \A i \in 0 .. s.end - 1 : run0.done[i] = f[s.origin].done[i]
  /\ s.end = run0.count \/ \E t \in run0.segments : t.start = s.end
  /\ \A q \in s.start .. s.end - 1 :
        q \in run0.queries <=> /\ queried /\ f[s.origin].sources[s.start] # "human"
                               /\ (q - s.start) % s.steps = 0

RunOK(f, r) ==
  /\ r \in Branches \cup {Original}
  /\ f[r].kind = IF r = Original THEN "original" ELSE "branch"
  /\ f[r].resume \in Nat /\ f[r].count \in 1 .. MaxSteps /\ f[r].resume < f[r].count
  /\ f[r].steps \in Nat \ {0}
  /\ f[r].queries \subseteq Nat
  /\ r = Original => f[r].resume = 0 /\ f[r].handoffs = {}
  /\ \A h \in f[r].handoffs : \E t \in f[r].segments : t.start = h
  /\ \A s \in f[r].segments : SegmentOK(f, f[r], s)
  /\ \A s, t \in f[r].segments : s.origin = t.origin => s = t
  /\ \A i \in 0 .. f[r].count - 1 : \E s \in f[r].segments : In(s, i)
  /\ \E s \in f[r].segments : s.origin = r /\ s.end = f[r].count

\* Where a segment is cut: on its grid, which starts again at the success of
\* a human, and at the success.
OnGrid(run0, s, x) ==
  LET success == Replay!SuccessEnd(run0)
      again == run0.sources[s.start] = "human" /\ s.start < success /\ success <= x
  IN  x = success \/ (x - (IF again THEN success ELSE s.start)) % s.steps = 0

Cuts(run0) ==
  {x \in 0 .. run0.count :
     x = run0.count \/ \E s \in run0.segments : In(s, x) /\ OnGrid(run0, s, x)}

PreparedOK(run0, chunks) ==
  /\ \A c \in chunks :
       /\ c.start \in Cuts(run0) /\ c.end \in Cuts(run0) /\ c.start < c.end
       /\ \A x \in Cuts(run0) : ~(c.start < x /\ x < c.end)
       /\ c.source = run0.sources[c.start] /\ c.origin = run0.made[c.start]
       /\ c.copied = (run0.kind = "branch" /\ c.end <= run0.resume)
  /\ \A x \in Cuts(run0) : x < run0.count => \E c \in chunks : c.start = x
  /\ \A c, d \in chunks : c.start = d.start => c = d

ReplayIInv ==
  \A r \in DOMAIN runs : RunOK(runs, r) /\ PreparedOK(runs[r], prepared[r])
-----------------------------------------------------------------------------
(* Numbers.                                                                *)

\* The grid of pace n passes within n of every step.
LEMMA GridBelow ==
  ASSUME NEW n \in Nat \ {0}, NEW a \in Nat, NEW x \in Nat, a <= x
  PROVE  \E y \in a..x : x - y < n /\ (y - a) % n = 0
<1> DEFINE q == (x - a) \div n
           r == (x - a) % n
<1>1. r \in 0..n-1 /\ x - a = q * n + r /\ q \in Nat
  OBVIOUS
<1>2. q * n \in Nat /\ (q * n + 0) % n = 0
  BY <1>1
<1> HIDE DEF q, r
<1>3. a + q * n \in a..x /\ x - (a + q * n) < n /\ (a + q * n) - a = q * n + 0
  BY <1>1, <1>2
<1> QED
  BY <1>2, <1>3

LEMMA MinOf ==
  ASSUME NEW T \in SUBSET Nat, T # {}
  PROVE  Replay!Min(T) \in T /\ \A y \in T : Replay!Min(T) <= y
<1>1. \E x \in T : \A y \in T : x <= y
  BY LeastOf
<1> QED
  BY <1>1 DEF Replay!Min

LEMMA MaxOf ==
  ASSUME NEW n \in Nat, NEW T \in SUBSET (0..n), T # {}
  PROVE  Replay!Max(T) \in T /\ \A y \in T : y <= Replay!Max(T)
<1>1. \E x \in T : \A y \in T : x >= y
  BY GreatestOf
<1> QED
  BY <1>1 DEF Replay!Max

LEMMA PairMax ==
  ASSUME NEW a \in Nat, NEW b \in Nat
  PROVE  Replay!Max({a, b}) = IF a <= b THEN b ELSE a
BY DEF Replay!Max

LEMMA ReplayConstants ==
  /\ Branches \subseteq Nat /\ Original \in Nat \ Branches
  /\ MaxSteps \in Nat /\ Lengths \subseteq 1 .. MaxSteps
  /\ Resumes \subseteq 0 .. MaxSteps
  /\ Steps \subseteq Nat \ {0} /\ Streak \in Nat \ {0} /\ Window \in Nat \ {0}
BY LearningAssumption DEF Replay!ReplayAssumption

\* The intervals of a set of steps: one from each of its steps to the next.
LEMMA IntervalsOf ==
  ASSUME NEW n \in Nat, NEW P \in SUBSET (0..n), P # {}
  PROVE  /\ \A i \in Replay!Intervals(P) :
              /\ i = [start |-> i.start, end |-> i.end]
              /\ i.start \in P /\ i.end \in P /\ i.start < i.end
              /\ \A x \in P : ~(i.start < x /\ x < i.end)
         /\ \A p, q \in P : p < q => \E i \in Replay!Intervals(P) : i.start = p
         /\ \A i, j \in Replay!Intervals(P) : i.start = j.start => i = j
<1> DEFINE later(p) == {q \in P : q > p}
<1>0. /\ Replay!Max(P) \in P /\ (\A y \in P : y <= Replay!Max(P))
      /\ \A y \in P : y \in Nat
  BY MaxOf
<1>1. ASSUME NEW p \in P \ {Replay!Max(P)}
      PROVE  /\ Replay!Min(later(p)) \in P /\ p < Replay!Min(later(p))
             /\ \A x \in P : p < x => Replay!Min(later(p)) <= x
  <2>0. p \in P /\ p # Replay!Max(P) /\ p <= Replay!Max(P) /\ p \in Nat /\ Replay!Max(P) \in Nat
    BY <1>0
  <2>1. Replay!Max(P) \in later(p)
    BY <1>0, <2>0
  <2>2. later(p) \in SUBSET Nat /\ later(p) # {}
    BY <1>0, <2>1
  <2>3. Replay!Min(later(p)) \in later(p) /\ \A y \in later(p) : Replay!Min(later(p)) <= y
    <3> HIDE DEF later
    <3> QED
      BY <2>2, MinOf
  <2> QED
    BY <2>3
<1>2. Replay!Intervals(P)
        = {[start |-> p, end |-> Replay!Min(later(p))] : p \in P \ {Replay!Max(P)}}
  BY DEF Replay!Intervals
<1>3. \A p, q \in P : p < q => p \in P \ {Replay!Max(P)}
  BY <1>0
<1> HIDE DEF later
<1>4. ASSUME NEW i \in Replay!Intervals(P)
      PROVE  \E p \in P \ {Replay!Max(P)} : i = [start |-> p, end |-> Replay!Min(later(p))]
  BY <1>2
<1>5. ASSUME NEW i \in Replay!Intervals(P)
      PROVE  /\ i = [start |-> i.start, end |-> i.end]
             /\ i.start \in P /\ i.end \in P /\ i.start < i.end
             /\ \A x \in P : ~(i.start < x /\ x < i.end)
  <2>1. PICK p \in P \ {Replay!Max(P)} : i = [start |-> p, end |-> Replay!Min(later(p))]
    BY <1>4
  <2>2. /\ Replay!Min(later(p)) \in P /\ p < Replay!Min(later(p))
        /\ \A x \in P : p < x => Replay!Min(later(p)) <= x
    BY <1>1
  <2>3. i.start = p /\ i.end = Replay!Min(later(p))
    BY <2>1
  <2>4. p \in Nat /\ Replay!Min(later(p)) \in Nat
    BY <2>2, <1>0
  <2>5. \A x \in P : ~(p < x /\ x < Replay!Min(later(p)))
    BY <2>2, <2>4, <1>0
  <2> QED
    BY <2>1, <2>2, <2>3, <2>5
<1>6. ASSUME NEW p \in P, NEW q \in P, p < q
      PROVE  \E i \in Replay!Intervals(P) : i.start = p
  <2>1. [start |-> p, end |-> Replay!Min(later(p))] \in Replay!Intervals(P)
    BY <1>2, <1>3, <1>6
  <2> QED
    BY <2>1
<1>7. ASSUME NEW i \in Replay!Intervals(P), NEW j \in Replay!Intervals(P), i.start = j.start
      PROVE  i = j
  <2>1. PICK p \in P \ {Replay!Max(P)} : i = [start |-> p, end |-> Replay!Min(later(p))]
    BY <1>4
  <2>2. PICK q \in P \ {Replay!Max(P)} : j = [start |-> q, end |-> Replay!Min(later(q))]
    BY <1>4
  <2> QED
    BY <2>1, <2>2, <1>7
<1> QED
  BY <1>5, <1>6, <1>7

\* Every step between the first and the last lies in one of the intervals.
LEMMA IntervalAround ==
  ASSUME NEW n \in Nat, NEW P \in SUBSET (0..n), NEW p \in P, NEW q \in P,
         NEW x \in 0..n, p <= x, x < q
  PROVE  \E i \in Replay!Intervals(P) : In(i, x)
<1> DEFINE before == {y \in P : y <= x}
<1>1. before \in SUBSET (0..n) /\ before # {}
  OBVIOUS
<1>2. PICK y \in before : \A z \in before : y >= z
  <2> HIDE DEF before
  <2> QED
    BY <1>1, GreatestOf
<1>3. y \in P /\ y < q /\ P # {}
  BY <1>2
<1>4. PICK i \in Replay!Intervals(P) : i.start = y
  BY <1>3, IntervalsOf
<1>5. i.end \in P /\ i.start < i.end
  BY <1>3, IntervalsOf
<1>6. ~(i.end <= x)
  <2>1. i.end <= x => i.end \in before
    BY <1>5
  <2>2. i.end \in 0..n /\ y \in 0..n
    BY <1>3, <1>5
  <2> QED
    BY <2>1, <2>2, <1>2, <1>4, <1>5
<1>7. i.end \in 0..n /\ i.start <= x
  BY <1>2, <1>4, <1>5
<1> QED
  BY <1>6, <1>7 DEF In
-----------------------------------------------------------------------------
(* The confirmed success.                                                  *)

Confirming(run0) ==
  {i \in Streak - 1 .. run0.count - 1 : \A j \in i - Streak + 1 .. i : run0.done[j]}

LEMMA SuccessOf ==
  ASSUME NEW a, a.count \in Nat \ {0}
  PROVE  /\ Replay!SuccessEnd(a) \in 1 .. a.count
         /\ Confirming(a) = {} => Replay!SuccessEnd(a) = a.count
         /\ Confirming(a) # {} =>
              /\ Replay!Min(Confirming(a)) \in Confirming(a)
              /\ \A y \in Confirming(a) : Replay!Min(Confirming(a)) <= y
              /\ Replay!SuccessEnd(a) = Replay!Min(Confirming(a)) + 1
<1>1. Confirming(a) \in SUBSET Nat /\ \A y \in Confirming(a) : y \in 0 .. a.count - 1
  BY ReplayConstants DEF Confirming
<1>2. Replay!SuccessEnd(a)
        = IF (IF Confirming(a) = {} THEN Replay!NoStep ELSE Replay!Min(Confirming(a))) = Replay!NoStep
          THEN a.count
          ELSE (IF Confirming(a) = {} THEN Replay!NoStep ELSE Replay!Min(Confirming(a))) + 1
  BY DEF Replay!SuccessEnd, Replay!TerminalStep, Confirming
<1>3. CASE Confirming(a) = {}
  BY <1>2, <1>3
<1>4. CASE Confirming(a) # {}
  <2>1. /\ Replay!Min(Confirming(a)) \in Confirming(a)
        /\ \A y \in Confirming(a) : Replay!Min(Confirming(a)) <= y
    BY <1>1, <1>4, MinOf
  <2>2. Replay!Min(Confirming(a)) \in 0 .. a.count - 1
    BY <1>1, <2>1
  <2>3. Replay!SuccessEnd(a) = Replay!Min(Confirming(a)) + 1
    BY <1>2, <1>4, <2>2 DEF Replay!NoStep
  <2> QED
    BY <1>4, <2>1, <2>2, <2>3
<1> QED
  BY <1>3, <1>4

\* Two recordings that agree on the first m actions agree on a success
\* confirmed before them.
LEMMA SameSuccess ==
  ASSUME NEW a, NEW b, a.count \in Nat \ {0}, b.count \in Nat \ {0},
         NEW m \in Nat, m <= a.count, m <= b.count,
         \A j \in 0 .. m - 1 : a.done[j] = b.done[j],
         Replay!SuccessEnd(a) < m
  PROVE  Replay!SuccessEnd(b) = Replay!SuccessEnd(a)
<1> DEFINE t == Replay!Min(Confirming(a))
           u == Replay!Min(Confirming(b))
<1>1. Confirming(a) # {}
  BY SuccessOf
<1>2. /\ t \in Confirming(a) /\ \A y \in Confirming(a) : t <= y
      /\ Replay!SuccessEnd(a) = t + 1
  BY <1>1, SuccessOf
<1>3. t \in Nat /\ t + 1 < m /\ Streak \in Nat \ {0}
  BY <1>2, ReplayConstants DEF Confirming
<1> HIDE DEF t
<1>4. ASSUME NEW i \in Nat, i <= t
      PROVE  i \in Confirming(a) <=> i \in Confirming(b)
  <2>1. \A j \in i - Streak + 1 .. i : i >= Streak - 1 => a.done[j] = b.done[j]
    BY <1>3, <1>4
  <2>2. i \in Streak - 1 .. a.count - 1 <=> i \in Streak - 1 .. b.count - 1
    BY <1>3, <1>4
  <2> QED
    BY <2>1, <2>2 DEF Confirming
<1>5. t \in Confirming(b)
  BY <1>2, <1>3, <1>4
<1>6. /\ u \in Confirming(b) /\ \A y \in Confirming(b) : u <= y
      /\ Replay!SuccessEnd(b) = u + 1
  BY <1>5, SuccessOf
<1>7. u \in Nat
  BY <1>6, ReplayConstants DEF Confirming
<1> HIDE DEF u
<1>8. u = t
  BY <1>2, <1>3, <1>4, <1>5, <1>6, <1>7
<1> QED
  BY <1>2, <1>6, <1>8
-----------------------------------------------------------------------------
(* The pieces a recording is cut into.                                     *)

LEMMA RunBasics ==
  ASSUME NEW f, NEW r, RunOK(f, r)
  PROVE  /\ f[r].count \in Nat \ {0} /\ f[r].resume \in Nat /\ f[r].resume < f[r].count
         /\ Replay!SuccessEnd(f[r]) \in 1 .. f[r].count
         /\ \A s \in f[r].segments :
              /\ s.start \in Nat /\ s.end \in Nat /\ s.steps \in Nat \ {0}
              /\ s.start < s.end /\ s.end <= f[r].count
              /\ \A i \in s.start .. s.end - 1 :
                    f[r].made[i] = s.origin /\ f[r].sources[i] = f[r].sources[s.start]
         /\ \A s, t \in f[r].segments, i \in Nat : In(s, i) /\ In(t, i) => s = t
<1>1. f[r].count \in Nat \ {0} /\ f[r].resume \in Nat /\ f[r].resume < f[r].count
  BY ReplayConstants DEF RunOK
<1>2. Replay!SuccessEnd(f[r]) \in 1 .. f[r].count
  BY <1>1, SuccessOf
<1>3. ASSUME NEW s \in f[r].segments
      PROVE  /\ s.start \in Nat /\ s.end \in Nat /\ s.steps \in Nat \ {0}
             /\ s.start < s.end /\ s.end <= f[r].count
             /\ \A i \in s.start .. s.end - 1 :
                   f[r].made[i] = s.origin /\ f[r].sources[i] = f[r].sources[s.start]
  <2>1. SegmentOK(f, f[r], s)
    BY DEF RunOK
  <2>2. s.start \in Nat /\ s.end \in Nat /\ s.steps \in Nat \ {0}
    BY <2>1 DEF SegmentOK, SegmentSet
  <2>3. s.start < s.end /\ s.end <= f[r].count
    BY <2>1 DEF SegmentOK
  <2>4. \A i \in s.start .. s.end - 1 :
          f[r].made[i] = s.origin /\ f[r].sources[i] = f[s.origin].sources[s.start]
    BY <2>1 DEF SegmentOK
  <2>5. s.start \in s.start .. s.end - 1
    BY <2>2, <2>3
  <2> QED
    BY <2>2, <2>3, <2>4, <2>5
<1>4. ASSUME NEW s \in f[r].segments, NEW t \in f[r].segments, NEW i \in Nat, In(s, i), In(t, i)
      PROVE  s = t
  <2>1. i \in s.start .. s.end - 1 /\ i \in t.start .. t.end - 1
    BY <1>3, <1>4 DEF In
  <2>2. s.origin = t.origin
    BY <2>1, <1>3
  <2> QED
    BY <2>2 DEF RunOK
<1> QED
  BY <1>1, <1>2, <1>3, <1>4

\* A stretch of one source holds every segment it touches.
LEMMA SourcesOf ==
  ASSUME NEW f, NEW r, RunOK(f, r)
  PROVE  /\ \A g \in Replay!SourceSegments(f[r]) :
              /\ g.start \in Nat /\ g.end \in Nat /\ g.start < g.end /\ g.end <= f[r].count
              /\ g.source = f[r].sources[g.start]
              /\ \A i \in g.start .. g.end - 1 : f[r].sources[i] = g.source
         /\ \A g \in Replay!SourceSegments(f[r]), s \in f[r].segments, i \in Nat :
              In(g, i) /\ In(s, i) =>
                g.start <= s.start /\ s.end <= g.end /\ g.source = f[r].sources[s.start]
         /\ \A i \in 0 .. f[r].count - 1 : \E g \in Replay!SourceSegments(f[r]) : In(g, i)
<1> DEFINE n == f[r].count
           src == f[r].sources
           P == {0, n} \cup {i \in 1 .. n - 1 : src[i] # src[i - 1]}
<1>1. n \in Nat \ {0} /\ P \in SUBSET (0..n) /\ P # {} /\ 0 \in P /\ n \in P
  BY RunBasics
<1>2. Replay!SourceSegments(f[r])
        = {[start |-> s.start, end |-> s.end, source |-> src[s.start]] : s \in Replay!Intervals(P)}
  BY DEF Replay!SourceSegments
<1>3. \A x \in 1 .. n - 1 : x \notin P => src[x] = src[x - 1]
  OBVIOUS
<1>a. \A x \in P : x \in {0, n} \/ (x \in 1 .. n - 1 /\ src[x] # src[x - 1])
  OBVIOUS
<1> HIDE DEF P, n, src
<1>4. ASSUME NEW g \in Replay!SourceSegments(f[r])
      PROVE  /\ g.start \in P /\ g.end \in P /\ g.start < g.end
             /\ (\A x \in P : ~(g.start < x /\ x < g.end))
             /\ g.source = src[g.start]
  <2>1. PICK s \in Replay!Intervals(P) : g = [start |-> s.start, end |-> s.end, source |-> src[s.start]]
    BY <1>2
  <2>2. /\ s.start \in P /\ s.end \in P /\ s.start < s.end
        /\ \A x \in P : ~(s.start < x /\ x < s.end)
    BY <1>1, IntervalsOf
  <2> QED
    BY <2>1, <2>2
<1>5. ASSUME NEW g \in Replay!SourceSegments(f[r]), NEW i \in g.start .. g.end - 1
      PROVE  src[i] = g.source
  <2> DEFINE T == {k \in g.start .. g.end - 1 : src[k] # g.source}
  <2>1. SUFFICES ASSUME i \in T PROVE FALSE
    OBVIOUS
  <2>2. g.start \in 0..n /\ g.end \in 0..n /\ g.start < g.end
    BY <1>1, <1>4
  <2>3. T \in SUBSET Nat /\ T # {}
    BY <2>1, <2>2
  <2>4. PICK k \in T : \A m \in T : k <= m
    <3> HIDE DEF T
    <3> QED
      BY <2>3, LeastOf
  <2>a. k \in g.start .. g.end - 1 /\ src[k] # g.source /\ src[g.start] = g.source
    BY <1>4, <2>4
  <2>b. k # g.start /\ k \in Nat /\ g.start < k
    BY <2>a, <2>2
  <2>5. k # g.start /\ k - 1 \in g.start .. g.end - 1 /\ k \in 1 .. n - 1 /\ ~(k <= k - 1)
    BY <2>a, <2>b, <2>2, <1>1
  <2>6. src[k - 1] = g.source
    BY <2>4, <2>5
  <2>7. k \notin P
    BY <1>4, <2>2, <2>a, <2>b
  <2> QED
    BY <1>3, <2>4, <2>5, <2>6, <2>7
<1>6. ASSUME NEW g \in Replay!SourceSegments(f[r])
      PROVE  g.start \in 0..n /\ g.end \in 0..n /\ g.start < g.end
  BY <1>1, <1>4
<1>7. ASSUME NEW g \in Replay!SourceSegments(f[r]), NEW s \in f[r].segments, NEW i \in Nat,
             In(g, i), In(s, i)
      PROVE  g.start <= s.start /\ s.end <= g.end /\ g.source = src[s.start]
  <2>1. /\ s.start \in Nat /\ s.end \in Nat /\ s.start < s.end /\ s.end <= n
        /\ \A k \in s.start .. s.end - 1 : src[k] = src[s.start]
    BY RunBasics DEF n, src
  <2>2. g.start \in Nat /\ g.end \in Nat /\ n \in Nat
    BY <1>1, <1>6
  <2>3. ASSUME NEW x \in P, s.start < x, x < s.end PROVE FALSE
    <3>1. x \in 1 .. n - 1 /\ src[x] # src[x - 1]
      BY <1>1, <1>a, <2>1, <2>3
    <3>2. x \in s.start .. s.end - 1 /\ x - 1 \in s.start .. s.end - 1
      BY <2>1, <2>3, <3>1
    <3> QED
      BY <2>1, <3>1, <3>2
  <2>4. g.start <= s.start
    BY <1>4, <1>7, <2>1, <2>2, <2>3 DEF In
  <2>5. s.end <= g.end
    BY <1>4, <1>7, <2>1, <2>2, <2>3 DEF In
  <2>6. s.start \in g.start .. g.end - 1
    BY <2>1, <2>2, <2>4, <2>5
  <2> QED
    BY <1>5, <2>4, <2>5, <2>6
<1>8. ASSUME NEW i \in 0 .. n - 1
      PROVE  \E g \in Replay!SourceSegments(f[r]) : In(g, i)
  <2>1. PICK s \in Replay!Intervals(P) : In(s, i)
    <3>1. i \in 0..n /\ 0 <= i /\ i < n
      BY <1>1
    <3> QED
      BY <1>1, <3>1, IntervalAround
  <2>2. [start |-> s.start, end |-> s.end, source |-> src[s.start]] \in Replay!SourceSegments(f[r])
    BY <1>2
  <2> QED
    BY <2>1, <2>2 DEF In
<1>9. \A g \in Replay!SourceSegments(f[r]) : g.end <= n /\ g.start \in Nat /\ g.end \in Nat
  BY <1>1, <1>6
<1> QED
  BY <1>4, <1>5, <1>6, <1>7, <1>8, <1>9 DEF n, src

LEMMA ProducerOf ==
  ASSUME NEW f, NEW r, RunOK(f, r), NEW s \in f[r].segments, NEW x \in Nat, In(s, x)
  PROVE  Replay!Producer(f[r].segments, x) = s
<1>1. \A t \in f[r].segments : (t.start <= x /\ x < t.end) <=> t = s
  BY RunBasics DEF In
<1> QED
  BY <1>1 DEF Replay!Producer

\* An original recorded before its trajectory_segments were kept.
Unsegmented(run0) == old /\ run0.kind = "original"

LEMMA BoundariesOf ==
  ASSUME NEW f, NEW r, RunOK(f, r)
  PROVE  /\ \A b \in Replay!Boundaries(f[r]) : \E t \in f[r].segments : t.start = b
         /\ \A t \in f[r].segments : t.start # 0 => t.start \in Replay!Boundaries(f[r])
         /\ Replay!Segments(f[r]) = IF Unsegmented(f[r]) THEN {} ELSE f[r].segments
         /\ Unsegmented(f[r]) =>
              /\ r = Original
              /\ \A s \in f[r].segments :
                   s.start = 0 /\ s.steps = f[r].steps /\ s.origin = Original
<1>1. /\ \A h \in f[r].handoffs : \E t \in f[r].segments : t.start = h
      /\ \E s \in f[r].segments : s.origin = r /\ s.end = f[r].count
      /\ \A s \in f[r].segments : SegmentOK(f, f[r], s)
      /\ f[r].kind = IF r = Original THEN "original" ELSE "branch"
      /\ r = Original => f[r].resume = 0 /\ f[r].handoffs = {}
  BY DEF RunOK
<1>2. Replay!Segments(f[r]) = IF Unsegmented(f[r]) THEN {} ELSE f[r].segments
  BY DEF Replay!Segments, Unsegmented
<1>3. PICK own \in f[r].segments : own.origin = r /\ own.end = f[r].count
  BY <1>1
<1>4. own.start = f[r].resume /\ own.steps = f[r].steps
  BY <1>1, <1>3 DEF SegmentOK
<1>5. Unsegmented(f[r]) => r = Original
  BY <1>1 DEF Unsegmented
<1>6. ASSUME Unsegmented(f[r]), NEW s \in f[r].segments
      PROVE  s.start = 0 /\ s.steps = f[r].steps /\ s.origin = Original
  <2>1. r = Original /\ own.start = 0
    BY <1>1, <1>4, <1>5, <1>6
  <2>2. In(own, s.start) /\ In(s, s.start) /\ s.start \in Nat
    BY <1>3, <2>1, RunBasics DEF In
  <2>3. s = own
    BY <1>3, <2>2, RunBasics
  <2> QED
    BY <1>3, <1>4, <2>1, <2>3
<1>7. ASSUME NEW b \in Replay!Boundaries(f[r]) PROVE \E t \in f[r].segments : t.start = b
  <2>1. CASE b \in f[r].handoffs
    BY <2>1, <1>1
  <2>2. CASE f[r].kind = "branch" /\ b = f[r].resume
    BY <2>2, <1>3, <1>4
  <2>3. CASE \E s \in Replay!Segments(f[r]) : b = s.start
    BY <2>3, <1>2
  <2> QED
    BY <2>1, <2>2, <2>3 DEF Replay!Boundaries, Replay!HandoffSet
<1>8. ASSUME NEW t \in f[r].segments, t.start # 0 PROVE t.start \in Replay!Boundaries(f[r])
  <2>1. ~Unsegmented(f[r])
    BY <1>6, <1>8
  <2> QED
    BY <1>2, <2>1 DEF Replay!Boundaries
<1> QED
  BY <1>2, <1>5, <1>6, <1>7, <1>8

\* A piece lies within one segment, and ends where the segment or the
\* interval that is trained on does.
PieceIn(run0, s, p) ==
  LET success == Replay!SuccessEnd(run0)
      human == run0.sources[s.start] = "human"
  IN  /\ p.start \in Nat /\ p.end \in Nat
      /\ s.start <= p.start /\ p.start < p.end /\ p.end <= s.end
      /\ p.source = run0.sources[s.start] /\ p.steps = s.steps
      /\ p.start \in {s.start, success} /\ p.end \in {s.end, success}
      /\ human => ~(p.start < success /\ success < p.end)
      /\ ~human => p.start = s.start /\ p.end = s.end
      /\ p.grid = IF human /\ success <= p.start THEN p.start ELSE s.start

CutsWithin(run0, g) ==
  {g.start, g.end} \cup
    {b \in Replay!Boundaries(run0) \cup
             (IF g.source = "human" THEN {Replay!SuccessEnd(run0)} ELSE {}) :
       g.start < b /\ b < g.end}

LEMMA PieceWithin ==
  ASSUME NEW f, NEW r, RunOK(f, r), NEW g \in Replay!SourceSegments(f[r]),
         NEW i \in Replay!Intervals(CutsWithin(f[r], g)), NEW p,
         p = [start |-> i.start, end |-> i.end, source |-> g.source,
              grid |-> Replay!GridStart(f[r], g, i.start), steps |-> Replay!Pace(f[r], i.start)]
  PROVE  \E s \in f[r].segments : PieceIn(f[r], s, p)
<1> DEFINE n == f[r].count
           success == Replay!SuccessEnd(f[r])
           Q == CutsWithin(f[r], g)
           human == g.source = "human"
<1>1. /\ g.start \in Nat /\ g.end \in Nat /\ g.start < g.end /\ g.end <= n
      /\ n \in Nat \ {0} /\ success \in 1..n
  BY SourcesOf, RunBasics
<1>2. \A t \in f[r].segments : t.start \in Nat /\ t.end \in Nat /\ t.start < t.end /\ t.end <= n
  BY RunBasics
<1>3. Q \in SUBSET (0..n) /\ Q # {}
  <2>1. \A b \in Q : b \in {g.start, g.end, success} \/ \E t \in f[r].segments : t.start = b
    BY BoundariesOf DEF CutsWithin
  <2>2. \A b \in Q : b \in 0..n
    BY <1>1, <1>2, <2>1
  <2>3. g.start \in Q
    BY DEF CutsWithin
  <2> QED
    BY <2>2, <2>3
<1>4. /\ i.start \in Q /\ i.end \in Q /\ i.start < i.end
      /\ \A x \in Q : ~(i.start < x /\ x < i.end)
  BY <1>1, <1>3, IntervalsOf
<1>5. \A b \in Q : g.start <= b /\ b <= g.end
  <2>1. \A b \in Q : b \in 0..n /\ (b \in {g.start, g.end} \/ (g.start < b /\ b < g.end))
    BY <1>3 DEF CutsWithin
  <2> QED
    BY <1>1, <2>1
<1>6. i.start \in 0..n /\ i.end \in 0..n /\ g.start <= i.start /\ i.end <= g.end /\ i.start < n
  BY <1>1, <1>3, <1>4, <1>5
<1>7. PICK s \in f[r].segments : In(s, i.start)
  <2>1. i.start \in 0 .. f[r].count - 1
    BY <1>1, <1>6
  <2> QED
    BY <2>1 DEF RunOK
<1>8. g.start <= s.start /\ s.end <= g.end /\ g.source = f[r].sources[s.start]
  <2>1. In(g, i.start) /\ i.start \in Nat
    BY <1>1, <1>4, <1>6 DEF In
  <2> QED
    BY <1>7, <2>1, SourcesOf
<1>9. \E t \in f[r].segments : t.start = g.start
  <2>1. g.start \in 0 .. f[r].count - 1
    BY <1>1
  <2>2. PICK t \in f[r].segments : In(t, g.start)
    BY <2>1 DEF RunOK
  <2>3. In(g, g.start)
    BY <1>1 DEF In
  <2>4. g.start <= t.start
    BY <1>1, <2>2, <2>3, SourcesOf
  <2> QED
    BY <1>1, <1>2, <2>2, <2>4 DEF In
<1>10. \A b \in Q : b = g.end \/ (human /\ b = success) \/ \E t \in f[r].segments : t.start = b
  BY <1>9, BoundariesOf DEF CutsWithin
<1>11. ASSUME NEW t \in f[r].segments, In(s, t.start) PROVE t.start = s.start
  <2>1. In(t, t.start) /\ t.start \in Nat
    BY <1>2 DEF In
  <2> QED
    BY <2>1, <1>7, <1>11, RunBasics
<1>12. i.start = s.start \/ (human /\ i.start = success)
  <2>1. i.start # g.end
    BY <1>1, <1>4, <1>6
  <2> QED
    BY <2>1, <1>4, <1>7, <1>10, <1>11
<1>13. i.end <= s.end
  <2>1. CASE s.end = g.end
    BY <2>1, <1>6
  <2>2. CASE s.end # g.end
    <3>1. s.end < g.end /\ s.end # n /\ g.start < s.end /\ s.end # 0
      BY <2>2, <1>1, <1>2, <1>8
    <3>2. PICK t \in f[r].segments : t.start = s.end
      BY <3>1 DEF RunOK, SegmentOK
    <3>3. s.end \in Q
      BY <3>1, <3>2, BoundariesOf DEF CutsWithin
    <3> QED
      BY <3>3, <1>2, <1>4, <1>6, <1>7 DEF In
  <2> QED
    BY <2>1, <2>2
<1>14. i.end = s.end \/ (human /\ i.end = success)
  <2>1. CASE i.end = g.end
    BY <2>1, <1>1, <1>2, <1>8, <1>13
  <2>2. ASSUME NEW t \in f[r].segments, t.start = i.end PROVE i.end = s.end
    <3>1. i.end < s.end => In(s, t.start)
      BY <1>2, <1>4, <1>6, <1>7, <2>2 DEF In
    <3>2. ~(i.end < s.end)
      BY <1>2, <1>4, <1>6, <1>7, <1>11, <2>2, <3>1 DEF In
    <3> QED
      BY <1>2, <1>6, <1>13, <3>2
  <2> QED
    BY <2>1, <2>2, <1>4, <1>10
<1>15. human => ~(i.start < success /\ success < i.end)
  <2>1. human /\ g.start < success /\ success < g.end => success \in Q
    BY DEF CutsWithin
  <2> QED
    BY <2>1, <1>1, <1>4, <1>6
<1>16. i.start \in Nat /\ Replay!Producer(f[r].segments, i.start) = s
  BY <1>6, <1>7, ProducerOf
<1>17. Replay!Pace(f[r], i.start) = s.steps
  BY <1>16, BoundariesOf DEF Replay!Pace, Replay!ExecutionSteps
<1>18. Replay!GridStart(f[r], g, i.start)
         = IF human /\ success <= i.start THEN i.start ELSE s.start
  <2>1. CASE human /\ success <= i.start
    <3>1. Replay!Max({i.start, success}) = i.start
      BY <1>1, <1>6, <2>1 DEF Replay!Max
    <3> QED
      BY <2>1, <3>1, <1>1, <1>6 DEF Replay!GridStart
  <2>2. CASE ~(human /\ success <= i.start)
    <3>1. Replay!GridStart(f[r], g, i.start)
            = IF Replay!Segments(f[r]) = {} THEN g.start
              ELSE Replay!Max({Replay!Producer(Replay!Segments(f[r]), i.start).start, g.start})
      BY <2>2, <1>1, <1>6 DEF Replay!GridStart
    <3>2. CASE Unsegmented(f[r])
      <4>1. Replay!Segments(f[r]) = {} /\ s.start = 0
        BY <3>2, BoundariesOf
      <4> QED
        BY <2>2, <3>1, <4>1, <1>1, <1>8
    <3>3. CASE ~Unsegmented(f[r])
      <4>1. Replay!Segments(f[r]) = f[r].segments /\ f[r].segments # {}
        BY <3>3, BoundariesOf
      <4>2. Replay!Max({s.start, g.start}) = s.start
        BY <1>1, <1>2, <1>8 DEF Replay!Max
      <4> QED
        BY <2>2, <3>1, <4>1, <4>2, <1>16
    <3> QED
      BY <3>2, <3>3
  <2> QED
    BY <2>1, <2>2
<1>19. /\ p.start = i.start /\ p.end = i.end /\ p.source = g.source
       /\ p.grid = Replay!GridStart(f[r], g, i.start) /\ p.steps = Replay!Pace(f[r], i.start)
  OBVIOUS
<1>20. i.start \in Nat /\ i.end \in Nat /\ s.start <= i.start
  BY <1>6, <1>7 DEF In
<1> HIDE DEF n, success, Q
<1> QED
  BY <1>4, <1>8, <1>12, <1>13, <1>14, <1>15, <1>17, <1>18, <1>19, <1>20 DEF PieceIn, success

LEMMA PiecesOf ==
  ASSUME NEW f, NEW r, RunOK(f, r)
  PROVE  /\ \A p \in Replay!SplitSources(f[r]) : \E s \in f[r].segments : PieceIn(f[r], s, p)
         /\ \A x \in 0 .. f[r].count - 1 : \E p \in Replay!SplitSources(f[r]) : In(p, x)
<1> DEFINE piece(g, i) ==
      [start |-> i.start, end |-> i.end, source |-> g.source,
       grid |-> Replay!GridStart(f[r], g, i.start), steps |-> Replay!Pace(f[r], i.start)]
<1>1. Replay!SplitSources(f[r])
        = UNION {{piece(g, i) : i \in Replay!Intervals(CutsWithin(f[r], g))} :
                   g \in Replay!SourceSegments(f[r])}
  BY DEF Replay!SplitSources, CutsWithin
<1>2. ASSUME NEW p \in Replay!SplitSources(f[r])
      PROVE  \E s \in f[r].segments : PieceIn(f[r], s, p)
  <2>1. PICK g \in Replay!SourceSegments(f[r]) :
          \E i \in Replay!Intervals(CutsWithin(f[r], g)) : p = piece(g, i)
    BY <1>1
  <2>2. PICK i \in Replay!Intervals(CutsWithin(f[r], g)) : p = piece(g, i)
    BY <2>1
  <2> QED
    BY <2>2, PieceWithin
<1>3. ASSUME NEW x \in 0 .. f[r].count - 1
      PROVE  \E p \in Replay!SplitSources(f[r]) : In(p, x)
  <2>1. PICK g \in Replay!SourceSegments(f[r]) : In(g, x)
    BY SourcesOf
  <2>2. g.start \in Nat /\ g.end \in Nat /\ g.start < g.end
    BY SourcesOf
  <2>3. /\ CutsWithin(f[r], g) \in SUBSET (0 .. g.end)
        /\ g.start \in CutsWithin(f[r], g) /\ g.end \in CutsWithin(f[r], g)
    <3>1. \A b \in Replay!Boundaries(f[r]) : b \in Nat
      BY BoundariesOf, RunBasics
    <3>2. Replay!SuccessEnd(f[r]) \in Nat
      BY RunBasics
    <3> QED
      BY <2>2, <3>1, <3>2 DEF CutsWithin
  <2>4. PICK i \in Replay!Intervals(CutsWithin(f[r], g)) : In(i, x)
    <3>1. x \in 0 .. g.end /\ g.start <= x /\ x < g.end
      BY <2>1, <2>2 DEF In
    <3> QED
      BY <2>2, <2>3, <3>1, IntervalAround
  <2>5. piece(g, i) \in Replay!SplitSources(f[r])
    BY <1>1
  <2>6. In(piece(g, i), x)
    BY <2>4 DEF In
  <2> QED
    BY <2>5, <2>6
<1> QED
  BY <1>2, <1>3

LEMMA PieceCuts ==
  ASSUME NEW f, NEW r, RunOK(f, r), NEW s \in f[r].segments, NEW p, PieceIn(f[r], s, p)
  PROVE  Replay!CutPoints(f[r], p)
           = {p.end} \cup {x \in p.start .. p.end - 1 : (x - p.grid) % p.steps = 0}
<1> DEFINE queries == {q \in Replay!QuerySteps(f[r]) : p.start <= q /\ q < p.end}
           grid == {x \in p.start .. p.end - 1 : x >= p.grid /\ (x - p.grid) % p.steps = 0}
           all == {x \in p.start .. p.end - 1 : (x - p.grid) % p.steps = 0}
<1>1. /\ p.start \in Nat /\ p.end \in Nat /\ s.start \in Nat /\ s.start <= p.start
      /\ p.grid \in Nat /\ p.grid <= p.start /\ p.end <= s.end /\ s.end <= f[r].count
      /\ s.end \in Nat /\ f[r].count \in Nat /\ p.steps = s.steps /\ p.source = f[r].sources[s.start]
      /\ p.source # "human" => p.start = s.start /\ p.end = s.end /\ p.grid = s.start
  BY RunBasics DEF PieceIn
<1>2. grid = all
  BY <1>1
<1>3. \A q \in s.start .. s.end - 1 :
        q \in f[r].queries <=> /\ queried /\ p.source # "human" /\ (q - s.start) % s.steps = 0
  <2>1. SegmentOK(f, f[r], s)
    BY DEF RunOK
  <2>2. s.start \in s.start .. s.end - 1
    BY RunBasics
  <2>3. f[r].sources[s.start] = f[s.origin].sources[s.start]
    BY <2>1, <2>2 DEF SegmentOK
  <2> QED
    BY <2>1, <2>3, <1>1 DEF SegmentOK
<1>4. f[r].queries \subseteq Nat
  BY DEF RunOK
<1>5. CASE p.source # "human" /\ queries # {}
  <2>1. \A q : q \in queries <=> q \in f[r].queries /\ q \in s.start .. s.end - 1
    BY <1>1, <1>4, <1>5 DEF Replay!QuerySteps
  <2>2. queried
    BY <2>1, <1>3, <1>5
  <2>3. \A q : q \in queries <=> q \in all
    BY <2>1, <2>2, <1>1, <1>3, <1>5
  <2>4. queries = all
    <3> HIDE DEF queries, all
    <3> QED
      BY <2>3
  <2> HIDE DEF queries, all, grid
  <2>5. Replay!CutPoints(f[r], p) = {p.end} \cup all
    <3>1. Replay!CutPoints(f[r], p)
            = {p.end} \cup IF p.source \in {"policy", "policy_requery"} /\ queries # {}
                             THEN queries ELSE grid
      BY DEF Replay!CutPoints, queries, grid
    <3> QED
      BY <3>1, <2>4, <1>2
  <2> QED
    BY <2>5 DEF all
<1>6. CASE ~(p.source # "human" /\ queries # {})
  <2>1. ~(p.source \in {"policy", "policy_requery"} /\ queries # {})
    BY <1>6
  <2> HIDE DEF queries, all, grid
  <2>2. Replay!CutPoints(f[r], p)
          = {p.end} \cup IF p.source \in {"policy", "policy_requery"} /\ queries # {}
                           THEN queries ELSE grid
    BY DEF Replay!CutPoints, queries, grid
  <2>3. Replay!CutPoints(f[r], p) = {p.end} \cup all
    BY <2>1, <2>2, <1>2
  <2> QED
    BY <2>3 DEF all
<1> QED
  BY <1>5, <1>6

\* The grid a piece is cut on is that of its segment.
LEMMA PieceGrid ==
  ASSUME NEW f, NEW r, RunOK(f, r), NEW s \in f[r].segments, NEW p, PieceIn(f[r], s, p),
         NEW x \in Nat, In(p, x)
  PROVE  OnGrid(f[r], s, x) <=> x = Replay!SuccessEnd(f[r]) \/ (x - p.grid) % p.steps = 0
<1> DEFINE success == Replay!SuccessEnd(f[r])
           again == f[r].sources[s.start] = "human" /\ s.start < success /\ success <= x
<1>1. success \in Nat /\ s.start \in Nat
  BY RunBasics
<1> HIDE DEF success
<1>2. p.grid = IF again THEN success ELSE s.start
  BY <1>1 DEF PieceIn, In, success
<1>3. p.steps = s.steps
  BY DEF PieceIn
<1> QED
  BY <1>2, <1>3 DEF OnGrid, success

LEMMA CutsOfPieces ==
  ASSUME NEW f, NEW r, RunOK(f, r)
  PROVE  Replay!SemiMdpCuts(f[r]) = Cuts(f[r])
<1> DEFINE n == f[r].count
           success == Replay!SuccessEnd(f[r])
<1>1. n \in Nat \ {0} /\ success \in 1..n
  BY RunBasics
<1>2. Replay!SemiMdpCuts(f[r])
        = {0, n, success} \cup UNION {Replay!CutPoints(f[r], p) : p \in Replay!SplitSources(f[r])}
  BY DEF Replay!SemiMdpCuts
<1>3. \A s \in f[r].segments :
        s.start \in Nat /\ s.end \in Nat /\ s.steps \in Nat \ {0} /\ s.start < s.end /\ s.end <= n
  BY RunBasics
<1>4. \A x \in 0 .. n - 1 : \E s \in f[r].segments : In(s, x)
  BY DEF RunOK
<1>5. ASSUME NEW s \in f[r].segments PROVE OnGrid(f[r], s, s.start)
  <2>1. (s.start - s.start) % s.steps = 0
    BY <1>3
  <2>2. ~(s.start < success /\ success <= s.start)
    BY <1>1, <1>3
  <2> QED
    BY <2>1, <2>2 DEF OnGrid
<1> HIDE DEF n, success
<1>6. ASSUME NEW x \in Cuts(f[r]) PROVE x \in Replay!SemiMdpCuts(f[r])
  <2>1. CASE x = n \/ x = success
    BY <2>1, <1>2
  <2>2. CASE x # n /\ x # success
    <3>1. PICK s \in f[r].segments : In(s, x) /\ OnGrid(f[r], s, x)
      BY <2>2 DEF Cuts, n
    <3>2. x \in 0 .. n - 1 /\ x \in Nat
      BY <2>2, <1>1 DEF Cuts, n
    <3>3. PICK p \in Replay!SplitSources(f[r]) : In(p, x)
      BY <3>2, PiecesOf DEF n
    <3>4. PICK t \in f[r].segments : PieceIn(f[r], t, p)
      BY PiecesOf
    <3>5. In(t, x)
      BY <1>3, <3>2, <3>3, <3>4 DEF In, PieceIn
    <3>6. t = s
      BY <3>1, <3>2, <3>5, RunBasics
    <3>7. (x - p.grid) % p.steps = 0
      BY <2>2, <3>1, <3>2, <3>3, <3>4, <3>6, PieceGrid DEF success
    <3>8. x \in p.start .. p.end - 1
      BY <3>2, <3>3, <3>4 DEF In, PieceIn
    <3>9. x \in Replay!CutPoints(f[r], p)
      BY <3>4, <3>7, <3>8, PieceCuts
    <3> QED
      BY <3>9, <1>2
  <2> QED
    BY <2>1, <2>2
<1>7. ASSUME NEW x \in Replay!SemiMdpCuts(f[r]) PROVE x \in Cuts(f[r])
  <2>1. ASSUME NEW y \in 0 .. n, y < n => \A s \in f[r].segments : In(s, y) => OnGrid(f[r], s, y)
        PROVE  y \in Cuts(f[r])
    <3>1. CASE y = n
      BY <3>1, <1>1 DEF Cuts, n
    <3>2. CASE y # n
      <4>1. y \in 0 .. n - 1 /\ y < n
        BY <1>1, <3>2
      <4>2. PICK s \in f[r].segments : In(s, y)
        BY <1>4, <4>1
      <4>3. OnGrid(f[r], s, y)
        BY <2>1, <4>1, <4>2
      <4> QED
        BY <4>2, <4>3 DEF Cuts, n
    <3> QED
      BY <3>1, <3>2
  <2>2. ASSUME NEW y \in 0 .. n, NEW t \in f[r].segments, t.start = y
        PROVE  y \in Cuts(f[r])
    <3>1. ASSUME NEW s \in f[r].segments, In(s, y) PROVE OnGrid(f[r], s, y)
      <4>1. In(t, y) /\ y \in Nat
        BY <1>3, <2>2 DEF In
      <4>2. s = t
        BY <3>1, <4>1, RunBasics
      <4> QED
        BY <4>2, <2>2, <1>5
    <3> QED
      BY <3>1, <2>1
  <2>3. CASE x = n
    BY <2>1, <2>3, <1>1
  <2>4. CASE x = success
    <3>1. x \in 0..n
      BY <2>4, <1>1
    <3>2. \A s \in f[r].segments : OnGrid(f[r], s, x)
      BY <2>4 DEF OnGrid, success
    <3> QED
      BY <2>1, <3>1, <3>2
  <2>5. CASE x = 0
    <3>1. 0 \in 0 .. n - 1 /\ 0 \in 0..n
      BY <1>1
    <3>2. PICK t \in f[r].segments : In(t, 0)
      BY <1>4, <3>1
    <3>3. t.start = 0
      BY <3>2, <1>3 DEF In
    <3> QED
      BY <2>2, <2>5, <3>1, <3>3
  <2>6. CASE \E p \in Replay!SplitSources(f[r]) : x \in Replay!CutPoints(f[r], p)
    <3>1. PICK p \in Replay!SplitSources(f[r]) : x \in Replay!CutPoints(f[r], p)
      BY <2>6
    <3>2. PICK s \in f[r].segments : PieceIn(f[r], s, p)
      BY PiecesOf
    <3>3. x = p.end \/ (x \in p.start .. p.end - 1 /\ (x - p.grid) % p.steps = 0)
      BY <3>1, <3>2, PieceCuts
    <3>4. /\ p.start \in Nat /\ p.end \in Nat /\ p.start < p.end /\ s.start <= p.start
          /\ p.end <= s.end /\ p.end \in {s.end, success}
      BY <3>2 DEF PieceIn, success
    <3>5. CASE x = p.end
      <4>1. CASE x = success
        BY <2>4, <4>1
      <4>2. CASE x = s.end /\ x # n
        <5>1. PICK t \in f[r].segments : t.start = s.end
          BY <4>2 DEF RunOK, SegmentOK, n
        <5> QED
          BY <4>2, <5>1, <1>3, <2>2
      <4> QED
        BY <4>1, <4>2, <2>3, <3>4, <3>5
    <3>6. CASE x \in p.start .. p.end - 1 /\ (x - p.grid) % p.steps = 0
      <4>1. x \in Nat /\ In(p, x) /\ In(s, x) /\ x \in 0..n
        BY <3>4, <3>6, <1>1, <1>3 DEF In
      <4>2. OnGrid(f[r], s, x)
        BY <3>2, <3>6, <4>1, PieceGrid
      <4>3. \A t \in f[r].segments : In(t, x) => t = s
        BY <4>1, RunBasics
      <4> QED
        BY <4>1, <4>2, <4>3, <2>1
    <3> QED
      BY <3>3, <3>5, <3>6
  <2> QED
    BY <1>2, <2>3, <2>4, <2>5, <2>6
<1> QED
  BY <1>6, <1>7

LEMMA CutsIn ==
  ASSUME NEW f, NEW r, RunOK(f, r)
  PROVE  /\ Cuts(f[r]) \in SUBSET (0 .. f[r].count) /\ Cuts(f[r]) # {}
         /\ f[r].count \in Cuts(f[r]) /\ 0 \in Cuts(f[r])
         /\ \A s \in f[r].segments : s.start \in Cuts(f[r]) /\ s.end \in Cuts(f[r])
         /\ Replay!SuccessEnd(f[r]) \in Cuts(f[r])
<1>1. f[r].count \in Nat \ {0} /\ Replay!SuccessEnd(f[r]) \in 1 .. f[r].count
  BY RunBasics
<1>2. Cuts(f[r]) \in SUBSET (0 .. f[r].count) /\ f[r].count \in Cuts(f[r])
  BY <1>1 DEF Cuts
<1>3. 0 \in Cuts(f[r]) /\ Replay!SuccessEnd(f[r]) \in Cuts(f[r])
  BY CutsOfPieces DEF Replay!SemiMdpCuts
<1>4. ASSUME NEW s \in f[r].segments PROVE s.start \in Cuts(f[r])
  <2>1. s.start \in Nat /\ s.end \in Nat /\ s.start < s.end /\ s.end <= f[r].count /\ s.steps \in Nat \ {0}
    BY RunBasics
  <2>2. OnGrid(f[r], s, s.start)
    <3>1. (s.start - s.start) % s.steps = 0
      BY <2>1
    <3>2. ~(s.start < Replay!SuccessEnd(f[r]) /\ Replay!SuccessEnd(f[r]) <= s.start)
      BY <1>1, <2>1
    <3> QED
      BY <3>1, <3>2 DEF OnGrid
  <2>3. In(s, s.start) /\ s.start \in 0 .. f[r].count
    BY <1>1, <2>1 DEF In
  <2> QED
    BY <2>2, <2>3 DEF Cuts
<1>5. ASSUME NEW s \in f[r].segments PROVE s.end \in Cuts(f[r])
  <2>1. s.end = f[r].count \/ \E t \in f[r].segments : t.start = s.end
    BY DEF RunOK, SegmentOK
  <2> QED
    BY <2>1, <1>2, <1>4
<1> QED
  BY <1>2, <1>3, <1>4, <1>5

LEMMA ChunksPrepared ==
  ASSUME NEW f, NEW r, RunOK(f, r)
  PROVE  PreparedOK(f[r], Replay!Chunks(f[r]))
<1> DEFINE run0 == f[r]
           chunk(c) ==
             [start |-> c.start, end |-> c.end, source |-> run0.sources[c.start],
              origin |-> IF Replay!Segments(run0) = {} THEN Original
                         ELSE Replay!Producer(Replay!Segments(run0), c.start).origin,
              copied |-> run0.kind = "branch" /\ c.end <= run0.resume,
              interrupted |-> /\ c.end \in Replay!HandoffSet(run0)
                              /\ c.end - c.start < Replay!Pace(run0, c.start)]
           C == Cuts(run0)
<1>1. Replay!Chunks(run0) = {chunk(c) : c \in Replay!Intervals(C)}
  BY CutsOfPieces DEF Replay!Chunks
<1>2. C \in SUBSET (0 .. run0.count) /\ C # {} /\ run0.count \in C /\ run0.count \in Nat
  BY CutsIn, RunBasics
<1> HIDE DEF C
<1>3. ASSUME NEW c \in Replay!Intervals(C)
      PROVE  /\ c.start \in C /\ c.end \in C /\ c.start < c.end
             /\ \A x \in C : ~(c.start < x /\ x < c.end)
             /\ chunk(c).origin = run0.made[c.start]
  <2>1. /\ c.start \in C /\ c.end \in C /\ c.start < c.end
        /\ \A x \in C : ~(c.start < x /\ x < c.end)
    BY <1>2, <1>3, IntervalsOf
  <2>a. c.start \in 0 .. run0.count /\ c.end \in 0 .. run0.count
    BY <1>2, <2>1
  <2>2. c.start \in 0 .. run0.count - 1 /\ c.start \in Nat
    BY <1>2, <2>1, <2>a
  <2>3. PICK s \in run0.segments : In(s, c.start)
    BY <2>2 DEF RunOK
  <2>4. s.origin = run0.made[c.start]
    BY <2>2, <2>3, RunBasics DEF In
  <2>5. CASE Unsegmented(run0)
    <3>1. Replay!Segments(run0) = {} /\ s.origin = Original
      BY <2>5, BoundariesOf
    <3> QED
      BY <3>1, <2>1, <2>4
  <2>6. CASE ~Unsegmented(run0)
    <3>1. Replay!Segments(run0) = run0.segments
      BY <2>6, BoundariesOf
    <3>2. Replay!Producer(run0.segments, c.start) = s
      BY <2>2, <2>3, ProducerOf
    <3> QED
      BY <3>1, <3>2, <2>1, <2>3, <2>4
  <2> QED
    BY <2>1, <2>5, <2>6
<1>4. ASSUME NEW d \in Replay!Chunks(run0)
      PROVE  /\ d.start \in C /\ d.end \in C /\ d.start < d.end
             /\ \A x \in C : ~(d.start < x /\ x < d.end)
             /\ d.source = run0.sources[d.start] /\ d.origin = run0.made[d.start]
             /\ d.copied = (run0.kind = "branch" /\ d.end <= run0.resume)
  <2>1. PICK c \in Replay!Intervals(C) : d = chunk(c)
    BY <1>1
  <2>2. /\ d.start = c.start /\ d.end = c.end /\ d.source = run0.sources[c.start]
        /\ d.origin = chunk(c).origin /\ d.copied = (run0.kind = "branch" /\ c.end <= run0.resume)
    BY <2>1
  <2> HIDE DEF chunk, run0
  <2> QED
    BY <2>2, <1>3
<1>5. ASSUME NEW x \in C, x < run0.count PROVE \E d \in Replay!Chunks(run0) : d.start = x
  <2>1. PICK c \in Replay!Intervals(C) : c.start = x
    BY <1>2, <1>5, IntervalsOf
  <2>2. chunk(c) \in Replay!Chunks(run0) /\ chunk(c).start = x
    BY <1>1, <2>1
  <2> HIDE DEF chunk
  <2> QED
    BY <2>2
<1>6. ASSUME NEW d \in Replay!Chunks(run0), NEW e \in Replay!Chunks(run0), d.start = e.start
      PROVE  d = e
  <2>1. PICK c \in Replay!Intervals(C) : d = chunk(c)
    BY <1>1
  <2>2. PICK b \in Replay!Intervals(C) : e = chunk(b)
    BY <1>1
  <2>3. c.start = b.start
    BY <1>6, <2>1, <2>2
  <2>4. c = b
    BY <1>2, <2>3, IntervalsOf
  <2> QED
    BY <2>1, <2>2, <2>4
<1> HIDE DEF chunk
<1> QED
  BY <1>4, <1>5, <1>6 DEF PreparedOK, C
-----------------------------------------------------------------------------
(* Recording.                                                              *)

SameRun(a, b) ==
  /\ b.kind = a.kind /\ b.resume = a.resume /\ b.count = a.count /\ b.steps = a.steps
  /\ b.sources = a.sources /\ b.done = a.done /\ b.made = a.made
  /\ b.queries = a.queries /\ b.segments = a.segments /\ b.handoffs = a.handoffs

LEMMA RunKept ==
  ASSUME NEW f, NEW g, NEW r \in DOMAIN f, RunOK(f, r), DOMAIN f \subseteq DOMAIN g,
         \A q \in DOMAIN f : SameRun(f[q], g[q])
  PROVE  RunOK(g, r)
<1>1. SameRun(f[r], g[r])
  OBVIOUS
<1>2. ASSUME NEW s \in f[r].segments PROVE SegmentOK(g, g[r], s)
  <2>1. SegmentOK(f, f[r], s)
    BY DEF RunOK
  <2>2. s.origin \in DOMAIN f /\ SameRun(f[s.origin], g[s.origin])
    BY <2>1 DEF SegmentOK
  <2> QED
    BY <2>1, <2>2, <1>1 DEF SegmentOK, SameRun
<1> QED
  BY <1>1, <1>2 DEF RunOK, SameRun

LEMMA PreparedKept ==
  ASSUME NEW a, NEW b, SameRun(a, b), NEW chunks, PreparedOK(a, chunks)
  PROVE  PreparedOK(b, chunks)
<1>1. Replay!SuccessEnd(b) = Replay!SuccessEnd(a)
  BY DEF SameRun, Replay!SuccessEnd
<1>2. ASSUME NEW s, NEW x PROVE OnGrid(b, s, x) <=> OnGrid(a, s, x)
  BY <1>1 DEF OnGrid, SameRun
<1>3. Cuts(b) = Cuts(a)
  BY <1>2 DEF Cuts, SameRun
<1> QED
  BY <1>3 DEF PreparedOK, SameRun

\* What a recording keeps of the run it continues, and its own part.
RecordedAs(new, source, id, resume, mode, steps, count) ==
  /\ new.kind = IF id = Original THEN "original" ELSE "branch"
  /\ new.resume = resume /\ new.count = count /\ new.steps = steps
  /\ new.segments = Replay!PrefixSegments(source, resume)
                      \cup {[start |-> resume, end |-> count, origin |-> id, steps |-> steps]}
  /\ new.handoffs = IF id = Original THEN {} ELSE Replay!Handoffs(source, resume)
  /\ new.queries = {q \in source.queries : q < resume}
                     \cup Replay!Asked(mode, resume, count, steps)
  /\ \A i \in resume .. count - 1 : new.made[i] = id /\ new.sources[i] = mode
  /\ \A i \in 0 .. resume - 1 :
       /\ new.made[i] = source.made[i] /\ new.sources[i] = source.sources[i]
       /\ new.done[i] = source.done[i]

LEMMA Recorded ==
  ASSUME NEW f, NEW source, NEW id, NEW resume, NEW mode, NEW steps, NEW count, NEW done,
         f[id] = Replay!Recording(id, source, resume, mode, steps, count, done),
         resume \in Nat, count \in Nat, resume < count
  PROVE  RecordedAs(f[id], source, id, resume, mode, steps, count)
<1> DEFINE own == resume .. count - 1
           new == f[id]
<1>1. /\ new.kind = IF id = Original THEN "original" ELSE "branch"
      /\ new.resume = resume /\ new.count = count /\ new.steps = steps
      /\ new.segments = Replay!PrefixSegments(source, resume)
                          \cup {[start |-> resume, end |-> count, origin |-> id, steps |-> steps]}
      /\ new.handoffs = IF id = Original THEN {} ELSE Replay!Handoffs(source, resume)
      /\ new.queries = {q \in source.queries : q < resume}
                         \cup Replay!Asked(mode, resume, count, steps)
      /\ new.made = Replay!Extended(source.made, resume, [i \in own |-> id])
      /\ new.sources = Replay!Extended(source.sources, resume, [i \in own |-> mode])
      /\ new.done = Replay!Extended(source.done, resume,
                      [i \in own |-> done # Replay!NoStep /\ i >= done])
  BY DEF Replay!Recording
<1>2. ASSUME NEW before, NEW after, DOMAIN after = own, NEW i \in 0 .. count - 1
      PROVE  Replay!Extended(before, resume, after)[i] = IF i < resume THEN before[i] ELSE after[i]
  BY <1>2 DEF Replay!Extended
<1>3. \A i \in own : i \in 0 .. count - 1 /\ ~(i < resume)
  OBVIOUS
<1>4. \A i \in 0 .. resume - 1 : i \in 0 .. count - 1 /\ i < resume
  OBVIOUS
<1>5. ASSUME NEW i \in own PROVE new.made[i] = id /\ new.sources[i] = mode
  <2> DEFINE ids == [k \in own |-> id]
             modes == [k \in own |-> mode]
  <2>1. DOMAIN ids = own /\ ids[i] = id /\ DOMAIN modes = own /\ modes[i] = mode
    OBVIOUS
  <2>2. new.made = Replay!Extended(source.made, resume, ids)
        /\ new.sources = Replay!Extended(source.sources, resume, modes)
    BY <1>1
  <2> HIDE DEF ids, modes, own, new
  <2> QED
    BY <2>1, <2>2, <1>2, <1>3
<1>6. ASSUME NEW i \in 0 .. resume - 1
      PROVE  /\ new.made[i] = source.made[i] /\ new.sources[i] = source.sources[i]
             /\ new.done[i] = source.done[i]
  <2> DEFINE ids == [k \in own |-> id]
             modes == [k \in own |-> mode]
             dones == [k \in own |-> done # Replay!NoStep /\ k >= done]
  <2>1. DOMAIN ids = own /\ DOMAIN modes = own /\ DOMAIN dones = own
    OBVIOUS
  <2>2. /\ new.made = Replay!Extended(source.made, resume, ids)
        /\ new.sources = Replay!Extended(source.sources, resume, modes)
        /\ new.done = Replay!Extended(source.done, resume, dones)
    BY <1>1
  <2> HIDE DEF ids, modes, dones, own, new
  <2> QED
    BY <2>1, <2>2, <1>2, <1>4
<1> HIDE DEF new
<1> QED
  BY <1>1, <1>5, <1>6 DEF new, RecordedAs

LEMMA OriginalRecorded ==
  ASSUME NEW f, NEW steps \in Steps, NEW count \in Lengths, NEW done,
         DOMAIN f = {Original},
         f[Original] = Replay!Recording(Original, Replay!Nothing, 0, "policy", steps, count, done)
  PROVE  RunOK(f, Original)
<1> DEFINE own == [start |-> 0, end |-> count, origin |-> Original, steps |-> steps]
           new == f[Original]
<1>1. count \in 1 .. MaxSteps /\ count \in Nat /\ 0 < count /\ steps \in Nat \ {0} /\ Original \in Nat
  BY ReplayConstants
<1>2. Replay!PrefixSegments(Replay!Nothing, 0) = {} /\ Replay!Nothing.queries = {}
  BY DEF Replay!PrefixSegments, Replay!Nothing
<1>a. RecordedAs(f[Original], Replay!Nothing, Original, 0, "policy", steps, count)
  BY <1>1, Recorded
<1>b. {q \in Replay!Nothing.queries : q < 0} = {}
  BY <1>2
<1>3. /\ new.kind = "original" /\ new.resume = 0 /\ new.count = count /\ new.steps = steps
      /\ new.segments = {own} /\ new.handoffs = {}
      /\ new.queries = Replay!Asked("policy", 0, count, steps)
      /\ \A i \in 0 .. count - 1 : new.made[i] = Original /\ new.sources[i] = "policy"
  BY <1>a, <1>b, <1>2 DEF RecordedAs
<1>4. /\ own \in SegmentSet /\ own.start = 0 /\ own.end = count /\ own.origin = Original
      /\ own.steps = steps
  BY <1>1 DEF SegmentSet
<1>5. new.queries = IF queried THEN {i \in 0 .. count : (i - 0) % steps = 0} ELSE {}
  BY <1>3 DEF Replay!Asked
<1> HIDE DEF own, new
<1>6. SegmentOK(f, new, own)
  <2>1. 0 \in 0 .. count - 1
    BY <1>1
  <2>2. \A q \in 0 .. count - 1 :
          q \in new.queries <=> queried /\ new.sources[0] # "human" /\ (q - 0) % steps = 0
    BY <1>1, <1>3, <1>5, <2>1
  <2> QED
    BY <1>1, <1>3, <1>4, <2>1, <2>2 DEF SegmentOK, new
<1>7. \A i \in 0 .. count - 1 : In(own, i)
  BY <1>1, <1>4 DEF In
<1>8. new.queries \subseteq Nat
  BY <1>5, <1>1
<1>9. /\ f[Original].kind = "original" /\ f[Original].resume = 0 /\ f[Original].count = count
      /\ f[Original].steps = steps /\ f[Original].segments = {own} /\ f[Original].handoffs = {}
      /\ f[Original].queries \subseteq Nat /\ SegmentOK(f, f[Original], own)
  BY <1>3, <1>6, <1>8 DEF new
<1>10. \A s \in {own} : s = own
  OBVIOUS
<1> QED
  BY <1>1, <1>4, <1>7, <1>9, <1>10 DEF RunOK

LEMMA BranchRecorded ==
  ASSUME NEW f, NEW g, NEW source \in DOMAIN f, NEW id \in Branches \ DOMAIN f,
         \A q \in DOMAIN f : RunOK(f, q),
         NEW resume \in Nat, NEW mode, NEW steps \in Steps, NEW count \in Lengths, NEW done,
         resume <= f[source].count, resume < count,
         DOMAIN g = DOMAIN f \cup {id}, \A q \in DOMAIN f : g[q] = f[q],
         g[id] = Replay!Recording(id, f[source], resume, mode, steps, count, done)
  PROVE  RunOK(g, id)
<1> DEFINE own == [start |-> resume, end |-> count, origin |-> id, steps |-> steps]
           new == g[id]
           from == f[source]
           clip(s) == [s EXCEPT !.end = Replay!Min({resume, s.end})]
<1>a. id \in Branches /\ count \in Lengths /\ steps \in Steps
  OBVIOUS
<1>b. id \in Nat /\ id # Original
  BY <1>a, ReplayConstants
<1>1. /\ count \in 1 .. MaxSteps /\ count \in Nat /\ steps \in Nat \ {0}
      /\ id \in Nat /\ id # Original
  BY <1>a, <1>b, ReplayConstants
<1>c. RecordedAs(g[id], f[source], id, resume, mode, steps, count)
  BY <1>1, Recorded
<1>2. /\ new.kind = "branch" /\ new.resume = resume /\ new.count = count /\ new.steps = steps
      /\ new.segments = Replay!PrefixSegments(from, resume) \cup {own}
      /\ new.handoffs = Replay!Handoffs(from, resume)
      /\ new.queries = {q \in from.queries : q < resume}
                         \cup Replay!Asked(mode, resume, count, steps)
      /\ \A i \in resume .. count - 1 : new.made[i] = id /\ new.sources[i] = mode
      /\ \A i \in 0 .. resume - 1 :
           new.made[i] = from.made[i] /\ new.sources[i] = from.sources[i]
           /\ new.done[i] = from.done[i]
  BY <1>1, <1>c DEF RecordedAs
<1>3. RunOK(f, source)
  OBVIOUS
<1>4. ASSUME NEW s \in from.segments
      PROVE  /\ SegmentOK(f, from, s) /\ s \in SegmentSet /\ s.start < s.end /\ s.end <= from.count
             /\ s.start \in Nat /\ s.end \in Nat
             /\ clip(s) \in SegmentSet /\ clip(s).start = s.start /\ clip(s).origin = s.origin
             /\ clip(s).steps = s.steps
             /\ clip(s).end = IF resume <= s.end THEN resume ELSE s.end
  <2>1. SegmentOK(f, from, s) /\ s \in SegmentSet /\ s.start < s.end /\ s.end <= from.count
    BY <1>3 DEF RunOK, SegmentOK
  <2>2. Replay!Min({resume, s.end}) = IF resume <= s.end THEN resume ELSE s.end
    BY <2>1 DEF Replay!Min, SegmentSet
  <2> QED
    BY <2>1, <2>2 DEF SegmentSet
<1>5. Replay!PrefixSegments(from, resume) = {clip(s) : s \in {t \in from.segments : t.start < resume}}
  BY DEF Replay!PrefixSegments
<1> HIDE DEF own, new, from, clip
<1>6. \A t \in new.segments :
        t = own \/ \E s \in from.segments : s.start < resume /\ t = clip(s)
  BY <1>2, <1>5
<1>7. /\ own \in new.segments
      /\ \A s \in from.segments : s.start < resume => clip(s) \in new.segments
  BY <1>2, <1>5
<1>8. /\ own \in SegmentSet /\ own.start = resume /\ own.end = count /\ own.origin = id
      /\ own.steps = steps
  BY <1>1 DEF SegmentSet, own
<1>9. from.queries \subseteq Nat /\ from.count \in Nat
  BY <1>3, RunBasics DEF RunOK, from
<1>10. Replay!Asked(mode, resume, count, steps)
         = IF mode = "human" \/ ~queried THEN {}
           ELSE {i \in resume .. count : (i - resume) % steps = 0}
  BY DEF Replay!Asked
<1>11. ASSUME NEW s \in from.segments, s.start < resume
       PROVE  SegmentOK(g, new, clip(s))
  <2> DEFINE c == clip(s)
  <2>1. /\ c \in SegmentSet /\ c.start = s.start /\ c.origin = s.origin /\ c.steps = s.steps
        /\ c.start \in Nat /\ c.end \in Nat /\ c.start < c.end /\ c.end <= resume /\ c.end <= s.end
        /\ c.end = resume \/ c.end = s.end
    BY <1>4, <1>11
  <2>2. s.origin \in DOMAIN f /\ s.origin \in DOMAIN g /\ g[s.origin] = f[s.origin]
    BY <1>4 DEF SegmentOK
  <2>3. /\ c.start = g[c.origin].resume /\ c.steps = g[c.origin].steps
        /\ s.end \in Nat /\ s.end <= f[s.origin].count
    BY <1>4, <2>1, <2>2 DEF SegmentOK
  <2>4. f[s.origin].count \in Nat
    BY <2>2, RunBasics
  <2>5. c.end <= new.count /\ c.end <= g[c.origin].count
    BY <1>1, <1>2, <2>1, <2>2, <2>3, <2>4
  <2> HIDE DEF c
  <2>6. ASSUME NEW i \in c.start .. c.end - 1
        PROVE  new.made[i] = c.origin /\ new.sources[i] = g[c.origin].sources[c.start]
    <3>1. i \in s.start .. s.end - 1 /\ i \in 0 .. resume - 1
      BY <2>1, <2>3
    <3> QED
      BY <3>1, <1>2, <1>4, <2>1, <2>2 DEF SegmentOK
  <2>7. ASSUME NEW i \in 0 .. c.end - 1 PROVE new.done[i] = g[c.origin].done[i]
    <3>1. i \in 0 .. s.end - 1 /\ i \in 0 .. resume - 1
      BY <2>1, <2>3
    <3> QED
      BY <3>1, <1>2, <1>4, <2>1, <2>2 DEF SegmentOK
  <2>8. \E t \in new.segments : t.start = c.end
    <3>1. CASE c.end = resume
      BY <3>1, <1>7, <1>8
    <3>2. CASE c.end # resume
      <4>1. c.end = s.end /\ s.end < resume /\ s.end # from.count
        BY <3>2, <2>1, <2>3, <1>9 DEF from
      <4>2. PICK t \in from.segments : t.start = s.end
        BY <4>1, <1>4 DEF SegmentOK
      <4> QED
        BY <4>1, <4>2, <1>4, <1>7
    <3> QED
      BY <3>1, <3>2
  <2>9. ASSUME NEW q \in c.start .. c.end - 1
        PROVE  q \in new.queries <=> /\ queried /\ g[c.origin].sources[c.start] # "human"
                                     /\ (q - c.start) % c.steps = 0
    <3>1. q \in s.start .. s.end - 1 /\ q < resume /\ q \notin resume .. count
      BY <1>1, <2>1, <2>3
    <3>2. q \in new.queries <=> q \in from.queries
      BY <3>1, <1>2, <1>10
    <3> QED
      BY <3>1, <3>2, <1>4, <2>1, <2>2 DEF SegmentOK
  <2>10. SegmentOK(g, new, c)
    BY <2>1, <2>2, <2>3, <2>5, <2>6, <2>7, <2>8, <2>9 DEF SegmentOK
  <2> QED
    BY <2>10 DEF c
<1>12. SegmentOK(g, new, own)
  <2>1. resume \in resume .. count - 1
    BY <1>1
  <2>2. \A q \in resume .. count - 1 : ~(q < resume) /\ q \in resume .. count
    BY <1>1
  <2>3. \A q \in resume .. count - 1 :
          q \in new.queries <=> queried /\ mode # "human" /\ (q - resume) % steps = 0
    BY <1>2, <1>10, <2>2
  <2>4. new.sources[resume] = mode /\ g[id] = new /\ id \in DOMAIN g
    BY <1>2, <2>1 DEF new
  <2> QED
    BY <1>1, <1>2, <1>8, <2>3, <2>4 DEF SegmentOK
<1>13. \A s \in new.segments : SegmentOK(g, new, s)
  BY <1>6, <1>11, <1>12
<1>14. ASSUME NEW h \in new.handoffs PROVE \E t \in new.segments : t.start = h
  <2>1. CASE h = resume
    BY <2>1, <1>7, <1>8
  <2>2. CASE h \in from.handoffs /\ h <= resume /\ h # resume
    <3>1. PICK t \in from.segments : t.start = h
      BY <2>2, <1>3 DEF RunOK, from
    <3>2. t.start < resume
      BY <2>2, <3>1, <1>4
    <3> QED
      BY <3>1, <3>2, <1>4, <1>7
  <2> QED
    BY <2>1, <2>2, <1>2 DEF Replay!Handoffs
<1>15. ASSUME NEW s \in new.segments, NEW t \in new.segments, s.origin = t.origin
       PROVE  s = t
  <2>1. \A x \in from.segments : clip(x).origin = x.origin /\ x.origin \in DOMAIN f
    BY <1>4 DEF SegmentOK
  <2>2. \A x, y \in from.segments : x.origin = y.origin => x = y
    BY <1>3 DEF RunOK, from
  <2> QED
    BY <1>6, <1>8, <1>15, <2>1, <2>2
<1>16. ASSUME NEW i \in 0 .. count - 1 PROVE \E s \in new.segments : In(s, i)
  <2>1. CASE resume <= i
    BY <2>1, <1>1, <1>7, <1>8 DEF In
  <2>2. CASE i < resume
    <3>1. i \in 0 .. f[source].count - 1
      BY <2>2, <1>1, <1>9 DEF from
    <3>2. PICK s \in from.segments : In(s, i)
      BY <3>1, <1>3 DEF RunOK, from
    <3>3. s.start < resume /\ In(clip(s), i)
      BY <2>2, <3>2, <1>1, <1>4 DEF In
    <3> QED
      BY <3>3, <1>7
  <2> QED
    BY <2>1, <2>2, <1>1
<1>17. new.queries \subseteq Nat
  BY <1>1, <1>2, <1>9, <1>10
<1>18. g[id] = new
  BY DEF new
<1> QED
  BY <1>1, <1>2, <1>7, <1>8, <1>13, <1>14, <1>15, <1>16, <1>17, <1>18 DEF RunOK

replayVars == <<runs, prepared, queried, old>>

LEMMA ReplayInit == ASSUME Replay!Init PROVE ReplayIInv
BY DEF Replay!Init, ReplayIInv

LEMMA RunNext ==
  ASSUME NEW r, RunOK(runs', r), queried' = queried
  PROVE  RunOK(runs, r)'
BY DEF RunOK, SegmentOK

LEMMA Added ==
  ASSUME ReplayIInv, NEW id, NEW new, Replay!Add(id, new), id \notin DOMAIN runs,
         RunOK(runs', id)
  PROVE  ReplayIInv'
<1>1. /\ DOMAIN runs' = DOMAIN runs \cup {id} /\ queried' = queried
      /\ runs'[id] = new /\ prepared'[id] = Replay!Chunks(new)
      /\ \A q \in DOMAIN runs : runs'[q] = runs[q] /\ prepared'[q] = prepared[q]
  BY DEF Replay!Add
<1>2. ASSUME NEW q \in DOMAIN runs PROVE RunOK(runs', q) /\ PreparedOK(runs'[q], prepared'[q])
  <2>1. RunOK(runs, q) /\ PreparedOK(runs[q], prepared[q])
    BY DEF ReplayIInv
  <2>2. \A p \in DOMAIN runs : SameRun(runs[p], runs'[p])
    BY <1>1 DEF SameRun
  <2>3. DOMAIN runs \subseteq DOMAIN runs'
    BY <1>1
  <2>4. RunOK(runs', q)
    BY <2>1, <2>2, <2>3, RunKept
  <2> QED
    BY <1>1, <2>1, <2>4
<1>3. PreparedOK(runs'[id], prepared'[id])
  BY <1>1, ChunksPrepared
<1>4. \A q \in DOMAIN runs' : RunOK(runs', q) /\ PreparedOK(runs'[q], prepared'[q])
  BY <1>1, <1>2, <1>3
<1>5. \A q \in DOMAIN runs' : RunOK(runs, q)'
  BY <1>1, <1>4, RunNext
<1>6. \A q \in DOMAIN runs' : PreparedOK(runs[q], prepared[q])'
  BY <1>4 DEF PreparedOK, Cuts, OnGrid, Replay!SuccessEnd
<1> QED
  BY <1>5, <1>6 DEF ReplayIInv

LEMMA OriginalKeeps ==
  ASSUME ReplayIInv, NEW steps \in Steps, NEW count \in Lengths, NEW done,
         Replay!RecordOriginal(steps, count, done)
  PROVE  ReplayIInv'
<1> DEFINE new == Replay!Recording(Original, Replay!Nothing, 0, "policy", steps, count, done)
<1>1. DOMAIN runs = {} /\ Replay!Add(Original, new)
  BY DEF Replay!RecordOriginal
<1> HIDE DEF new
<1>2. DOMAIN runs' = {Original} /\ runs'[Original] = new
  BY <1>1 DEF Replay!Add
<1>3. RunOK(runs', Original)
  BY <1>2, OriginalRecorded DEF new
<1> QED
  BY <1>1, <1>3, Added

LEMMA BranchKeeps ==
  ASSUME ReplayIInv, NEW id \in Branches \ DOMAIN runs, NEW source \in DOMAIN runs,
         NEW resume \in Resumes, NEW mode, NEW steps \in Steps, NEW count \in Lengths, NEW done,
         Replay!Continue(id, source, resume, mode, steps, count, done)
  PROVE  ReplayIInv'
<1> DEFINE new == Replay!Recording(id, runs[source], resume, mode, steps, count, done)
<1>1. resume <= runs[source].count /\ resume < count /\ Replay!Add(id, new)
  BY DEF Replay!Continue
<1> HIDE DEF new
<1>2. /\ DOMAIN runs' = DOMAIN runs \cup {id} /\ runs'[id] = new
      /\ \A q \in DOMAIN runs : runs'[q] = runs[q]
  BY <1>1 DEF Replay!Add
<1>3. resume \in Nat /\ \A q \in DOMAIN runs : RunOK(runs, q)
  BY ReplayConstants DEF ReplayIInv
<1>4. RunOK(runs', id)
  BY <1>1, <1>2, <1>3, BranchRecorded DEF new
<1> QED
  BY <1>1, <1>4, Added

LEMMA PromoteKeeps ==
  ASSUME ReplayIInv, NEW id \in DOMAIN runs, Replay!Promote(id)
  PROVE  ReplayIInv'
<1>1. /\ runs' = [runs EXCEPT ![id].promoted = TRUE]
      /\ prepared' = prepared /\ queried' = queried
  BY DEF Replay!Promote
<1>2. DOMAIN runs' = DOMAIN runs /\ \A q \in DOMAIN runs : SameRun(runs[q], runs'[q])
  BY <1>1 DEF SameRun
<1>3. ASSUME NEW q \in DOMAIN runs PROVE RunOK(runs', q) /\ PreparedOK(runs'[q], prepared'[q])
  <2>1. RunOK(runs, q) /\ PreparedOK(runs[q], prepared[q])
    BY DEF ReplayIInv
  <2>2. RunOK(runs', q)
    BY <2>1, <1>2, RunKept
  <2>3. PreparedOK(runs'[q], prepared[q])
    BY <2>1, <1>2, PreparedKept
  <2> QED
    BY <1>1, <2>2, <2>3
<1>4. \A q \in DOMAIN runs' : RunOK(runs, q)'
  BY <1>1, <1>2, <1>3, RunNext
<1>5. \A q \in DOMAIN runs' : PreparedOK(runs[q], prepared[q])'
  BY <1>2, <1>3 DEF PreparedOK, Cuts, OnGrid, Replay!SuccessEnd
<1> QED
  BY <1>4, <1>5 DEF ReplayIInv

LEMMA ReplayStep == ASSUME ReplayIInv, [Replay!Next]_replayVars PROVE ReplayIInv'
<1>1. CASE Replay!Next
  <2>1. CASE \E steps \in Steps, count \in Lengths, done \in DoneFrom \cup {Replay!NoStep} :
               Replay!RecordOriginal(steps, count, done)
    BY <2>1, OriginalKeeps
  <2>2. CASE \E id \in Branches \ DOMAIN runs, source \in DOMAIN runs, resume \in Resumes,
                mode \in {"human", "policy_requery"}, steps \in Steps, count \in Lengths,
                done \in DoneFrom \cup {Replay!NoStep} :
               Replay!Continue(id, source, resume, mode, steps, count, done)
    BY <2>2, BranchKeeps
  <2>3. CASE \E id \in DOMAIN runs : Replay!Promote(id)
    BY <2>3, PromoteKeeps
  <2> QED
    BY <1>1, <2>1, <2>2, <2>3 DEF Replay!Next
<1>2. CASE UNCHANGED replayVars
  <2>1. runs' = runs /\ prepared' = prepared /\ queried' = queried
    BY <1>2 DEF replayVars
  <2>2. \A q \in DOMAIN runs : RunOK(runs, q)' /\ PreparedOK(runs[q], prepared[q])'
    BY <2>1, RunNext DEF ReplayIInv, PreparedOK, Cuts, OnGrid, Replay!SuccessEnd
  <2> QED
    BY <2>1, <2>2 DEF ReplayIInv
<1> QED
  BY <1>1, <1>2
-----------------------------------------------------------------------------
(* The chunks of the recordings.                                           *)

LEMMA OwnPart ==
  ASSUME NEW f, NEW r, RunOK(f, r)
  PROVE  \A s \in f[r].segments :
           /\ s.origin = r => s.start = f[r].resume
           /\ s.origin # r => s.end <= f[r].resume /\ f[r].kind = "branch"
<1>1. PICK own \in f[r].segments : own.origin = r /\ own.end = f[r].count
  BY DEF RunOK
<1>2. own.start = f[r].resume
  BY <1>1 DEF RunOK, SegmentOK
<1>3. f[r].count \in Nat /\ f[r].resume \in Nat /\ f[r].resume < f[r].count
  BY RunBasics
<1>4. ASSUME NEW s \in f[r].segments, s.origin # r
      PROVE  s.end <= f[r].resume /\ f[r].kind = "branch"
  <2>1. s.start \in Nat /\ s.end \in Nat /\ s.start < s.end /\ s.end <= f[r].count
    BY RunBasics
  <2>2. ~(f[r].resume < s.end)
    <3>1. f[r].resume < s.end => s.end - 1 \in Nat /\ In(own, s.end - 1) /\ In(s, s.end - 1)
      BY <1>1, <1>2, <1>3, <2>1 DEF In
    <3> QED
      BY <3>1, <1>1, <1>4, RunBasics
  <2>3. s.end <= f[r].resume /\ f[r].resume # 0
    BY <1>3, <2>1, <2>2
  <2> QED
    BY <2>3 DEF RunOK
<1>5. \A s \in f[r].segments : s.origin = r => s = own
  BY <1>1 DEF RunOK
<1> QED
  BY <1>2, <1>4, <1>5

\* The actions of a chunk: all of one run, under one kind of control.
LEMMA ChunkOf ==
  ASSUME ReplayIInv, NEW r \in DOMAIN runs, NEW c \in prepared[r]
  PROVE  /\ r \in Nat /\ c.start \in Nat /\ c.end \in Nat /\ c.start < c.end
         /\ c.start < runs[r].count /\ c.end <= runs[r].count /\ runs[r].count \in Nat
         /\ c.origin \in DOMAIN runs
         /\ c.source = runs[c.origin].sources[runs[c.origin].resume]
         /\ \A i \in c.start .. c.end - 1 :
              runs[r].made[i] = c.origin /\ runs[r].sources[i] = c.source
         /\ c.copied <=> c.origin # r
         /\ \E s \in runs[r].segments :
              /\ In(s, c.start) /\ c.end <= s.end /\ s.origin = c.origin
              /\ c.source = runs[r].sources[s.start]
<1>1. RunOK(runs, r) /\ PreparedOK(runs[r], prepared[r])
  BY DEF ReplayIInv
<1>2. /\ c.start \in Cuts(runs[r]) /\ c.end \in Cuts(runs[r]) /\ c.start < c.end
      /\ \A x \in Cuts(runs[r]) : ~(c.start < x /\ x < c.end)
      /\ c.source = runs[r].sources[c.start] /\ c.origin = runs[r].made[c.start]
      /\ c.copied = (runs[r].kind = "branch" /\ c.end <= runs[r].resume)
  BY <1>1 DEF PreparedOK
<1>3. /\ c.start \in 0 .. runs[r].count /\ c.end \in 0 .. runs[r].count
      /\ runs[r].count \in Nat \ {0} /\ runs[r].resume \in Nat /\ runs[r].resume < runs[r].count
  BY <1>1, <1>2, CutsIn, RunBasics
<1>4. c.start \in 0 .. runs[r].count - 1 /\ c.start \in Nat
  BY <1>2, <1>3
<1>5. PICK s \in runs[r].segments : In(s, c.start)
  BY <1>1, <1>4 DEF RunOK
<1>6. s.start \in Nat /\ s.end \in Nat /\ s.end \in Cuts(runs[r]) /\ s.start < s.end
  BY <1>1, RunBasics, CutsIn
<1>7. c.end <= s.end
  BY <1>2, <1>3, <1>5, <1>6 DEF In
<1>8. SegmentOK(runs, runs[r], s)
  BY <1>1 DEF RunOK
<1>9. \A i \in s.start .. s.end - 1 :
        runs[r].made[i] = s.origin /\ runs[r].sources[i] = runs[s.origin].sources[s.start]
  BY <1>8 DEF SegmentOK
<1>10. /\ c.start \in s.start .. s.end - 1 /\ s.start \in s.start .. s.end - 1
       /\ \A i \in c.start .. c.end - 1 : i \in s.start .. s.end - 1
  BY <1>3, <1>5, <1>6, <1>7 DEF In
<1>11. /\ c.origin = s.origin /\ c.source = runs[s.origin].sources[s.start]
       /\ c.source = runs[r].sources[s.start]
  BY <1>2, <1>9, <1>10
<1>12. s.origin \in DOMAIN runs /\ s.start = runs[s.origin].resume
  BY <1>8 DEF SegmentOK
<1>13. c.copied <=> c.origin # r
  <2>1. CASE s.origin = r
    <3>1. runs[r].resume <= c.start
      BY <1>1, <1>5, <2>1, OwnPart DEF In
    <3>2. ~(c.end <= runs[r].resume)
      BY <3>1, <1>2, <1>3
    <3> QED
      BY <2>1, <3>2, <1>2, <1>11
  <2>2. CASE s.origin # r
    <3>1. s.end <= runs[r].resume /\ runs[r].kind = "branch"
      BY <1>1, <2>2, OwnPart
    <3>2. c.end <= runs[r].resume
      BY <3>1, <1>3, <1>6, <1>7
    <3> QED
      BY <2>2, <3>1, <3>2, <1>2, <1>11
  <2> QED
    BY <2>1, <2>2
<1>14. r \in Nat
  BY <1>1, ReplayConstants DEF RunOK
<1>15. c.start < runs[r].count /\ c.end <= runs[r].count /\ c.end \in Nat
  BY <1>3, <1>4
<1> QED
  BY <1>2, <1>3, <1>4, <1>5, <1>7, <1>9, <1>10, <1>11, <1>12, <1>13, <1>14, <1>15

LEMMA AlignedAll == ASSUME ReplayIInv, NEW r \in DOMAIN runs PROVE Replay!Aligned(r)
<1> DEFINE n == runs[r].count
           C == Cuts(runs[r])
           chunks == prepared[r]
           starts == {c.start : c \in chunks}
           ends == {c.end : c \in chunks}
<1>1. RunOK(runs, r)
  BY DEF ReplayIInv
<1>2. /\ C \in SUBSET (0..n) /\ n \in C /\ 0 \in C /\ n \in Nat \ {0}
  BY <1>1, CutsIn, RunBasics
<1>3. /\ \A c \in chunks : /\ c.start \in C /\ c.end \in C /\ c.start < c.end
                           /\ \A x \in C : ~(c.start < x /\ x < c.end)
      /\ \A x \in C : x < n => \E c \in chunks : c.start = x
      /\ \A c, d \in chunks : c.start = d.start => c = d
  BY DEF ReplayIInv, PreparedOK
<1>4. \A x \in C : x \in Nat /\ x <= n
  BY <1>2
<1> HIDE DEF n, C, chunks
<1>5. Cardinality(starts) = Cardinality(chunks)
  <2> DEFINE at == [x \in starts |-> CHOOSE c \in chunks : c.start = x]
  <2>1. \A x \in starts : at[x] \in chunks /\ at[x].start = x
    OBVIOUS
  <2>2. at \in [starts -> chunks]
    BY <2>1
  <2>3. \A c \in chunks : c.start \in starts /\ at[c.start] = c
    BY <2>1, <1>3
  <2>4. \A x, y \in starts : at[x] = at[y] => x = y
    BY <2>1
  <2> HIDE DEF at
  <2>5. at \in Bijection(starts, chunks)
    BY <2>2, <2>3, <2>4 DEF Bijection, Injection, Surjection, IsInjective
  <2>6. IsFiniteSet(starts)
    <3>0. \A x \in starts : x \in C
      BY <1>3
    <3>1. starts \in SUBSET (0..n)
      <4> HIDE DEF starts
      <4> QED
        BY <3>0, <1>2
    <3>2. IsFiniteSet(0..n)
      BY <1>2, FS_Interval
    <3> HIDE DEF starts
    <3> QED
      BY <3>1, <3>2, FS_Subset
  <2> HIDE DEF starts
  <2> QED
    BY <2>5, <2>6, FS_Bijection DEF ExistsBijection
<1>6. ASSUME NEW x \in C, x # 0 PROVE x \in ends
  <2> DEFINE T == {y \in C : y < x}
  <2>a. x \in Nat /\ 0 < x /\ 0 \in C
    BY <1>2, <1>4, <1>6
  <2>1. T \in SUBSET (0..n) /\ T # {}
    BY <1>2, <2>a
  <2>2. PICK y \in T : \A z \in T : y >= z
    <3> HIDE DEF T
    <3> QED
      BY <2>1, <1>2, GreatestOf
  <2>3. y \in C /\ y < x /\ y < n
    BY <1>2, <1>4, <2>2
  <2>4. PICK c \in chunks : c.start = y
    BY <1>3, <2>3
  <2>5. c.end \in C /\ y < c.end /\ ~(y < x /\ x < c.end)
    BY <1>3, <1>6, <2>4
  <2>6. ~(c.end < x)
    <3>1. c.end < x => c.end \in T
      BY <2>5
    <3> QED
      BY <3>1, <1>4, <2>2, <2>3, <2>5
  <2>7. c.end = x
    BY <1>4, <2>3, <2>5, <2>6
  <2> QED
    BY <2>7
<1>7. starts \cup {n} = ends \cup {0}
  <2>1. \A x \in starts : x \in C
    BY <1>3
  <2>2. \A x \in ends : x \in C
    BY <1>3
  <2>3. \A x \in C : x = n \/ x \in starts
    BY <1>3, <1>4, <1>2
  <2>4. n # 0
    BY <1>2
  <2> HIDE DEF starts, ends
  <2> QED
    BY <2>1, <2>2, <2>3, <2>4, <1>2, <1>6
<1>8. \A c \in chunks : c.start < c.end /\ \A s \in starts : ~(c.start < s /\ s < c.end)
  BY <1>3
<1>a. \A S : Replay!Cardinality(S) = Cardinality(S)
  BY DEF Replay!Cardinality, Cardinality
<1>9. Replay!Aligned(r)
        <=> /\ Replay!Cardinality(starts) = Replay!Cardinality(chunks)
            /\ starts \cup {n} = ends \cup {0}
            /\ \A c \in chunks : c.start < c.end /\ \A s \in starts : ~(c.start < s /\ s < c.end)
  BY DEF Replay!Aligned, n, chunks
<1> HIDE DEF starts, ends
<1> QED
  BY <1>5, <1>7, <1>8, <1>9, <1>a
-----------------------------------------------------------------------------
(* The replay of a selection.                                              *)

LEMMA ReplayEndOf ==
  ASSUME ReplayIInv, NEW r \in DOMAIN runs, NEW postSuccess \in BOOLEAN
  PROVE  /\ Replay!ReplayEnd(runs[r], postSuccess) \in 1 .. runs[r].count
         /\ Replay!ReplayEnd(runs[r], TRUE) = runs[r].count /\ runs[r].count \in Nat
BY RunBasics DEF ReplayIInv, Replay!ReplayEnd

LEMMA ReplayedOf ==
  ASSUME NEW S \in SUBSET DOMAIN runs, NEW postSuccess \in BOOLEAN, NEW x
  PROVE  x \in Replay!Replayed(S, postSuccess)
           <=> /\ x = <<x[1], x[2]>> /\ x[1] \in S /\ x[2] \in prepared[x[1]]
               /\ x[2].end <= Replay!ReplayEnd(runs[x[1]], postSuccess)
<1>1. x \in Replay!Replayed(S, postSuccess)
        <=> \E r \in S : \E c \in Replay!InReplay(r, postSuccess) : x = <<r, c>>
  BY DEF Replay!Replayed
<1>2. \A r, c : c \in Replay!InReplay(r, postSuccess)
        <=> c \in prepared[r] /\ c.end <= Replay!ReplayEnd(runs[r], postSuccess)
  BY DEF Replay!InReplay
<1> QED
  BY <1>1, <1>2

\* Chunks of one key are the same executed actions, and the other way round.
LEMMA SameKey ==
  ASSUME ReplayIInv, NEW r \in DOMAIN runs, NEW s \in DOMAIN runs,
         NEW c \in prepared[r], NEW d \in prepared[s]
  PROVE  Replay!Same(<<r, c>>, <<s, d>>) <=> Replay!Key(c) = Replay!Key(d)
<1>1. /\ c.start \in Nat /\ c.end \in Nat /\ c.start < c.end
      /\ c.source = runs[c.origin].sources[runs[c.origin].resume]
      /\ \A i \in c.start .. c.end - 1 : runs[r].made[i] = c.origin
  BY ChunkOf
<1>2. /\ d.start \in Nat /\ d.end \in Nat /\ d.start < d.end
      /\ d.source = runs[d.origin].sources[runs[d.origin].resume]
      /\ \A i \in d.start .. d.end - 1 : runs[s].made[i] = d.origin
  BY ChunkOf
<1>3. Replay!Key(c) = Replay!Key(d)
        <=> c.origin = d.origin /\ c.start = d.start /\ c.end = d.end /\ c.source = d.source
  BY DEF Replay!Key
<1>4. Replay!Same(<<r, c>>, <<s, d>>)
        <=> /\ c.start = d.start /\ c.end = d.end
            /\ \A i \in c.start .. c.end - 1 : runs[r].made[i] = runs[s].made[i]
  BY DEF Replay!Same
<1>5. c.start \in c.start .. c.end - 1
  BY <1>1
<1>6. ASSUME c.start = d.start, c.end = d.end
      PROVE  (\A i \in c.start .. c.end - 1 : runs[r].made[i] = runs[s].made[i])
               <=> c.origin = d.origin
  BY <1>1, <1>2, <1>5, <1>6
<1>7. c.origin = d.origin => c.source = d.source
  BY <1>1, <1>2
<1> QED
  BY <1>3, <1>4, <1>6, <1>7

LEMMA OneChunk ==
  ASSUME ReplayIInv, NEW r \in DOMAIN runs, NEW c \in prepared[r], NEW d \in prepared[r],
         Replay!Key(c) = Replay!Key(d)
  PROVE  c = d
<1>1. c.start = d.start
  BY DEF Replay!Key
<1> QED
  BY <1>1 DEF ReplayIInv, PreparedOK

\* Of the eligible chunks of a key exactly one is first.
LEMMA FirstOf ==
  ASSUME ReplayIInv, NEW S \in SUBSET DOMAIN runs, NEW postSuccess \in BOOLEAN,
         NEW E \in SUBSET Replay!Replayed(S, postSuccess), NEW x \in E
  PROVE  /\ \E y \in E : Replay!Key(y[2]) = Replay!Key(x[2]) /\ Replay!FirstOfItsKey(E, y)
         /\ \A y \in E : /\ Replay!Key(y[2]) = Replay!Key(x[2])
                         /\ Replay!FirstOfItsKey(E, x) /\ Replay!FirstOfItsKey(E, y)
                         => y = x
<1>1. \A y \in E : /\ y = <<y[1], y[2]>> /\ y[1] \in DOMAIN runs /\ y[2] \in prepared[y[1]]
                   /\ y[1] \in Nat
  BY ReplayedOf, ChunkOf
<1>2. Original \in Nat
  BY ReplayConstants
<1> DEFINE same == {y \in E : Replay!Key(y[2]) = Replay!Key(x[2])}
<1>3. \E y \in E : Replay!Key(y[2]) = Replay!Key(x[2]) /\ Replay!FirstOfItsKey(E, y)
  <2>1. ASSUME NEW y \in same, \A z \in same : ~Replay!Earlier(z[1], y[1])
        PROVE  Replay!FirstOfItsKey(E, y) /\ Replay!Key(y[2]) = Replay!Key(x[2]) /\ y \in E
    BY <2>1 DEF Replay!FirstOfItsKey
  <2>2. CASE \E y \in same : y[1] = Original
    BY <2>1, <2>2 DEF Replay!Earlier
  <2>3. CASE ~\E y \in same : y[1] = Original
    <3> DEFINE ids == {y[1] : y \in same}
    <3>1. ids \in SUBSET Nat
      BY <1>1
    <3>2. x[1] \in ids
      OBVIOUS
    <3>3. PICK n \in ids : \A m \in ids : n <= m
      <4> HIDE DEF ids
      <4> QED
        BY <3>1, <3>2, LeastOf
    <3>4. PICK y \in same : y[1] = n
      BY <3>3
    <3>5. ASSUME NEW z \in same PROVE ~Replay!Earlier(z[1], y[1])
      <4>1. z[1] \in ids /\ z[1] # Original /\ z[1] \in Nat /\ n \in Nat
        BY <2>3, <3>1, <3>3
      <4>2. n <= z[1]
        BY <3>3, <4>1
      <4>3. ~(z[1] < y[1])
        BY <3>4, <4>1, <4>2
      <4> QED
        BY <4>1, <4>3 DEF Replay!Earlier
    <3> QED
      BY <2>1, <3>5
  <2> QED
    BY <2>2, <2>3
<1>4. ASSUME NEW y \in E, Replay!Key(y[2]) = Replay!Key(x[2]),
             Replay!FirstOfItsKey(E, x), Replay!FirstOfItsKey(E, y)
      PROVE  y = x
  <2>1. ~Replay!Earlier(x[1], y[1]) /\ ~Replay!Earlier(y[1], x[1])
    BY <1>4 DEF Replay!FirstOfItsKey
  <2>2. x[1] \in Nat /\ y[1] \in Nat
    BY <1>1
  <2>3. x[1] = y[1]
    BY <2>1, <2>2, <1>2 DEF Replay!Earlier
  <2>4. x[2] = y[2]
    BY <2>3, <1>1, <1>4, OneChunk
  <2> QED
    BY <2>3, <2>4, <1>1
<1> QED
  BY <1>3, <1>4

LEMMA UniqueOf ==
  ASSUME ReplayIInv, NEW S \in SUBSET DOMAIN runs, NEW postSuccess \in BOOLEAN
  PROVE  /\ \A x \in Replay!Unique(S, postSuccess) :
              /\ x \in Replay!Replayed(S, postSuccess)
              /\ x = <<x[1], x[2]>> /\ x[1] \in DOMAIN runs /\ x[2] \in prepared[x[1]]
         /\ \A x, y \in Replay!Unique(S, postSuccess) :
              Replay!Key(x[2]) = Replay!Key(y[2]) => x = y
         /\ \A x \in Replay!Replayed(S, postSuccess) :
              \E y \in Replay!Unique(S, postSuccess) : Replay!Key(x[2]) = Replay!Key(y[2])
         /\ Replay!Counted(S, postSuccess) = Replay!Unique(S, postSuccess)
<1> DEFINE R == Replay!Replayed(S, postSuccess)
           E == Replay!Eligible(S, postSuccess)
           U == Replay!Unique(S, postSuccess)
           copiedIn(X) == {Replay!Key(x[2]) : x \in {y \in X : y[2].copied}}
           all == Replay!Replayed(S, TRUE)
<1>1. U = {x \in E : Replay!Key(x[2]) \in copiedIn(all) => Replay!FirstOfItsKey(E, x)}
  BY DEF Replay!Unique
<1>2. Replay!Counted(S, postSuccess)
        = {x \in E : Replay!Key(x[2]) \in copiedIn(R) => Replay!FirstOfItsKey(E, x)}
  BY DEF Replay!Counted
<1>3. E = {x \in R : x[2].copied => Replay!Key(x[2]) \notin Replay!Produced(S, postSuccess)}
  BY DEF Replay!Eligible
<1>4. Replay!Produced(S, postSuccess) = {Replay!Key(x[2]) : x \in {y \in R : ~y[2].copied}}
  BY DEF Replay!Produced
<1>5. ASSUME NEW x \in R
      PROVE  /\ x = <<x[1], x[2]>> /\ x[1] \in DOMAIN runs /\ x[2] \in prepared[x[1]]
             /\ x \in all
  <2>1. /\ x = <<x[1], x[2]>> /\ x[1] \in S /\ x[2] \in prepared[x[1]]
    BY ReplayedOf
  <2>2. x[2].end <= runs[x[1]].count
    BY <2>1, ChunkOf
  <2>3. x[2].end <= Replay!ReplayEnd(runs[x[1]], TRUE)
    BY <2>1, <2>2, ReplayEndOf
  <2> QED
    BY <2>1, <2>3, ReplayedOf
<1> HIDE DEF R, E, U, all
<1>6. \A X, k : k \in copiedIn(X) <=> \E y \in X : y[2].copied /\ k = Replay!Key(y[2])
  OBVIOUS
<1> HIDE DEF copiedIn
<1>7. \A k : k \in copiedIn(R) => k \in copiedIn(all)
  BY <1>5, <1>6
<1>8. \A k : k \in Replay!Produced(S, postSuccess)
             <=> \E y \in R : ~y[2].copied /\ k = Replay!Key(y[2])
  BY <1>4
<1>9. E \in SUBSET R
  BY <1>3
\* Two chunks of one key that nobody copied are one.
<1>10. ASSUME NEW x \in R, NEW y \in R, ~x[2].copied, ~y[2].copied,
              Replay!Key(x[2]) = Replay!Key(y[2])
       PROVE  x = y
  <2>1. x[2].origin = x[1] /\ y[2].origin = y[1]
    BY <1>5, <1>10, ChunkOf
  <2>2. x[2].origin = y[2].origin
    BY <1>10 DEF Replay!Key
  <2>3. x[1] = y[1]
    BY <2>1, <2>2
  <2>4. x[2] = y[2]
    BY <2>3, <1>5, <1>10, OneChunk
  <2> QED
    BY <2>3, <2>4, <1>5
\* One that its own run is there for is the only one that is eligible.
<1>11. ASSUME NEW x \in R, ~x[2].copied
       PROVE  /\ x \in E
              /\ \A y \in E : Replay!Key(y[2]) = Replay!Key(x[2]) => y = x
  <2>1. x \in E
    BY <1>3, <1>11
  <2>2. Replay!Key(x[2]) \in Replay!Produced(S, postSuccess)
    BY <1>8, <1>11
  <2>3. ASSUME NEW y \in E, Replay!Key(y[2]) = Replay!Key(x[2]) PROVE y = x
    <3>1. ~y[2].copied
      BY <1>3, <2>2, <2>3
    <3> QED
      BY <3>1, <2>3, <1>9, <1>10, <1>11
  <2> QED
    BY <2>1, <2>3
<1>12. ASSUME NEW x \in R PROVE ~Replay!Earlier(x[1], x[1])
  <2>1. x[1] \in Nat
    BY <1>5, ChunkOf
  <2> QED
    BY <2>1 DEF Replay!Earlier
<1>13. ASSUME NEW x \in R, ~x[2].copied PROVE Replay!FirstOfItsKey(E, x)
  BY <1>11, <1>12, <1>13 DEF Replay!FirstOfItsKey
<1>14. \A x \in U : x \in E /\ (Replay!Key(x[2]) \in copiedIn(all) => Replay!FirstOfItsKey(E, x))
  BY <1>1
<1>15. ASSUME NEW x \in U, NEW y \in U, Replay!Key(x[2]) = Replay!Key(y[2]) PROVE x = y
  <2>1. CASE Replay!Key(x[2]) \in copiedIn(all)
    <3>1. x \in E /\ y \in E /\ Replay!FirstOfItsKey(E, x) /\ Replay!FirstOfItsKey(E, y)
      BY <2>1, <1>14, <1>15
    <3> QED
      BY <3>1, <1>9, <1>15, FirstOf DEF R
  <2>2. CASE Replay!Key(x[2]) \notin copiedIn(all)
    <3>1. x \in R /\ y \in R /\ x \in all /\ y \in all
      BY <1>5, <1>9, <1>14
    <3>2. ~x[2].copied /\ ~y[2].copied
      BY <2>2, <3>1, <1>6, <1>15
    <3> QED
      BY <3>1, <3>2, <1>10, <1>15
  <2> QED
    BY <2>1, <2>2
<1>16. ASSUME NEW x \in R PROVE \E y \in U : Replay!Key(x[2]) = Replay!Key(y[2])
  <2>1. CASE \E y \in R : ~y[2].copied /\ Replay!Key(y[2]) = Replay!Key(x[2])
    <3>1. PICK y \in R : ~y[2].copied /\ Replay!Key(y[2]) = Replay!Key(x[2])
      BY <2>1
    <3>2. y \in U
      BY <3>1, <1>1, <1>11, <1>13
    <3> QED
      BY <3>1, <3>2
  <2>2. CASE ~\E y \in R : ~y[2].copied /\ Replay!Key(y[2]) = Replay!Key(x[2])
    <3>1. x \in E
      BY <2>2, <1>3, <1>8
    <3>2. PICK y \in E : Replay!Key(y[2]) = Replay!Key(x[2]) /\ Replay!FirstOfItsKey(E, y)
      BY <3>1, <1>9, FirstOf DEF R
    <3>3. y \in U
      BY <3>2, <1>1
    <3> QED
      BY <3>2, <3>3
  <2> QED
    BY <2>1, <2>2
<1>17. ASSUME NEW x \in E
       PROVE  (Replay!Key(x[2]) \in copiedIn(all) => Replay!FirstOfItsKey(E, x))
                <=> (Replay!Key(x[2]) \in copiedIn(R) => Replay!FirstOfItsKey(E, x))
  <2>1. CASE x[2].copied
    BY <2>1, <1>6, <1>7, <1>9
  <2>2. CASE ~x[2].copied
    BY <2>2, <1>9, <1>13
  <2> QED
    BY <2>1, <2>2
<1>18. Replay!Counted(S, postSuccess) = U
  BY <1>1, <1>2, <1>17
<1>19. \A x \in U : x \in R /\ x = <<x[1], x[2]>> /\ x[1] \in DOMAIN runs /\ x[2] \in prepared[x[1]]
  BY <1>5, <1>9, <1>14
<1> QED
  BY <1>15, <1>16, <1>18, <1>19 DEF U, R

LEMMA TransitionsOnce == ASSUME ReplayIInv PROVE Replay!EachTransitionOnce
<1>1. \A r \in DOMAIN runs : Replay!Aligned(r)
  BY AlignedAll
<1>2. ASSUME NEW S \in SUBSET DOMAIN runs, NEW postSuccess \in BOOLEAN
      PROVE  /\ \A x, y \in Replay!Unique(S, postSuccess) : Replay!Same(x, y) => x = y
             /\ \A x \in Replay!Replayed(S, postSuccess) :
                  \E y \in Replay!Unique(S, postSuccess) : Replay!Same(x, y)
  <2>1. \A x \in Replay!Replayed(S, postSuccess) :
          x = <<x[1], x[2]>> /\ x[1] \in DOMAIN runs /\ x[2] \in prepared[x[1]]
    BY ReplayedOf
  <2>2. \A x \in Replay!Unique(S, postSuccess) : x \in Replay!Replayed(S, postSuccess)
    BY UniqueOf
  <2>3. ASSUME NEW x \in Replay!Replayed(S, postSuccess), NEW y \in Replay!Replayed(S, postSuccess)
        PROVE  Replay!Same(x, y) <=> Replay!Key(x[2]) = Replay!Key(y[2])
    <3>1. Replay!Same(<<x[1], x[2]>>, <<y[1], y[2]>>)
            <=> Replay!Key(x[2]) = Replay!Key(y[2])
      BY <2>1, SameKey
    <3> QED
      BY <3>1, <2>1
  <2> QED
    BY <2>2, <2>3, UniqueOf
<1>3. \A sel \in Replay!Selections :
        sel[1] \in SUBSET DOMAIN runs /\ sel[2] \in BOOLEAN
  BY DEF Replay!Selections
<1> QED
  BY <1>1, <1>2, <1>3 DEF Replay!EachTransitionOnce

\* Two recordings that keep actions of one run cut them at the same steps.
LEMMA CutsAgree ==
  ASSUME ReplayIInv, NEW r \in DOMAIN runs, NEW s \in DOMAIN runs,
         NEW a \in runs[r].segments, NEW b \in runs[s].segments, a.origin = b.origin,
         NEW x \in Nat, a.start <= x, x < a.end, x < b.end, x \in Cuts(runs[r])
  PROVE  x \in Cuts(runs[s])
<1>1. RunOK(runs, r) /\ RunOK(runs, s)
  BY DEF ReplayIInv
<1>2. SegmentOK(runs, runs[r], a) /\ SegmentOK(runs, runs[s], b)
  BY <1>1 DEF RunOK
<1>3. /\ a.start \in Nat /\ a.end \in Nat /\ a.start < a.end /\ a.end <= runs[r].count
      /\ b.start \in Nat /\ b.end \in Nat /\ b.start < b.end /\ b.end <= runs[s].count
      /\ runs[r].count \in Nat \ {0} /\ runs[s].count \in Nat \ {0}
  BY <1>1, RunBasics
<1>4. a.start = b.start /\ a.steps = b.steps /\ runs[r].sources[a.start] = runs[s].sources[b.start]
  <2>1. a.start \in a.start .. a.end - 1 /\ b.start \in b.start .. b.end - 1
    BY <1>3
  <2> QED
    BY <1>2, <2>1 DEF SegmentOK
<1>5. OnGrid(runs[r], a, x)
  <2>1. In(a, x) /\ x # runs[r].count
    BY <1>3 DEF In
  <2>2. PICK t \in runs[r].segments : In(t, x) /\ OnGrid(runs[r], t, x)
    BY <2>1 DEF Cuts
  <2> QED
    BY <1>1, <2>1, <2>2, RunBasics
<1> DEFINE m == IF a.end <= b.end THEN a.end ELSE b.end
<1>6. m \in Nat /\ x < m /\ m <= runs[r].count /\ m <= runs[s].count
  BY <1>3
<1>7. \A j \in 0 .. m - 1 : runs[r].done[j] = runs[s].done[j]
  <2>1. \A j \in 0 .. m - 1 : j \in 0 .. a.end - 1 /\ j \in 0 .. b.end - 1
    BY <1>3
  <2> QED
    BY <2>1, <1>2 DEF SegmentOK
<1> HIDE DEF m
<1>8. /\ Replay!SuccessEnd(runs[r]) < m => Replay!SuccessEnd(runs[s]) = Replay!SuccessEnd(runs[r])
      /\ Replay!SuccessEnd(runs[s]) < m => Replay!SuccessEnd(runs[r]) = Replay!SuccessEnd(runs[s])
  BY <1>3, <1>6, <1>7, SameSuccess
<1>9. Replay!SuccessEnd(runs[r]) \in Nat /\ Replay!SuccessEnd(runs[s]) \in Nat
  BY <1>1, RunBasics
<1>10. /\ x = Replay!SuccessEnd(runs[r]) <=> x = Replay!SuccessEnd(runs[s])
       /\ Replay!SuccessEnd(runs[r]) <= x \/ Replay!SuccessEnd(runs[s]) <= x
            => Replay!SuccessEnd(runs[r]) = Replay!SuccessEnd(runs[s])
  BY <1>6, <1>8, <1>9
<1>11. OnGrid(runs[s], b, x)
  <2>1. CASE Replay!SuccessEnd(runs[r]) = Replay!SuccessEnd(runs[s])
    BY <2>1, <1>4, <1>5 DEF OnGrid
  <2>2. CASE Replay!SuccessEnd(runs[r]) # Replay!SuccessEnd(runs[s])
    <3>1. ~(Replay!SuccessEnd(runs[r]) <= x) /\ ~(Replay!SuccessEnd(runs[s]) <= x)
      BY <2>2, <1>10
    <3>2. x # Replay!SuccessEnd(runs[r])
      BY <3>1, <1>9
    <3>3. (x - a.start) % a.steps = 0
      BY <3>1, <3>2, <1>5 DEF OnGrid
    <3> QED
      BY <3>1, <3>3, <1>4 DEF OnGrid
  <2> QED
    BY <2>1, <2>2
<1>12. In(b, x) /\ x \in 0 .. runs[s].count
  BY <1>3, <1>4 DEF In
<1> QED
  BY <1>11, <1>12 DEF Cuts

\* A chunk that ends before another one over the same action was cut short
\* by the branch that continues its segment.
LEMMA CutShortBy ==
  ASSUME ReplayIInv, NEW r \in DOMAIN runs, NEW s \in DOMAIN runs,
         NEW c \in prepared[r], NEW d \in prepared[s], NEW i \in Nat,
         In(c, i), In(d, i), c.origin = d.origin, c.end < d.end
  PROVE  c.copied /\ \E t \in DOMAIN runs \ {Original} : c.end = runs[t].resume
<1>1. /\ RunOK(runs, r) /\ RunOK(runs, s)
      /\ PreparedOK(runs[r], prepared[r]) /\ PreparedOK(runs[s], prepared[s])
  BY DEF ReplayIInv
<1>2. PICK a \in runs[r].segments : In(a, c.start) /\ c.end <= a.end /\ a.origin = c.origin
  BY ChunkOf
<1>3. PICK b \in runs[s].segments : In(b, d.start) /\ d.end <= b.end /\ b.origin = d.origin
  BY ChunkOf
<1>4. /\ a.start \in Nat /\ a.end \in Nat /\ a.start < a.end /\ a.end <= runs[r].count
      /\ b.start \in Nat /\ b.end \in Nat /\ runs[r].count \in Nat
  BY <1>1, RunBasics
<1>5. /\ c.start \in Nat /\ c.end \in Nat /\ c.start < c.end
      /\ d.start \in Nat /\ d.end \in Nat /\ d.start < d.end
  BY ChunkOf
<1>6. SegmentOK(runs, runs[r], a) /\ SegmentOK(runs, runs[s], b)
  BY <1>1 DEF RunOK
<1>7. c.end \in Cuts(runs[r]) /\ \A x \in Cuts(runs[s]) : ~(d.start < x /\ x < d.end)
  BY <1>1 DEF PreparedOK
<1>8. c.end = a.end
  <2>1. SUFFICES ASSUME c.end < a.end PROVE FALSE
    BY <1>2, <1>4, <1>5
  <2>2. a.start <= c.end /\ c.end < b.end /\ d.start < c.end
    BY <1>2, <1>3, <1>4, <1>5 DEF In
  <2>3. c.end \in Cuts(runs[s])
    BY <2>1, <2>2, <1>2, <1>3, <1>5, <1>7, CutsAgree
  <2> QED
    BY <2>2, <2>3, <1>7
<1>9. c.origin # r
  <2>1. SUFFICES ASSUME c.origin = r PROVE FALSE
    OBVIOUS
  <2>2. a.end = runs[r].count
    <3>1. PICK own \in runs[r].segments : own.origin = r /\ own.end = runs[r].count
      BY <1>1 DEF RunOK
    <3>2. own = a
      BY <3>1, <2>1, <1>1, <1>2 DEF RunOK
    <3> QED
      BY <3>1, <3>2
  <2>3. b.end <= runs[r].count
    BY <2>1, <1>3, <1>6 DEF SegmentOK
  <2> QED
    BY <2>2, <2>3, <1>3, <1>4, <1>5, <1>8
<1>10. c.copied
  BY <1>9, ChunkOf
<1>11. a.end <= runs[r].resume /\ runs[r].resume \in Nat /\ runs[r].resume < runs[r].count
  BY <1>1, <1>2, <1>9, OwnPart, RunBasics
<1>12. a.end # runs[r].count /\ a.end # 0
  BY <1>4, <1>11
<1>13. PICK t \in runs[r].segments : t.start = a.end
  BY <1>6, <1>12 DEF SegmentOK
<1>14. SegmentOK(runs, runs[r], t)
  BY <1>1 DEF RunOK
<1>15. t.origin \in DOMAIN runs /\ a.end = runs[t.origin].resume
  BY <1>13, <1>14 DEF SegmentOK
<1>16. t.origin # Original
  BY <1>12, <1>15 DEF ReplayIInv, RunOK
<1> QED
  BY <1>8, <1>10, <1>15, <1>16

LEMMA GridsAgreeAll == ASSUME ReplayIInv PROVE Replay!GridsAgree
<1>1. ASSUME NEW S \in SUBSET DOMAIN runs, NEW postSuccess \in BOOLEAN,
             NEW x \in Replay!Unique(S, postSuccess), NEW y \in Replay!Unique(S, postSuccess),
             x # y, NEW i \in 0 .. MaxSteps - 1,
             x[2].start <= i, i < x[2].end, y[2].start <= i, i < y[2].end,
             runs[x[1]].made[i] = runs[y[1]].made[i]
      PROVE  \E r \in DOMAIN runs \ {Original}, c \in {x[2], y[2]} :
               c.copied /\ c.end = runs[r].resume
  <2> DEFINE r == x[1]
             s == y[1]
             c == x[2]
             d == y[2]
  <2>1. r \in DOMAIN runs /\ s \in DOMAIN runs /\ c \in prepared[r] /\ d \in prepared[s]
    BY UniqueOf
  <2>2. i \in Nat /\ In(c, i) /\ In(d, i)
    BY <1>1, ReplayConstants DEF In
  <2>3. /\ c.start \in Nat /\ c.end \in Nat /\ c.start < c.end /\ c.origin \in DOMAIN runs
        /\ c.source = runs[c.origin].sources[runs[c.origin].resume]
        /\ \A k \in c.start .. c.end - 1 : runs[r].made[k] = c.origin
    BY <2>1, ChunkOf
  <2>4. /\ d.start \in Nat /\ d.end \in Nat /\ d.start < d.end
        /\ d.source = runs[d.origin].sources[runs[d.origin].resume]
        /\ \A k \in d.start .. d.end - 1 : runs[s].made[k] = d.origin
    BY <2>1, ChunkOf
  <2>5. c.origin = d.origin
    <3>1. i \in c.start .. c.end - 1 /\ i \in d.start .. d.end - 1
      BY <2>2, <2>3, <2>4 DEF In
    <3> QED
      BY <3>1, <2>3, <2>4, <1>1
  <2>6. Replay!Key(c) # Replay!Key(d)
    BY <1>1, UniqueOf
  <2> HIDE DEF r, s, c, d
  <2>7. ASSUME NEW u \in DOMAIN runs, NEW v \in DOMAIN runs, NEW e \in prepared[u],
               NEW f \in prepared[v], In(e, i), In(f, i), e.origin = f.origin
        PROVE  ~(f.start < e.start)
    <3>1. PICK a \in runs[u].segments : In(a, e.start) /\ e.end <= a.end /\ a.origin = e.origin
      BY ChunkOf
    <3>2. PICK b \in runs[v].segments : In(b, f.start) /\ f.end <= b.end /\ b.origin = f.origin
      BY ChunkOf
    <3>3. /\ e.start \in Nat /\ e.end \in Nat /\ f.start \in Nat /\ f.end \in Nat
      BY ChunkOf
    <3>4. a.end \in Nat /\ b.end \in Nat /\ a.start \in Nat
      BY RunBasics DEF ReplayIInv
    <3>5. a.start <= e.start /\ e.start < a.end /\ e.start < b.end /\ e.start < f.end
      BY <2>2, <2>7, <3>1, <3>2, <3>3, <3>4 DEF In
    <3>6. e.start \in Cuts(runs[u])
      BY DEF ReplayIInv, PreparedOK
    <3>7. e.start \in Cuts(runs[v])
      BY <2>7, <3>1, <3>2, <3>3, <3>5, <3>6, CutsAgree
    <3> QED
      BY <3>5, <3>7 DEF ReplayIInv, PreparedOK
  <2>8. c.start = d.start
    BY <2>1, <2>2, <2>3, <2>4, <2>5, <2>7
  <2>9. c.end # d.end
    BY <2>3, <2>4, <2>5, <2>6, <2>8 DEF Replay!Key
  <2>10. CASE c.end < d.end
    BY <2>10, <2>1, <2>2, <2>5, CutShortBy DEF c, d
  <2>11. CASE d.end < c.end
    BY <2>11, <2>1, <2>2, <2>5, CutShortBy DEF c, d
  <2> QED
    BY <2>3, <2>4, <2>9, <2>10, <2>11
<1>2. \A sel \in Replay!Selections :
        sel[1] \in SUBSET DOMAIN runs /\ sel[2] \in BOOLEAN
  BY DEF Replay!Selections
<1> QED
  BY <1>1, <1>2 DEF Replay!GridsAgree

\* The actor's window ends with the segment it starts in, or earlier.
LEMMA WindowAll == ASSUME ReplayIInv PROVE Replay!WindowOfOneProducer
<1> SUFFICES ASSUME NEW r \in DOMAIN runs, NEW postSuccess \in BOOLEAN,
                    NEW c \in Replay!InReplay(r, postSuccess)
             PROVE  LET end == Replay!ActorEnd(runs[r], c.start, postSuccess)
                    IN  /\ c.start < end /\ end <= Replay!ReplayEnd(runs[r], postSuccess)
                        /\ \A i \in c.start .. end - 1 :
                              /\ runs[r].made[i] = runs[r].made[c.start]
                              /\ runs[r].sources[i] = runs[r].sources[c.start]
  BY DEF Replay!WindowOfOneProducer
<1> DEFINE last == Replay!ReplayEnd(runs[r], postSuccess)
           most == Replay!Min({c.start + Window, last})
           hard == {s.end : s \in Replay!SourceSegments(runs[r]) \cup Replay!Segments(runs[r])}
                     \cup Replay!HandoffSet(runs[r])
           ends == {most} \cup {p \in hard : c.start < p /\ p < most}
           end == Replay!ActorEnd(runs[r], c.start, postSuccess)
<1>1. c \in prepared[r] /\ c.end <= last /\ RunOK(runs, r)
  BY DEF Replay!InReplay, ReplayIInv
<1>2. PICK s \in runs[r].segments : In(s, c.start) /\ c.end <= s.end
  BY <1>1, ChunkOf
<1>3. c.start \in Nat /\ c.end \in Nat /\ c.start < c.end
  BY <1>1, ChunkOf
<1>4. /\ s.start \in Nat /\ s.end \in Nat /\ s.end <= runs[r].count /\ runs[r].count \in Nat
      /\ \A i \in s.start .. s.end - 1 :
           runs[r].made[i] = s.origin /\ runs[r].sources[i] = runs[r].sources[s.start]
  BY <1>1, RunBasics
<1>5. last \in 1 .. runs[r].count /\ Window \in Nat \ {0}
  BY ReplayEndOf, ReplayConstants
<1>6. end = Replay!Min(ends)
  BY DEF Replay!ActorEnd
<1> HIDE DEF last, end
<1>7. most = IF c.start + Window <= last THEN c.start + Window ELSE last
  BY <1>3, <1>5 DEF Replay!Min
<1> HIDE DEF most
<1>8. most \in Nat /\ c.start < most /\ most <= last
  BY <1>1, <1>3, <1>4, <1>5, <1>7
<1>9. \A p \in hard : p \in Nat
  <2>1. \A g \in Replay!SourceSegments(runs[r]) : g.end \in Nat
    BY <1>1, SourcesOf
  <2>2. \A g \in Replay!Segments(runs[r]) : g.end \in Nat
    BY <1>1, BoundariesOf, RunBasics
  <2>3. \A h \in Replay!HandoffSet(runs[r]) : h \in Nat
    BY <1>1, BoundariesOf, RunBasics DEF Replay!Boundaries
  <2> QED
    BY <2>1, <2>2, <2>3
<1>10. s.end \in hard \/ last <= s.end
  <2>1. CASE Unsegmented(runs[r])
    <3>1. PICK own \in runs[r].segments : own.origin = r /\ own.end = runs[r].count
      BY <1>1 DEF RunOK
    <3>2. s.origin = own.origin
      BY <2>1, <3>1, <1>1, BoundariesOf
    <3>3. s = own
      BY <3>2, <1>1 DEF RunOK
    <3> QED
      BY <3>1, <3>3, <1>4, <1>5
  <2>2. CASE ~Unsegmented(runs[r])
    BY <2>2, <1>1, BoundariesOf
  <2> QED
    BY <2>1, <2>2
<1> HIDE DEF hard
<1>11. ends \in SUBSET Nat /\ ends # {} /\ \A p \in ends : c.start < p
  BY <1>8, <1>9
<1>12. end \in ends /\ \A p \in ends : end <= p
  <2> HIDE DEF ends
  <2> QED
    BY <1>6, <1>11, MinOf
<1>13. end \in Nat /\ c.start < end /\ end <= most
  BY <1>11, <1>12
<1>14. end <= s.end
  <2>1. CASE most <= s.end
    BY <2>1, <1>4, <1>8, <1>13
  <2>2. CASE ~(most <= s.end)
    <3>1. s.end \in hard
      BY <2>2, <1>4, <1>5, <1>8, <1>10
    <3>2. c.start < s.end /\ s.end < most
      BY <2>2, <1>2, <1>4, <1>8 DEF In
    <3>3. s.end \in ends
      BY <3>1, <3>2
    <3> QED
      BY <3>3, <1>12
  <2> QED
    BY <2>1, <2>2
<1>15. end <= last
  BY <1>5, <1>8, <1>13
<1>16. ASSUME NEW i \in c.start .. end - 1
       PROVE  /\ runs[r].made[i] = runs[r].made[c.start]
              /\ runs[r].sources[i] = runs[r].sources[c.start]
  <2>1. i \in s.start .. s.end - 1 /\ c.start \in s.start .. s.end - 1
    BY <1>2, <1>3, <1>4, <1>13, <1>14 DEF In
  <2> QED
    BY <2>1, <1>4
<1> QED
  BY <1>13, <1>15, <1>16 DEF end, last
-----------------------------------------------------------------------------
(* The count shown before preparing.                                       *)

\* k numbers to each of which n steps belong cover n * k steps at most.
LEMMA CountOf ==
  ASSUME NEW n \in Nat \ {0}, NEW k \in Nat, NEW m \in Nat, m <= k * n
  PROVE  (m + n - 1) \div n <= k
<1> DEFINE q == (m + n - 1) \div n
           rest == (m + n - 1) % n
<1>1. q \in Nat /\ rest \in 0 .. n - 1 /\ m + n - 1 = q * n + rest
  OBVIOUS
<1> HIDE DEF q, rest
<1>2. SUFFICES ASSUME ~(q <= k) PROVE FALSE
  BY DEF q
<1>3. PICK d \in Nat : q = (k + 1) + d
  <2>1. q - (k + 1) \in Nat /\ q = (k + 1) + (q - (k + 1))
    BY <1>1, <1>2
  <2> QED
    BY <2>1
<1>4. q * n = (k + 1) * n + d * n /\ (k + 1) * n = k * n + n
  BY <1>3
<1>5. k * n \in Nat /\ d * n \in Nat /\ q * n \in Nat
  BY <1>1, <1>3
<1> QED
  BY <1>1, <1>4, <1>5

\* A segment is cut at least as often as its length and pace say.
LEMMA SegmentCuts ==
  ASSUME NEW f, NEW r, RunOK(f, r), NEW s \in f[r].segments
  PROVE  /\ IsFiniteSet({x \in Cuts(f[r]) : In(s, x)})
         /\ (s.end - s.start + s.steps - 1) \div s.steps
              <= Cardinality({x \in Cuts(f[r]) : In(s, x)})
<1> DEFINE C == {x \in Cuts(f[r]) : In(s, x)}
           n == s.steps
           L == s.start .. s.end - 1
           success == Replay!SuccessEnd(f[r])
<1>1. /\ s.start \in Nat /\ s.end \in Nat /\ n \in Nat \ {0} /\ s.start < s.end
      /\ s.end <= f[r].count /\ f[r].count \in Nat /\ success \in Nat
  BY RunBasics
<1>2. \A x \in Nat : x \in C <=> In(s, x) /\ OnGrid(f[r], s, x)
  <2>1. ASSUME NEW x \in Nat, In(s, x), x \in Cuts(f[r]) PROVE OnGrid(f[r], s, x)
    <3>1. x # f[r].count
      BY <1>1, <2>1 DEF In
    <3>2. PICK t \in f[r].segments : In(t, x) /\ OnGrid(f[r], t, x)
      BY <3>1, <2>1 DEF Cuts
    <3> QED
      BY <3>2, <2>1, RunBasics
  <2>2. ASSUME NEW x \in Nat, In(s, x), OnGrid(f[r], s, x) PROVE x \in Cuts(f[r])
    BY <2>2, <1>1 DEF Cuts, In
  <2> QED
    BY <2>1, <2>2
<1>3. C \in SUBSET (0 .. f[r].count)
  BY CutsIn
<1> HIDE DEF C, n, success
<1>4. IsFiniteSet(C) /\ \A x \in C : x \in Nat
  <2>0. \A k \in Nat : IsFiniteSet(0 .. k)
    BY FS_Interval
  <2>1. IsFiniteSet(0 .. f[r].count)
    BY <1>1, <2>0
  <2>2. IsFiniteSet(C)
    BY <2>1, <1>3, FS_Subset
  <2> QED
    BY <2>2, <1>3
<1>5. ASSUME NEW i \in L PROVE \E x \in C : x <= i /\ i - x < n
  <2> DEFINE again == f[r].sources[s.start] = "human" /\ s.start < success /\ success <= i
             g == IF again THEN success ELSE s.start
  <2>1. i \in Nat /\ g \in Nat /\ g <= i /\ s.start <= g
    BY <1>1
  <2>2. PICK y \in g .. i : i - y < n /\ (y - g) % n = 0
    <3> HIDE DEF g
    <3> QED
      BY <2>1, <1>1, GridBelow
  <2>3. y \in Nat /\ In(s, y)
    BY <1>1, <2>1, <2>2 DEF In
  <2>4. OnGrid(f[r], s, y)
    <3>1. g = IF f[r].sources[s.start] = "human" /\ s.start < success /\ success <= y
                THEN success ELSE s.start
      BY <1>1, <2>1, <2>2
    <3> HIDE DEF g
    <3> QED
      BY <2>2, <3>1 DEF OnGrid, success, n
  <2>5. y \in C /\ y <= i
    BY <2>1, <2>2, <2>3, <2>4, <1>2
  <2> QED
    BY <2>2, <2>5
<1>6. Cardinality(L) <= Cardinality(C) * n
  <2> DEFINE cut(i) == CHOOSE x \in C : x <= i /\ i - x < n
             place == [i \in L |-> <<cut(i), i - cut(i)>>]
             P == C \X (0 .. n - 1)
  <2>1. ASSUME NEW i \in L PROVE cut(i) \in C /\ cut(i) \in Nat /\ cut(i) <= i /\ i - cut(i) \in 0 .. n - 1
    <3>1. cut(i) \in C /\ cut(i) <= i /\ i - cut(i) < n
      BY <1>5
    <3>2. cut(i) \in Nat
      <4> HIDE DEF cut
      <4> QED
        BY <1>4, <3>1
    <3> HIDE DEF cut
    <3> QED
      BY <1>1, <3>1, <3>2
  <2> HIDE DEF cut
  <2>2. place \in [L -> P]
    BY <2>1
  <2>3. ASSUME NEW i \in L, NEW j \in L, place[i] = place[j] PROVE i = j
    <3>1. cut(i) = cut(j) /\ i - cut(i) = j - cut(j)
      BY <2>3
    <3> QED
      BY <3>1, <2>1, <1>1
  <2> HIDE DEF place, P
  <2>4. place \in Injection(L, P)
    BY <2>2, <2>3 DEF Injection, IsInjective
  <2>0. IsFiniteSet(0 .. n - 1)
    BY <1>1, FS_Interval
  <2>5. IsFiniteSet(P) /\ Cardinality(P) = Cardinality(C) * Cardinality(0 .. n - 1)
    BY <2>0, <1>4, FS_Product DEF P
  <2>6. Cardinality(0 .. n - 1) = n
    BY <1>1, FS_Interval
  <2>7. Cardinality(L) <= Cardinality(P)
    BY <2>4, <2>5, FS_Injection
  <2> QED
    BY <2>5, <2>6, <2>7
<1>7. Cardinality(L) = s.end - s.start
  <2>1. s.start \in Int /\ s.end - 1 \in Int /\ s.start <= s.end - 1
    BY <1>1
  <2>2. Cardinality(s.start .. s.end - 1) = (s.end - 1) - s.start + 1
    BY <2>1, FS_Interval
  <2> QED
    BY <2>2, <1>1
<1>8. Cardinality(C) \in Nat
  BY <1>4, FS_CardinalityType
<1>9. s.end - s.start \in Nat
  BY <1>1
<1>10. (s.end - s.start + n - 1) \div n <= Cardinality(C)
  <2> DEFINE m == s.end - s.start
  <2>1. m \in Nat /\ m <= Cardinality(C) * n
    BY <1>6, <1>7, <1>9
  <2> HIDE DEF m
  <2>2. (m + n - 1) \div n <= Cardinality(C)
    BY <2>1, <1>1, <1>8, CountOf
  <2> QED
    BY <2>2 DEF m
<1> QED
  BY <1>4, <1>10 DEF C, n

\* The points the count is taken between are the ends of the segments.
Points(run0) ==
  {0, run0.count} \cup Replay!HandoffSet(run0) \cup UNION {{s.start, s.end} : s \in run0.segments}

LEMMA PointsOf ==
  ASSUME NEW f, NEW r, RunOK(f, r)
  PROVE  /\ Points(f[r]) \in SUBSET (0 .. f[r].count)
         /\ 0 \in Points(f[r]) /\ f[r].count \in Points(f[r])
         /\ \A s \in f[r].segments : s.start \in Points(f[r]) /\ s.end \in Points(f[r])
         /\ \A p \in Points(f[r]) : p # f[r].count => \E s \in f[r].segments : s.start = p
<1>1. /\ f[r].count \in Nat \ {0}
      /\ \A s \in f[r].segments :
            s.start \in Nat /\ s.end \in Nat /\ s.start < s.end /\ s.end <= f[r].count
  BY RunBasics
<1>2. \A b \in Replay!HandoffSet(f[r]) : \E t \in f[r].segments : t.start = b
  BY BoundariesOf DEF Replay!Boundaries
<1>3. \E s \in f[r].segments : s.start = 0
  <2>1. PICK s \in f[r].segments : In(s, 0)
    BY <1>1 DEF RunOK
  <2> QED
    BY <1>1, <2>1 DEF In
<1>4. \A s \in f[r].segments : s.end = f[r].count \/ \E t \in f[r].segments : t.start = s.end
  BY DEF RunOK, SegmentOK
<1>5. \A p \in Points(f[r]) : p = f[r].count \/ \E s \in f[r].segments : s.start = p
  BY <1>2, <1>3, <1>4 DEF Points
<1>6. \A p \in Points(f[r]) : p \in 0 .. f[r].count
  BY <1>1, <1>5
<1>7. ASSUME NEW s \in f[r].segments PROVE s.start \in Points(f[r]) /\ s.end \in Points(f[r])
  <2>1. {s.start, s.end} \in {{t.start, t.end} : t \in f[r].segments}
    OBVIOUS
  <2>2. {s.start, s.end} \subseteq UNION {{t.start, t.end} : t \in f[r].segments}
    BY <2>1
  <2> QED
    BY <2>2 DEF Points
<1>8. 0 \in Points(f[r]) /\ f[r].count \in Points(f[r])
  BY DEF Points
<1> QED
  BY <1>5, <1>6, <1>7, <1>8

LEMMA SegmentEnding ==
  ASSUME NEW f, NEW r, RunOK(f, r), NEW e \in Points(f[r]), e # 0
  PROVE  \E s \in f[r].segments :
            /\ s.end = e /\ s.start \in Points(f[r])
            /\ s.start = Replay!Max({p \in Points(f[r]) : p < e})
            /\ \A p \in Points(f[r]) : p < e => p <= s.start
<1> DEFINE P == Points(f[r])
           n == f[r].count
           T == {p \in P : p < e}
           b == Replay!Max(T)
<1>1. /\ P \in SUBSET (0 .. n) /\ 0 \in P /\ n \in Nat /\ e \in P
      /\ \A s \in f[r].segments : s.start \in P /\ s.end \in P
      /\ \A p \in P : p # n => \E s \in f[r].segments : s.start = p
  BY PointsOf, RunBasics
<1> HIDE DEF P, n
<1>2. e \in 0 .. n /\ T \in SUBSET (0 .. n) /\ T # {}
  <2>1. e \in 0 .. n
    BY <1>1
  <2>2. 0 < e
    BY <2>1
  <2>3. 0 \in T
    BY <1>1, <2>2
  <2>4. \A p \in T : p \in 0 .. n
    BY <1>1
  <2> HIDE DEF T
  <2> QED
    BY <2>1, <2>3, <2>4
<1>3. b \in T /\ \A y \in T : y <= b
  <2> HIDE DEF T
  <2> QED
    BY <1>1, <1>2, MaxOf
<1>4. b \in P /\ b < e /\ b \in Nat /\ \A p \in P : p < e => p <= b
  <2> HIDE DEF b
  <2> QED
    BY <1>1, <1>3
<1>5. PICK s \in f[r].segments : s.start = b
  <2> HIDE DEF b
  <2> QED
    BY <1>1, <1>2, <1>4
<1>6. s.start \in Nat /\ s.end \in Nat /\ s.start < s.end /\ s.end <= n /\ s.end \in P
  BY <1>1, RunBasics DEF n
<1> HIDE DEF b, T
<1>7. ~(s.end < e)
  BY <1>4, <1>5, <1>6
<1>8. ~(e < s.end)
  <2> SUFFICES ASSUME e < s.end PROVE FALSE
    OBVIOUS
  <2>1. PICK t \in f[r].segments : t.start = e
    BY <1>1, <1>2, <1>6
  <2>2. t.start \in Nat /\ t.end \in Nat /\ t.start < t.end
    BY RunBasics
  <2>3. In(s, e) /\ In(t, e) /\ e \in Nat
    BY <1>4, <1>5, <2>1, <2>2 DEF In
  <2>4. s = t
    BY <2>3, RunBasics
  <2> QED
    BY <1>4, <1>5, <2>1, <2>2, <2>4
<1>9. s.end = e
  BY <1>2, <1>6, <1>7, <1>8
<1> QED
  BY <1>4, <1>5, <1>9 DEF P, T, b

\* The term of the count for the segment that ends at e.
Term(run0, e) ==
  LET before == Replay!Max({p \in Points(run0) : p < e})
      pace == Replay!Producer(run0.segments, before).steps
  IN  IF e \in Points(run0) THEN (e - before + pace - 1) \div pace ELSE 0

LEMMA NominalOf ==
  ASSUME NEW run0, run0.count \in Nat, \A e \in 1 .. run0.count : Term(run0, e) \in Int
  PROVE  \E s \in [0 .. run0.count -> Int] :
            /\ s[0] = 0 /\ \A k \in 1 .. run0.count : s[k] = s[k - 1] + Term(run0, k)
            /\ Replay!NominalCount(run0) = s[run0.count]
<1> DEFINE n == run0.count
           f == [e \in 1 .. n |-> Term(run0, e)]
<1>1. Replay!NominalCount(run0) = Replay!SumTo(n, f)
  BY DEF Replay!NominalCount, Term, Points
<1>2. Replay!SumTo(n, f) = Total(n, f)
  <2> HIDE DEF f
  <2> QED
    BY DEF Replay!SumTo, Total
<1>3. n \in Nat /\ f \in [1 .. n -> Int] /\ \A k \in 1 .. n : f[k] = Term(run0, k)
  OBVIOUS
<1> HIDE DEF f, n
<1>4. PICK s \in [0 .. n -> Int] :
         s[0] = 0 /\ (\A k \in 1 .. n : s[k] = s[k - 1] + f[k]) /\ Total(n, f) = s[n]
  BY <1>3, SumSteps
<1>5. \A k \in 1 .. n : s[k] = s[k - 1] + Term(run0, k)
  BY <1>3, <1>4
<1> QED
  BY <1>1, <1>2, <1>4, <1>5 DEF n

\* The cuts of a segment.
SegmentCutSet(run0, s) == {x \in Cuts(run0) : In(s, x)}

\* What the segment that ends at e adds to the count.
LEMMA TermOf ==
  ASSUME NEW f, NEW r, RunOK(f, r), NEW e \in Points(f[r]), e # 0
  PROVE  \E s \in f[r].segments :
            /\ s.end = e /\ s.start \in Points(f[r]) /\ s.start \in Nat /\ s.start < e
            /\ \A p \in Points(f[r]) : p < e => p <= s.start
            /\ Term(f[r], e) \in Int
            /\ Term(f[r], e) <= Cardinality(SegmentCutSet(f[r], s))
<1>1. PICK s \in f[r].segments :
         /\ s.end = e /\ s.start \in Points(f[r])
         /\ s.start = Replay!Max({p \in Points(f[r]) : p < e})
         /\ \A p \in Points(f[r]) : p < e => p <= s.start
  BY SegmentEnding
<1>2. s.start \in Nat /\ s.end \in Nat /\ s.start < s.end /\ s.steps \in Nat \ {0}
  BY RunBasics
<1>3. Replay!Producer(f[r].segments, s.start) = s
  BY <1>2, ProducerOf DEF In
<1>4. Term(f[r], e) = (s.end - s.start + s.steps - 1) \div s.steps
  BY <1>1, <1>3 DEF Term
<1>5. Term(f[r], e) <= Cardinality(SegmentCutSet(f[r], s))
  BY <1>4, SegmentCuts DEF SegmentCutSet
<1>6. Term(f[r], e) \in Int
  BY <1>2, <1>4
<1> QED
  BY <1>1, <1>2, <1>5, <1>6

\* There are at least as many chunks as the count promises.
LEMMA NominalAll ==
  ASSUME ReplayIInv, NEW r \in DOMAIN runs
  PROVE  Replay!NominalCount(runs[r]) <= Cardinality(prepared[r])
<1> DEFINE P == Points(runs[r])
           C == Cuts(runs[r])
           n == runs[r].count
           A(k) == {x \in C : x < k}
           T(e) == Term(runs[r], e)
<1>1. RunOK(runs, r) /\ PreparedOK(runs[r], prepared[r])
  BY DEF ReplayIInv
<1>2. P \in SUBSET (0 .. n) /\ 0 \in P /\ n \in P /\ n \in Nat
  BY <1>1, PointsOf, RunBasics
<1>3. C \in SUBSET (0 .. n)
  BY <1>1, CutsIn
<1>4. \A e \in P : e # 0 =>
        \E s \in runs[r].segments :
          /\ s.end = e /\ s.start \in P /\ s.start \in Nat /\ s.start < e
          /\ \A p \in P : p < e => p <= s.start
          /\ T(e) \in Int /\ T(e) <= Cardinality({x \in C : In(s, x)})
  <2> SUFFICES ASSUME NEW e \in Points(runs[r]), e # 0
               PROVE  \E s \in runs[r].segments :
                        /\ s.end = e /\ s.start \in P /\ s.start \in Nat /\ s.start < e
                        /\ \A p \in P : p < e => p <= s.start
                        /\ T(e) \in Int /\ T(e) <= Cardinality({x \in C : In(s, x)})
    OBVIOUS
  <2>1. PICK s \in runs[r].segments :
            /\ s.end = e /\ s.start \in Points(runs[r]) /\ s.start \in Nat /\ s.start < e
            /\ \A p \in Points(runs[r]) : p < e => p <= s.start
            /\ Term(runs[r], e) \in Int
            /\ Term(runs[r], e) <= Cardinality(SegmentCutSet(runs[r], s))
    <3> HIDE DEF P, C, n, T
    <3> QED
      BY <1>1, TermOf
  <2> QED
    BY <2>1 DEF SegmentCutSet
<1>5. \A e \in 1 .. n : e \notin P => T(e) = 0
  BY DEF Term
<1>6. \A e \in 1 .. n : T(e) \in Int
  <2> SUFFICES ASSUME NEW e \in 1 .. n PROVE T(e) \in Int
    OBVIOUS
  <2>1. CASE e \in P
    <3>1. e # 0
      BY <1>2
    <3> HIDE DEF T, P, C
    <3> QED
      BY <2>1, <3>1, <1>4
  <2>2. CASE e \notin P
    BY <2>2, <1>5
  <2> QED
    BY <2>1, <2>2
<1>7. PICK S \in [0 .. n -> Int] :
        /\ S[0] = 0 /\ \A k \in 1 .. n : S[k] = S[k - 1] + T(k)
        /\ Replay!NominalCount(runs[r]) = S[n]
  BY <1>2, <1>6, NominalOf
<1>8. \A X : X \in SUBSET C => IsFiniteSet(X) /\ Cardinality(X) \in Nat
  <2>1. \A k \in Nat : IsFiniteSet(0 .. k)
    BY FS_Interval
  <2>2. IsFiniteSet(0 .. n)
    BY <1>2, <2>1
  <2> SUFFICES ASSUME NEW X \in SUBSET C PROVE IsFiniteSet(X) /\ Cardinality(X) \in Nat
    OBVIOUS
  <2>3. X \in SUBSET (0 .. n)
    BY <1>3
  <2>4. IsFiniteSet(X)
    BY <2>2, <2>3, FS_Subset
  <2> QED
    BY <2>4, FS_CardinalityType
<1> HIDE DEF P, C, n, T
<1>9. \A k \in 0 .. n : A(k) \in SUBSET C /\ Cardinality(A(k)) \in Nat
  BY <1>8
<1> DEFINE Covered == {k \in 0 .. n : \A p \in P : (p <= k /\ \A q \in P : q <= k => q <= p)
                                                     => S[k] <= Cardinality(A(p))}
<1> HIDE DEF A
<1>10. 0 \in Covered
  BY <1>2, <1>7, <1>9
<1>11. ASSUME NEW k \in 0 .. n - 1, k \in Covered PROVE k + 1 \in Covered
  <2>1. k \in 0 .. n /\ k + 1 \in 1 .. n /\ S[k + 1] = S[k] + T(k + 1) /\ S[k] \in Int /\ k \in Nat
    BY <1>2, <1>7
  <2>2. \A p \in P : (p <= k /\ \A q \in P : q <= k => q <= p) => S[k] <= Cardinality(A(p))
    BY <1>11
  <2> SUFFICES ASSUME NEW p \in P, p <= k + 1, \A q \in P : q <= k + 1 => q <= p
               PROVE  S[k + 1] <= Cardinality(A(p))
    BY <2>1
  <2>3. CASE k + 1 \in P
    <3>1. p = k + 1
      BY <1>2, <2>1, <2>3
    <3>2. PICK s \in runs[r].segments :
            /\ s.end = k + 1 /\ s.start \in P /\ s.start \in Nat /\ s.start < k + 1
            /\ \A q \in P : q < k + 1 => q <= s.start
            /\ T(k + 1) \in Int /\ T(k + 1) <= Cardinality({x \in C : In(s, x)})
      <4>1. k + 1 # 0
        BY <2>1
      <4> QED
        BY <1>4, <2>3, <4>1
    <3>3. S[k] <= Cardinality(A(s.start))
      BY <1>2, <2>1, <2>2, <3>2
    <3>4. /\ A(s.start) \cup {x \in C : In(s, x)} = A(k + 1)
          /\ A(s.start) \cap {x \in C : In(s, x)} = {}
      <4>1. \A x \in C : x \in Nat
        BY <1>2, <1>3
      <4>2. \A x \in Nat : x < k + 1 <=> x < s.start \/ In(s, x)
        BY <2>1, <3>2 DEF In
      <4>3. \A x \in Nat : ~(x < s.start /\ In(s, x))
        BY <3>2 DEF In
      <4> QED
        BY <4>1, <4>2, <4>3 DEF A
    <3>5. Cardinality(A(k + 1)) = Cardinality(A(s.start)) + Cardinality({x \in C : In(s, x)})
      <4> DEFINE X == A(s.start)
                 Y == {x \in C : In(s, x)}
      <4>1. IsFiniteSet(X) /\ IsFiniteSet(Y) /\ Cardinality(X) \in Nat /\ Cardinality(Y) \in Nat
        BY <1>8 DEF A
      <4>2. X \cup Y = A(k + 1) /\ X \cap Y = {}
        BY <3>4
      <4> HIDE DEF X, Y
      <4>3. Cardinality(X \cup Y) = Cardinality(X) + Cardinality(Y) - Cardinality(X \cap Y)
        BY <4>1, FS_Union
      <4>4. Cardinality(X \cap Y) = 0
        BY <4>2, FS_EmptySet
      <4>a. Cardinality(X \cup Y) = Cardinality(A(k + 1))
        BY <4>2
      <4>5. Cardinality(A(k + 1)) = Cardinality(X) + Cardinality(Y)
        BY <4>1, <4>3, <4>4, <4>a
      <4> QED
        BY <4>5 DEF X, Y
    <3>6. Cardinality(A(s.start)) \in Nat /\ Cardinality({x \in C : In(s, x)}) \in Nat
      BY <1>8 DEF A
    <3> QED
      BY <2>1, <3>1, <3>2, <3>3, <3>5, <3>6
  <2>4. CASE k + 1 \notin P
    <3>1. p <= k /\ \A q \in P : q <= k => q <= p
      BY <1>2, <2>1, <2>4
    <3>2. S[k + 1] = S[k]
      BY <1>5, <2>1, <2>4
    <3> QED
      BY <2>2, <3>1, <3>2
  <2> QED
    BY <2>3, <2>4
<1>12. S[n] <= Cardinality(A(n))
  <2> HIDE DEF Covered
  <2>1. \A k \in 0 .. n : k \in Covered
    BY <1>2, <1>10, <1>11, Climb
  <2>2. n \in Covered
    BY <1>2, <2>1
  <2>3. \A q \in P : q <= n => q <= n
    OBVIOUS
  <2> QED
    BY <1>2, <2>2 DEF Covered
<1>13. Cardinality(A(n)) = Cardinality(prepared[r])
  <2>1. \A c \in prepared[r] : c.start \in C /\ c.start < n
    BY <1>1, ChunkOf DEF PreparedOK, C, n
  <2>2. \A x \in C : x < n => \E c \in prepared[r] : c.start = x
    BY <1>1 DEF PreparedOK, C, n
  <2>3. A(n) = {c.start : c \in prepared[r]}
    BY <2>1, <2>2 DEF A
  <2>4. Replay!Cardinality({c.start : c \in prepared[r]}) = Replay!Cardinality(prepared[r])
    BY AlignedAll DEF Replay!Aligned
  <2>5. \A X : Replay!Cardinality(X) = Cardinality(X)
    BY DEF Replay!Cardinality, Cardinality
  <2> QED
    BY <2>3, <2>4, <2>5
<1> QED
  BY <1>7, <1>12, <1>13

LEMMA CountsAgreeAll == ASSUME ReplayIInv PROVE Replay!CountsAgree
<1>1. \A sel \in Replay!Selections : Replay!Counted(sel[1], sel[2]) = Replay!Unique(sel[1], sel[2])
  <2> SUFFICES ASSUME NEW sel \in Replay!Selections
               PROVE  Replay!Counted(sel[1], sel[2]) = Replay!Unique(sel[1], sel[2])
    OBVIOUS
  <2>1. sel[1] \in SUBSET DOMAIN runs /\ sel[2] \in BOOLEAN
    BY DEF Replay!Selections
  <2> QED
    BY <2>1, UniqueOf
<1>2. \A r \in DOMAIN runs : Replay!NominalCount(runs[r]) <= Replay!Cardinality(prepared[r])
  <2>1. \A X : Replay!Cardinality(X) = Cardinality(X)
    BY DEF Replay!Cardinality, Cardinality
  <2> QED
    BY <2>1, NominalAll
<1> QED
  BY <1>1, <1>2 DEF Replay!CountsAgree
-----------------------------------------------------------------------------
(* A selection of recordings replays every transition once, on grids that  *)
(* agree between a recording and the branches that copied it; the service  *)
(* counts the transitions that are replayed and never promises more; and   *)
(* the actor's window never leaves the chunk's producer.                   *)
THEOREM ReplayingIsExact == PartsSpec => []ReplayIsExact
<1>1. PartsInit => (part = "replay" => ReplayIInv)
  BY ReplayInit DEF PartsInit
<1>2. (part = "replay" => ReplayIInv) /\ [PartsNext]_parts => (part = "replay" => ReplayIInv)'
  <2> SUFFICES ASSUME part = "replay" => ReplayIInv, [PartsNext]_parts, part' = "replay"
               PROVE  ReplayIInv'
    OBVIOUS
  <2>1. part = "replay"
    BY DEF PartsNext, parts
  <2>2. [Replay!Next]_replayVars
    BY <2>1 DEF PartsNext, parts, replayVars
  <2> QED
    BY <2>1, <2>2, ReplayStep
<1>3. (part = "replay" => ReplayIInv) => ReplayIsExact
  BY TransitionsOnce, GridsAgreeAll, CountsAgreeAll, WindowAll DEF ReplayIsExact
<1> QED
  BY <1>1, <1>2, <1>3, PTL DEF PartsSpec
=============================================================================
