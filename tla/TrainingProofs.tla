--------------------------- MODULE TrainingProofs ---------------------------
(***************************************************************************)
(* Theorems about ReplayBuffer and Training, for all sizes, frequencies    *)
(* and bounds: the circle of slots implements the window of the latest     *)
(* experiences, in the buffer by itself and in a trainer; an episode ends  *)
(* in max_steps steps; episodes are stored whole; and the target network   *)
(* does not fall behind.                                                   *)
(***************************************************************************)
EXTENDS Training, SequenceTheorems, TLAPS

-----------------------------------------------------------------------------
(* The circle of slots                                                     *)

\* The remainder of add before the end of the list.
LEMMA BelowDivisor ==
    ASSUME NEW a \in Nat, NEW b \in Nat, a < b
    PROVE  a % b = a
  OBVIOUS

\* The remainder of add at the end of the list.
LEMMA AtDivisor ==
    ASSUME NEW b \in Nat \ {0}
    PROVE  b % b = 0
  OBVIOUS

\* The next position: one further, or back at the first slot.
LEMMA AdvanceIs ==
    ASSUME NEW p \in 0..MaxSize - 1
    PROVE  Advance(p) = IF p = MaxSize - 1 THEN 0 ELSE p + 1
<1>1. CASE p = MaxSize - 1
  <2>1. p + 1 = MaxSize
    BY <1>1, MaxSizeAssumption
  <2> QED BY <1>1, <2>1, MaxSizeAssumption, AtDivisor DEF Advance
<1>2. CASE p # MaxSize - 1
  <2>1. p + 1 \in Nat /\ MaxSize \in Nat /\ p + 1 < MaxSize
    BY <1>2, MaxSizeAssumption
  <2> QED BY <1>2, <2>1, BelowDivisor DEF Advance
<1> QED BY <1>1, <1>2

\* A step of add keeps the position on the list, and at its end until it is full.
LEMMA PositionStep ==
    ASSUME PositionOK, [BufferNext]_bufferVars
    PROVE  PositionOK'
<1> USE MaxSizeAssumption
<1>1. CASE UNCHANGED bufferVars
  BY <1>1 DEF PositionOK, bufferVars
<1>2. ASSUME NEW e \in Experiences, Add(e)
      PROVE  PositionOK'
  <2>1. position' = IF position = MaxSize - 1 THEN 0 ELSE position + 1
    BY <1>2, AdvanceIs DEF Add, PositionOK
  <2>2. CASE Len(buffer) < MaxSize
    <3>1. buffer' = Append(buffer, e)
      BY <1>2, <2>2 DEF Add
    <3>2. buffer' \in Seq(Experiences) /\ Len(buffer') = Len(buffer) + 1
      BY <3>1 DEF PositionOK
    <3> QED BY <2>1, <2>2, <3>2 DEF PositionOK
  <2>3. CASE Len(buffer) = MaxSize
    <3>1. buffer' = [buffer EXCEPT ![position + 1] = e]
      BY <1>2, <2>3 DEF Add
    <3>2. position + 1 \in 1..Len(buffer)
      BY <2>3 DEF PositionOK
    <3>3. buffer' \in Seq(Experiences) /\ Len(buffer') = Len(buffer)
      BY <3>1, <3>2, ExceptSeq DEF PositionOK
    <3> QED BY <2>1, <2>3, <3>3 DEF PositionOK
  <2> QED BY <2>2, <2>3 DEF PositionOK
<1> QED BY <1>1, <1>2 DEF BufferNext

\* The position of ExperienceReplay never leaves the list, and before the list
\* is full it is the index of the next new slot.
THEOREM PositionCorrect == BufferSpec => []PositionOK
<1>1. BufferInit => PositionOK
  BY MaxSizeAssumption DEF BufferInit, PositionOK
<1> QED BY <1>1, PositionStep, PTL DEF BufferSpec

\* The window is as long as the list, and starts at the oldest experience.
WindowFacts ==
    /\ Window \in Seq(Experiences)
    /\ Len(Window) = Len(buffer)
    /\ Len(buffer) < MaxSize => Window = buffer
    /\ Len(buffer) = MaxSize =>
         \A i \in 1..MaxSize :
             Window[i] = IF position + i <= MaxSize
                         THEN buffer[position + i]
                         ELSE buffer[position + i - MaxSize]

\* The two layouts of the list, growing and full, as windows.
LEMMA WindowIs == PositionOK => WindowFacts
<1> SUFFICES ASSUME PositionOK PROVE WindowFacts
  OBVIOUS
<1> USE MaxSizeAssumption DEF PositionOK
<1>1. Len(buffer) \in Nat /\ Oldest \in 0..MaxSize - 1
  BY DEF Oldest
<1>2. \A i \in 1..Len(buffer) :
        /\ i \in 1..MaxSize
        /\ Oldest + i > Len(buffer) => Oldest + i - Len(buffer) \in 1..Len(buffer)
        /\ Oldest + i <= Len(buffer) => Oldest + i \in 1..Len(buffer)
  BY <1>1 DEF Oldest
<1>3. \A i \in 1..Len(buffer) : buffer[i] \in Experiences
  OBVIOUS
<1>4. Window \in [1..Len(buffer) -> Experiences]
  <2> DEFINE slot(i) == IF Oldest + i <= Len(buffer) THEN Oldest + i ELSE Oldest + i - Len(buffer)
  <2>1. \A i \in 1..Len(buffer) : slot(i) \in 1..Len(buffer)
    BY <1>1, <1>2
  <2>2. \A i \in 1..Len(buffer) : buffer[slot(i)] \in Experiences
    BY <1>3, <2>1
  <2>3. Window = [i \in 1..Len(buffer) |-> buffer[slot(i)]]
    BY DEF Window
  <2> HIDE DEF slot
  <2> QED BY <2>2, <2>3
<1>5. Window \in Seq(Experiences) /\ Len(Window) = Len(buffer)
  BY <1>1, <1>4
<1>6. CASE Len(buffer) < MaxSize
  <2>1. \A i \in 1..Len(buffer) : Window[i] = buffer[i]
    BY <1>6 DEF Window, Oldest
  <2> QED BY <1>5, <1>6, <2>1 DEF WindowFacts
<1>7. CASE Len(buffer) = MaxSize
  BY <1>5, <1>7 DEF Window, Oldest, WindowFacts
<1> QED BY <1>5, <1>6, <1>7

\* The same of the next state.
LEMMA WindowIsNext == PositionOK' => WindowFacts'
  BY WindowIs, PTL

\* A step of add appends to the window, and drops its oldest experience when
\* the list was full.
LEMMA WindowStep ==
    ASSUME PositionOK, PositionOK', NEW e \in Experiences, Add(e)
    PROVE  Latest!Add(e)
<1> USE MaxSizeAssumption
<1>1. position' = IF position = MaxSize - 1 THEN 0 ELSE position + 1
  BY AdvanceIs DEF Add, PositionOK
<1> DEFINE old == IF Len(Window) < MaxSize THEN Window ELSE Tail(Window)
<1>2. /\ Window \in Seq(Experiences) /\ Len(Window) = Len(buffer)
      /\ Window' \in Seq(Experiences) /\ Len(Window') = Len(buffer')
  BY WindowIs, WindowIsNext DEF WindowFacts
<1>3. CASE Len(buffer) < MaxSize
  <2>1. buffer' = Append(buffer, e) /\ Window = buffer /\ old = buffer
    BY <1>2, <1>3, WindowIs DEF WindowFacts, Add
  <2>2. Len(buffer') = Len(buffer) + 1
    BY <2>1 DEF PositionOK
  <2>3. CASE Len(buffer') < MaxSize
    BY <2>1, <2>3, WindowIsNext DEF Latest!Add, WindowFacts
  <2>4. CASE Len(buffer') = MaxSize
    <3>1. position' = 0
      BY <1>1, <1>3, <2>2, <2>4 DEF PositionOK
    <3>2. \A i \in 1..MaxSize : Window'[i] = buffer'[i]
      BY <2>4, <3>1, WindowIsNext DEF WindowFacts
    <3>3. Window' = buffer'
      BY <1>2, <2>4, <3>2 DEF PositionOK
    <3> QED BY <2>1, <3>3 DEF Latest!Add
  <2> QED BY <1>3, <2>2, <2>3, <2>4 DEF PositionOK
<1>4. CASE Len(buffer) = MaxSize
  <2>1. buffer' = [buffer EXCEPT ![position + 1] = e] /\ Len(buffer') = MaxSize
    BY <1>4 DEF Add, PositionOK
  <2>2. old = Tail(Window) /\ old \in Seq(Experiences) /\ Len(old) = MaxSize - 1
    BY <1>2, <1>4
  <2>3. \A i \in 1..MaxSize - 1 : old[i] = Window[i + 1]
    BY <1>2, <1>4, <2>2
  <2>4. ASSUME NEW i \in 1..MaxSize
        PROVE  Window'[i] = Append(old, e)[i]
    <3>1. Window'[i] = IF position' + i <= MaxSize
                       THEN buffer'[position' + i]
                       ELSE buffer'[position' + i - MaxSize]
      BY <2>1, WindowIsNext DEF WindowFacts
    <3>2. CASE i = MaxSize
      <4>1. Window'[i] = buffer'[position + 1]
        BY <1>1, <3>1, <3>2 DEF PositionOK
      <4>2. buffer'[position + 1] = e
        BY <1>4, <2>1 DEF PositionOK
      <4> QED BY <2>2, <3>2, <4>1, <4>2
    <3>3. CASE i < MaxSize
      <4>1. Append(old, e)[i] = Window[i + 1]
        BY <2>2, <2>3, <3>3
      <4>2. Window[i + 1] = IF position + i + 1 <= MaxSize
                            THEN buffer[position + i + 1]
                            ELSE buffer[position + i + 1 - MaxSize]
        BY <1>4, <3>3, WindowIs DEF WindowFacts, PositionOK
      <4>3. Window'[i] = IF position + i + 1 <= MaxSize
                         THEN buffer'[position + i + 1]
                         ELSE buffer'[position + i + 1 - MaxSize]
        BY <1>1, <3>1, <3>3 DEF PositionOK
      <4>4. \A j \in 1..MaxSize : j # position + 1 => buffer'[j] = buffer[j]
        BY <1>4, <2>1 DEF PositionOK
      <4>5. CASE position + i + 1 <= MaxSize
        <5>1. position + i + 1 \in 1..MaxSize /\ position + i + 1 # position + 1
          BY <4>5 DEF PositionOK
        <5> QED BY <4>1, <4>2, <4>3, <4>4, <4>5, <5>1
      <4>6. CASE position + i + 1 > MaxSize
        <5>1. /\ position + i + 1 - MaxSize \in 1..MaxSize
              /\ position + i + 1 - MaxSize # position + 1
              /\ ~(position + i + 1 <= MaxSize)
          BY <3>3, <4>6 DEF PositionOK
        <5> QED BY <4>1, <4>2, <4>3, <4>4, <5>1
      <4>7. position + i + 1 <= MaxSize \/ position + i + 1 > MaxSize
        BY DEF PositionOK
      <4> QED BY <4>5, <4>6, <4>7
    <3>4. i = MaxSize \/ i < MaxSize
      OBVIOUS
    <3> QED BY <3>2, <3>3, <3>4
  <2>5. Window' = Append(old, e)
    BY <1>2, <2>1, <2>2, <2>4
  <2> QED BY <2>5 DEF Latest!Add
<1> QED BY <1>3, <1>4 DEF PositionOK

\* ExperienceReplay is the window of the latest max_size experiences, for every
\* size and everything that is stored.
THEOREM WindowRefinement == BufferSpec => ImplementsWindow
<1>1. BufferInit => Latest!Init
  BY DEF BufferInit, Latest!Init, Window
<1>2. ASSUME PositionOK, PositionOK', [BufferNext]_bufferVars
      PROVE  [Latest!Next]_Window
  <2>1. CASE UNCHANGED bufferVars
    BY <2>1 DEF bufferVars, Window, Oldest
  <2>2. ASSUME NEW e \in Experiences, Add(e)
        PROVE  Latest!Next
    BY <1>2, <2>2, WindowStep DEF Latest!Next
  <2> QED BY <1>2, <2>1, <2>2 DEF BufferNext
<1> QED BY <1>1, <1>2, PositionCorrect, PTL DEF BufferSpec, ImplementsWindow, Latest!Spec

-----------------------------------------------------------------------------
(* Remainders                                                              *)

LEMMA RemainderRange ==
    ASSUME NEW n \in Nat, NEW d \in Nat \ {0}
    PROVE  n % d \in 0..d - 1
  OBVIOUS

LEMMA Division ==
    ASSUME NEW n \in Nat, NEW d \in Nat \ {0}
    PROVE  n \div d \in Nat /\ n = (n \div d) * d + (n % d)
  OBVIOUS

LEMMA RemainderOf ==
    ASSUME NEW q \in Nat, NEW d \in Nat \ {0}, NEW r \in 0..d - 1
    PROVE  (q * d + r) % d = r
  OBVIOUS

LEMMA NextRemainder ==
    ASSUME NEW n \in Nat, NEW d \in Nat \ {0}
    PROVE  (n + 1) % d = IF n % d = d - 1 THEN 0 ELSE (n % d) + 1
<1> DEFINE q == n \div d
<1> DEFINE r == n % d
<1>1. q \in Nat /\ r \in 0..d - 1 /\ n = q * d + r
  BY Division, RemainderRange
<1> HIDE DEF q, r
<1>2. CASE r = d - 1
  <2>1. n + 1 = (q + 1) * d + 0 /\ q + 1 \in Nat /\ 0 \in 0..d - 1
    BY <1>1, <1>2
  <2>2. (n + 1) % d = 0
    BY <2>1, RemainderOf
  <2> QED BY <1>2, <2>2 DEF r
<1>3. CASE r # d - 1
  <2>1. n + 1 = q * d + (r + 1) /\ r + 1 \in 0..d - 1
    BY <1>1, <1>3
  <2>2. (n + 1) % d = r + 1
    BY <1>1, <2>1, RemainderOf
  <2> QED BY <1>3, <2>2 DEF r
<1> QED BY <1>2, <1>3

LEMMA QuotientBound ==
    ASSUME NEW x \in Nat, NEW y \in Nat, NEW d \in Nat \ {0}, x * d <= y
    PROVE  x <= y \div d
  OBVIOUS


-----------------------------------------------------------------------------
(* Types                                                                   *)

\* A method that is running has something left to do.
EnvironmentTypes ==
    /\ usage \in Usages
    /\ model_type \in ModelTypes
    /\ step \in 0..StepCap
    /\ over \in BOOLEAN
    /\ ~over => step < MaxSteps

CallTypes ==
    /\ call \in [method : {"idle"} \cup usage, left : 0..MaxCount]
    /\ call.method # "idle" => call.left \in 1..MaxCount

CounterTypes ==
    /\ total \in 0..UpdateFreq * TargetFreq - 1
    /\ lag \in 0..MaxLag
    /\ built \in {"none", "network", "both"}
    /\ broke \in BOOLEAN

TypeInv == EnvironmentTypes /\ CallTypes /\ CounterTypes

LEMMA Sizes ==
    /\ {MaxSteps, BatchSize, UpdateFreq, TargetFreq, MaxCount} \subseteq Nat \ {0}
    /\ UpdateFreq * TargetFreq \in Nat \ {0}
    /\ MaxLag \in Nat \ {0}
<1>1. \A m, n \in Nat \ {0} : m * n \in Nat \ {0}
  OBVIOUS
<1>2. TargetFreq + UpdateFreq - 2 \in Nat /\ UpdateFreq \in Nat \ {0}
  BY SizesAssumption
<1>3. (TargetFreq + UpdateFreq - 2) \div UpdateFreq \in Nat
  BY <1>2, Division
<1> QED BY <1>1, <1>3, SizesAssumption DEF MaxLag

LEMMA InitTypeInv == Init => TypeInv
<1> SUFFICES ASSUME Init PROVE TypeInv
  OBVIOUS
<1> USE DEF Init
<1>1. EnvironmentTypes
  <2>1. 0 \in 0..StepCap /\ 0 < MaxSteps /\ FALSE \in BOOLEAN
    BY SizesAssumption DEF StepCap
  <2> QED BY <2>1 DEF EnvironmentTypes
<1>2. CallTypes
  BY SizesAssumption DEF CallTypes, Idle
<1>3. CounterTypes
  <2>1. \A n \in Nat \ {0} : 0 \in 0..n - 1 /\ 0 \in 0..n
    OBVIOUS
  <2> QED BY <2>1, Sizes DEF CounterTypes
<1> QED BY <1>1, <1>2, <1>3 DEF TypeInv

\* What a step of the environment leaves behind.
LEMMA StepTypes ==
    ASSUME TypeInv, NEW done \in Done, Step(done)
    PROVE  /\ step' \in 0..StepCap /\ over' \in BOOLEAN
           /\ ~over' => step' < MaxSteps
           /\ ~over => step' = step + 1
BY Sizes DEF TypeInv, EnvironmentTypes, Done, Forced, Step, Stepped, StepCap

LEMMA StoreTypes ==
    ASSUME TypeInv, NEW done \in Done, Store(done)
    PROVE  total' \in 0..UpdateFreq * TargetFreq - 1
<1>1. total \in Nat
  BY Sizes DEF TypeInv, CounterTypes
<1>2. \A n \in Nat, d \in Nat \ {0} : (n + 1) % d \in 0..d - 1
  BY RemainderRange
<1> QED BY <1>1, <1>2, Sizes DEF Store

\* A call begins, counts down and returns.
LEMMA CallTypesStep ==
    ASSUME CallTypes, UNCHANGED usage,
           \/ \E m \in usage, n \in 1..MaxCount : call' = [method |-> m, left |-> n]
           \/ call' \in {Idle, call}
           \/ Return /\ call.method # "idle"
    PROVE  CallTypes'
<1>0. MaxCount \in Nat /\ call \in [method : {"idle"} \cup usage, left : 0..MaxCount]
  BY SizesAssumption DEF CallTypes
<1>1. ASSUME NEW m \in usage, NEW n \in 1..MaxCount, call' = [method |-> m, left |-> n]
      PROVE  CallTypes'
  BY <1>0, <1>1 DEF CallTypes
<1>2. CASE call' \in {Idle, call}
  BY <1>0, <1>2 DEF CallTypes, Idle
<1>3. CASE Return /\ call.method # "idle"
  <2>1. CASE call.left = 1
    BY <1>2, <1>3, <2>1 DEF Return
  <2>2. CASE call.left # 1
    <3>1. call.left - 1 \in 1..MaxCount
      BY <1>0, <1>3, <2>2 DEF CallTypes
    <3>2. call' = [method |-> call.method, left |-> call.left - 1]
      BY <1>0, <1>3, <2>2 DEF Return
    <3>3. call.method \in usage
      BY <1>0, <1>3
    <3> QED BY <1>1, <3>1, <3>2, <3>3
  <2> QED BY <2>1, <2>2
<1> QED BY <1>1, <1>2, <1>3

LEMMA TypeInvStep == TypeInv /\ [Next]_vars => TypeInv'
<1> SUFFICES ASSUME TypeInv, [Next]_vars PROVE TypeInv'
  OBVIOUS
<1>0. EnvironmentTypes /\ CallTypes /\ CounterTypes /\ MaxSteps \in Nat \ {0}
  BY SizesAssumption DEF TypeInv
<1>1. UNCHANGED <<usage, model_type>>
  BY DEF Next, Loop, CollectExperience, TrainEpisode, Evaluate, Begin, TrainOnBatch, vars
<1>2. CallTypes'
  <2>1. ASSUME NEW m \in usage, NEW n \in 1..MaxCount, Begin(m, n) PROVE CallTypes'
    BY <1>0, <1>1, <2>1, CallTypesStep DEF Begin
  <2>2. 1 \in 1..MaxCount
    BY SizesAssumption
  <2>3. ASSUME NEW n \in 1..MaxCount, CollectExperience(n) \/ Evaluate(n) \/ TrainEpisode
        PROVE  CallTypes'
    BY <2>1, <2>2, <2>3 DEF CollectExperience, Evaluate, TrainEpisode, Begin
  <2>4. CASE CollectStep \/ EvaluateStep
    BY <1>0, <1>1, <2>4, CallTypesStep DEF CollectStep, EvaluateStep
  <2>5. CASE TrainStep \/ TrainOnBatch \/ UNCHANGED vars
    BY <1>0, <1>1, <2>5, CallTypesStep DEF TrainStep, BreakOff, TrainOnBatch, vars
  <2> QED BY <2>2, <2>3, <2>4, <2>5 DEF Next, Loop
<1>3. EnvironmentTypes'
  <2>1. CASE UNCHANGED <<step, over>> \/ Reset
    <3>1. 0 \in 0..StepCap /\ 0 < MaxSteps /\ FALSE \in BOOLEAN
      BY <1>0 DEF StepCap
    <3> QED BY <1>0, <1>1, <2>1, <3>1 DEF EnvironmentTypes, Reset
  <2>2. ASSUME NEW done \in Done, Step(done) PROVE EnvironmentTypes'
    BY <1>0, <1>1, <2>2, StepTypes DEF EnvironmentTypes
  <2> QED BY <2>1, <2>2 DEF Next, Loop, CollectExperience, TrainEpisode, Evaluate, TrainOnBatch,
                            CollectStep, AfterCollected, EvaluateStep, TrainStep, vars
<1>4. CounterTypes'
  <2>1. total' = total \/ \E done \in Done : Store(done)
    BY DEF Next, Loop, CollectExperience, TrainEpisode, Evaluate, Begin, TrainOnBatch,
           CollectStep, EvaluateStep, TrainStep, modelVars, vars
  <2>2. lag' \in {lag, 0, Updated(lag)}
    BY DEF Next, Loop, CollectExperience, TrainEpisode, Evaluate, Begin, TrainOnBatch,
           CollectStep, EvaluateStep, TrainStep, Learnt, modelVars, vars
  <2>3. lag' \in 0..MaxLag
    BY <1>0, <2>2, Sizes DEF Updated, CounterTypes
  <2>4. built' \in {"none", "network", "both"} /\ broke' \in BOOLEAN
    BY <1>0 DEF CounterTypes, Next, Loop, CollectExperience, TrainEpisode, Evaluate, Begin, TrainOnBatch,
                CollectStep, EvaluateStep, TrainStep, BreakOff, BuiltAfter, Forward, modelVars, vars
  <2> QED BY <1>0, <2>1, <2>3, <2>4, StoreTypes DEF CounterTypes
<1> QED BY <1>2, <1>3, <1>4 DEF TypeInv

LEMMA TypeInvCorrect == Spec => []TypeInv
BY InitTypeInv, TypeInvStep, PTL DEF Spec

\* The types of the trainer and its counters; and an episode that goes on has
\* taken fewer than max_steps steps, whoever takes them and in whatever calls.
THEOREM TypeCorrect == Spec => []TypeOK
<1>1. TypeInv => TypeOK
  BY DEF TypeInv, EnvironmentTypes, CallTypes, CounterTypes, TypeOK
<1> QED BY <1>1, TypeInvCorrect, PTL

-----------------------------------------------------------------------------
(* The buffer of a trainer                                                 *)

LEMMA StoredExperience ==
    ASSUME TypeInv, Experiences = StepExperiences, NEW done \in Done, Store(done)
    PROVE  /\ [from |-> step, over |-> over, done |-> done, broke |-> broke] \in Experiences
           /\ Add([from |-> step, over |-> over, done |-> done, broke |-> broke])
BY DEF TypeInv, EnvironmentTypes, CounterTypes, StepExperiences, Done, Store

LEMMA BufferStep ==
    ASSUME TypeInv, Experiences = StepExperiences, [Next]_vars
    PROVE  [BufferNext]_bufferVars
<1>1. UNCHANGED bufferVars \/ \E done \in Done : Store(done)
  BY DEF Next, Loop, CollectExperience, TrainEpisode, Evaluate, Begin, TrainOnBatch,
         CollectStep, EvaluateStep, TrainStep, vars
<1> QED BY <1>1, StoredExperience DEF BufferNext

\* Whatever methods are called on a trainer, its buffer is used as ReplayBuffer
\* says: what is proved of the buffer by itself holds of the buffer in use.
THEOREM BufferRefinement ==
    ASSUME Experiences = StepExperiences
    PROVE  Spec => BufferSpec
<1>1. Init => BufferInit
  BY DEF Init
<1> QED BY <1>1, BufferStep, TypeInvCorrect, PTL DEF Spec, BufferSpec

\* In a trainer, too, the buffer is the window of the latest max_size experiences.
THEOREM TrainerWindowCorrect ==
    ASSUME Experiences = StepExperiences
    PROVE  Spec => []PositionOK /\ ImplementsWindow
BY BufferRefinement, PositionCorrect, WindowRefinement, PTL

-----------------------------------------------------------------------------
(* The target network                                                      *)

\* Where the step counter stands between two updates of either kind.
SinceUpdate == total % UpdateFreq
SinceTarget == total % TargetFreq

\* The updates since the target network was set, if it ever was, have been UpdateFreq steps apart,
\* the last of them SinceUpdate steps ago, and all of them in SinceTarget steps.
Apart ==
    \/ lag = 0
    \/ model_type = "dqn" /\ (lag - 1) * UpdateFreq + SinceUpdate + 1 <= SinceTarget

\* Setting the target raises only before the first update.
LagInv == Apart /\ (built # "both" => lag = 0)

\* Counting modulo both frequencies loses neither remainder.
LEMMA NextSince ==
    ASSUME TypeInv, NEW done \in Done, Store(done)
    PROVE  /\ SinceUpdate' = IF SinceUpdate = UpdateFreq - 1 THEN 0 ELSE SinceUpdate + 1
           /\ SinceTarget' = IF SinceTarget = TargetFreq - 1 THEN 0 ELSE SinceTarget + 1
<1> DEFINE N == UpdateFreq * TargetFreq
<1>1. /\ total \in Nat /\ N \in Nat \ {0} /\ total < N
      /\ UpdateFreq \in Nat \ {0} /\ TargetFreq \in Nat \ {0}
  <2>1. total \in 0..N - 1 /\ N \in Nat \ {0}
    BY Sizes DEF TypeInv, CounterTypes
  <2> HIDE DEF N
  <2> QED BY <2>1, SizesAssumption
<1>2. N = TargetFreq * UpdateFreq
  BY <1>1
<1>3. N % UpdateFreq = 0 /\ N % TargetFreq = 0
  <2>1. \A q \in Nat, d \in Nat \ {0} : (q * d + 0) % d = 0
    BY RemainderOf
  <2>2. \A q \in Nat, d \in Nat \ {0} : (q * d) % d = 0
    BY <2>1
  <2> QED BY <1>1, <1>2, <2>2
<1>4. total' = (total + 1) % N
  BY DEF Store
<1>5. total' = IF total + 1 = N THEN 0 ELSE total + 1
  <2> HIDE DEF N
  <2> QED BY <1>1, <1>4, AtDivisor, BelowDivisor
<1>6. ASSUME NEW d \in {UpdateFreq, TargetFreq}
      PROVE  total' % d = (total + 1) % d
  <2> HIDE DEF N
  <2>1. N % d = 0 /\ 0 % d = 0
    BY <1>1, <1>3, BelowDivisor
  <2> QED BY <1>5, <2>1
<1> QED BY <1>1, <1>6, NextRemainder DEF SinceUpdate, SinceTarget

\* A step that stores an experience, and learns or raises.
LEMMA TrainStepLag ==
    ASSUME TypeInv, Apart, UNCHANGED model_type, NEW done \in Done, Store(done),
           \/ UpdateDue /\ TrainStepRaises /\ UNCHANGED lag
           \/ ~(UpdateDue /\ TrainStepRaises) /\ lag' = Learnt
    PROVE  Apart'
<1> DEFINE U == UpdateFreq
<1> DEFINE m == SinceUpdate
<1> DEFINE r == SinceTarget
<1>0. /\ Store(done)
      /\ \/ UpdateDue /\ TrainStepRaises /\ UNCHANGED lag
         \/ ~(UpdateDue /\ TrainStepRaises) /\ lag' = Learnt
  OBVIOUS
<1>1. /\ m \in 0..U - 1 /\ r \in 0..TargetFreq - 1 /\ lag \in Nat
      /\ U \in Nat \ {0} /\ TargetFreq \in Nat \ {0}
  <2>1. total \in Nat /\ lag \in Nat
    BY Sizes DEF TypeInv, CounterTypes
  <2> QED BY <2>1, SizesAssumption, RemainderRange DEF SinceUpdate, SinceTarget
<1>2. /\ m' = IF m = U - 1 THEN 0 ELSE m + 1
      /\ r' = IF r = TargetFreq - 1 THEN 0 ELSE r + 1
  BY <1>0, NextSince
<1>3. TargetDue = (r' = 0 /\ model_type = "dqn") /\ (UpdateDue => m' = 0)
  BY DEF TargetDue, UpdateDue, SinceUpdate, SinceTarget
<1> HIDE DEF U, m, r
<1>4. CASE model_type # "dqn"
  BY <1>0, <1>3, <1>4 DEF Apart, Learnt, TrainStepRaises
<1>5. CASE model_type = "dqn"
  <2>1. lag' = Learnt
    BY <1>0, <1>5 DEF TrainStepRaises
  <2>2. CASE r' = 0
    BY <1>3, <1>5, <2>1, <2>2 DEF Apart, Learnt
  <2>3. CASE r' # 0
    <3>1. r' = r + 1
      BY <1>2, <2>3
    <3>2. CASE UpdateDue
      <4>1. m' = 0 /\ (m = U - 1 \/ m + 1 = 0)
        BY <1>2, <1>3, <3>2
      <4>2. lag' = lag \/ lag' = lag + 1
        BY <1>3, <2>1, <2>3, <3>2 DEF Learnt, Updated
      <4>3. CASE lag = 0
        <5>1. r + 1 >= 1 /\ 0 * U = 0
          BY <1>1
        <5> QED BY <1>5, <3>1, <4>1, <4>2, <4>3, <5>1 DEF Apart, U, m, r
      <4>4. CASE lag # 0
        <5>1. (lag - 1) * U + m + 1 <= r
          BY <4>4 DEF Apart, U, m, r
        <5>2. m = U - 1
          BY <1>1, <4>1
        <5>3. lag * U = (lag - 1) * U + U
          BY <1>1
        <5>4. (lag - 1) * U \in Int
          BY <1>1
        <5>5. lag * U + 0 + 1 <= r + 1 /\ (lag - 1) * U + 0 + 1 <= r + 1
          BY <1>1, <5>1, <5>2, <5>3, <5>4
        <5>6. (lag + 1) - 1 = lag
          BY <1>1
        <5> QED BY <1>5, <3>1, <4>1, <4>2, <5>5, <5>6 DEF Apart, U, m, r
      <4> QED BY <4>3, <4>4
    <3>3. CASE ~UpdateDue
      <4>1. lag' = lag
        BY <1>3, <2>1, <2>3, <3>3 DEF Learnt
      <4>2. m' <= m + 1 /\ m' \in Nat
        BY <1>1, <1>2
      <4>3. ASSUME (lag - 1) * U + m + 1 <= r PROVE (lag - 1) * U + m' + 1 <= r + 1
        <5> DEFINE x == (lag - 1) * U
        <5>1. x \in Int /\ x + m + 1 <= r /\ m \in Nat /\ r \in Nat
          BY <1>1, <4>3
        <5> HIDE DEF x
        <5>2. m' = 0 \/ m' = m + 1
          BY <1>2
        <5>3. x + (m + 1) + 1 <= r + 1 /\ x + 0 + 1 <= r + 1
          BY <5>1
        <5>4. x + m' + 1 <= r + 1
          BY <5>2, <5>3
        <5> QED BY <5>4 DEF x
      <4> QED BY <1>5, <3>1, <4>1, <4>3 DEF Apart, U, m, r
    <3> QED BY <3>2, <3>3
  <2> QED BY <2>2, <2>3
<1> QED BY <1>4, <1>5

LEMMA LagStep ==
    ASSUME TypeInv, LagInv, usage \subseteq {"train", "evaluate"}, [Next]_vars
    PROVE  LagInv'
<1>0. UNCHANGED model_type
  BY DEF Next, Loop, CollectExperience, TrainEpisode, Evaluate, Begin, TrainOnBatch, vars
<1>1. "collect" \notin usage /\ "batch" \notin usage
  OBVIOUS
<1>2. ~CollectStep /\ ~TrainOnBatch
  BY <1>1 DEF CollectStep, TrainOnBatch, TypeInv, CallTypes
<1>3. ASSUME UNCHANGED <<lag, total>>, built = "both" => built' = "both" PROVE LagInv'
  BY <1>0, <1>3 DEF LagInv, Apart, SinceUpdate, SinceTarget
<1>4. CASE TrainStep
  <2>1. PICK exploit \in BOOLEAN :
          \/ BreakOff /\ UNCHANGED <<step, over, bufferVars, total, modelVars>>
          \/ \E done \in Done :
                /\ Store(done)
                /\ built' = BuiltAfter(exploit)
                /\ \/ ((UpdateDue /\ TrainStepRaises) \/ TargetRaises) /\ UNCHANGED lag
                   \/ ~((UpdateDue /\ TrainStepRaises) \/ TargetRaises) /\ lag' = Learnt
    BY <1>4 DEF TrainStep
  <2>2. CASE UNCHANGED <<total, modelVars>>
    BY <1>3, <2>2 DEF modelVars
  <2>3. ASSUME NEW done \in Done, Store(done), built' = BuiltAfter(exploit),
               \/ ((UpdateDue /\ TrainStepRaises) \/ TargetRaises) /\ UNCHANGED lag
               \/ ~((UpdateDue /\ TrainStepRaises) \/ TargetRaises) /\ lag' = Learnt
        PROVE  LagInv'
    <3>1. built' # "both" => built # "both" /\ ~(UpdateDue /\ ~TrainStepRaises)
      BY <2>3 DEF BuiltAfter, Forward
    <3>2. (lag = 0 /\ UNCHANGED lag) \/ Apart'
      <4>1. CASE TargetRaises /\ UNCHANGED lag
        BY <3>1, <4>1 DEF TargetRaises, LagInv
      <4>2. CASE ~(TargetRaises /\ UNCHANGED lag)
        BY <1>0, <2>3, <4>2, TrainStepLag DEF LagInv
      <4> QED BY <4>1, <4>2
    <3>3. built' # "both" => lag' = 0
      BY <2>3, <3>1 DEF LagInv, Learnt
    <3> QED BY <3>2, <3>3 DEF LagInv, Apart
  <2> QED BY <2>1, <2>2, <2>3
<1> QED BY <1>2, <1>3, <1>4 DEF Next, Loop, CollectExperience, TrainEpisode, Evaluate, Begin,
                                EvaluateStep, Forward, modelVars, vars

\* What fits between two updates of the target network is less than MaxLag.
LEMMA LagBound == ASSUME TypeInv, LagInv PROVE lag < MaxLag
<1> DEFINE U == UpdateFreq
<1> DEFINE T == TargetFreq
<1>0. /\ U \in Nat \ {0} /\ T \in Nat \ {0} /\ lag \in Nat
      /\ SinceUpdate \in Nat /\ SinceTarget \in 0..T - 1
  <2>1. total \in Nat /\ lag \in Nat
    BY Sizes DEF TypeInv, CounterTypes
  <2>2. U \in Nat \ {0} /\ T \in Nat \ {0}
    BY SizesAssumption
  <2>3. total % U \in 0..U - 1 /\ total % T \in 0..T - 1
    BY <2>1, <2>2, RemainderRange
  <2>4. \A n \in Nat \ {0} : 0..n - 1 \subseteq Nat
    OBVIOUS
  <2> QED BY <2>1, <2>2, <2>3, <2>4 DEF SinceUpdate, SinceTarget
<1>1. CASE lag = 0
  BY <1>1, Sizes
<1>2. CASE lag # 0
  <2>1. (lag - 1) * U + SinceUpdate + 1 <= SinceTarget
    BY <1>2 DEF LagInv, Apart
  <2> HIDE DEF U, T
  <2>2. (lag - 1) * U \in Int /\ lag * U = (lag - 1) * U + U
    BY <1>0
  <2>3. \A x, a, c, t, u \in Int : x + a + 1 <= c /\ a >= 0 /\ c <= t - 1 => x + u <= t + u - 2
    OBVIOUS
  <2>4. (lag - 1) * U + U <= T + U - 2
    BY <1>0, <2>1, <2>2, <2>3
  <2>5. T + U - 2 \in Nat
    BY <1>0
  <2>6. lag <= (T + U - 2) \div U
    BY <1>0, <2>2, <2>4, <2>5, QuotientBound
  <2>7. (T + U - 2) \div U \in Nat
    BY <1>0, <2>5, Division
  <2> QED BY <1>0, <2>6, <2>7 DEF MaxLag, U, T
<1> QED BY <1>1, <1>2

\* For all frequencies, batch sizes and sizes of the buffer, episodes as
\* train_episode runs them do not let the target network fall behind by more than
\* the updates that fit between two of its own.
THEOREM FreshCorrect == Spec => []TargetFresh
<1> DEFINE FreshInv == usage \subseteq {"train", "evaluate"} => LagInv
<1>1. Init => FreshInv
  BY DEF Init, LagInv, Apart
<1>2. TypeInv /\ FreshInv /\ [Next]_vars => FreshInv'
  <2>1. [Next]_vars => UNCHANGED usage
    BY DEF Next, Loop, CollectExperience, TrainEpisode, Evaluate, Begin, TrainOnBatch, vars
  <2> QED BY <2>1, LagStep
<1>3. TypeInv /\ FreshInv => TargetFresh
  BY LagBound DEF TargetFresh
<1> QED BY <1>1, <1>2, <1>3, TypeInvCorrect, PTL DEF Spec

-----------------------------------------------------------------------------
(* Episodes                                                                *)

\* Nobody collects on a trainer that also trains or is evaluated: either would
\* move the environment in the middle of an episode that collect_experience
\* means to go on with.
Separate == \A u \in Usages : "collect" \in u => u \cap {"train", "evaluate"} = {}

Last == Window[Len(Window)]

\* e may come after d in the window.
MayFollow(d, e) == e.from = IF d.done \/ e.broke THEN 0 ELSE d.from + 1

\* What the environment does next continues what the window ends with.
Follows ==
    /\ ~over
    /\ Len(Window) > 0 => step = IF Last.done \/ broke THEN 0 ELSE Last.from + 1

EpisodeInv ==
    /\ EpisodesWhole
    /\ "collect" \in usage => Follows /\ ~broke
    /\ call.method = "train" => Follows
    /\ "collect" \notin usage /\ call.method # "train" /\ Len(Window) > 0 => Last.done \/ broke

\* The window, cut at its beginning, grows by what follows its end.
LEMMA StoreKeepsEpisodes ==
    ASSUME TypeInv, PositionOK, PositionOK', Experiences = StepExperiences,
           EpisodesWhole, Follows, UNCHANGED model_type, NEW done \in Done, Store(done)
    PROVE  /\ EpisodesWhole'
           /\ Len(Window') \in Nat \ {0}
           /\ Last' = [from |-> step, over |-> over, done |-> done, broke |-> broke]
<1> DEFINE e == [from |-> step, over |-> over, done |-> done, broke |-> broke]
<1> DEFINE old == IF Len(Window) < MaxSize THEN Window ELSE Tail(Window)
<1> DEFINE k == IF Len(Window) < MaxSize THEN 0 ELSE 1
<1>1. e \in Experiences /\ Window' = Append(old, e)
  BY StoredExperience, WindowStep DEF Latest!Add
<1>2. Window \in Seq(Experiences) /\ Len(Window) = Len(buffer) /\ Len(Window) <= MaxSize
  BY WindowIs DEF WindowFacts, PositionOK
<1>3. /\ old \in Seq(Experiences) /\ Len(old) = Len(Window) - k
      /\ \A i \in 1..Len(old) : old[i] = Window[i + k] /\ i + k \in 1..Len(Window)
  <2>1. CASE Len(Window) < MaxSize
    BY <1>2, <2>1
  <2>2. CASE ~(Len(Window) < MaxSize)
    <3>1. Window # <<>> /\ old = Tail(Window) /\ k = 1
      BY <1>2, <2>2, MaxSizeAssumption
    <3> QED BY <1>2, <3>1
  <2> QED BY <2>1, <2>2
<1> HIDE DEF e, old, k
<1>4. /\ Len(Window') = Len(old) + 1
      /\ \A i \in 1..Len(old) : Window'[i] = old[i]
      /\ Window'[Len(old) + 1] = e
      /\ Len(old) \in Nat
  BY <1>1, <1>3
<1>5. k \in Nat
  BY DEF k
<1>6. \A i \in 1..Len(Window) : ~Window[i].over /\ (i > 1 => MayFollow(Window[i - 1], Window[i]))
  BY DEF EpisodesWhole, MayFollow
<1>7. ASSUME NEW i \in 1..Len(old) + 1
      PROVE  ~Window'[i].over /\ (i > 1 => MayFollow(Window'[i - 1], Window'[i]))
  <2>1. CASE i \in 1..Len(old)
    <3>1. PICK j \in 1..Len(Window) : j = i + k
      BY <1>3, <2>1
    <3>2. Window'[i] = Window[j]
      BY <1>3, <1>4, <2>1, <3>1
    <3>3. ASSUME i > 1 PROVE Window'[i - 1] = Window[j - 1] /\ j > 1
      <4>1. i - 1 \in 1..Len(old) /\ (i - 1) + k = j - 1 /\ j > 1
        BY <1>4, <1>5, <2>1, <3>1, <3>3
      <4> QED BY <1>3, <1>4, <4>1
    <3>4. ~Window[j].over /\ (j > 1 => MayFollow(Window[j - 1], Window[j]))
      BY <1>6
    <3> QED BY <3>2, <3>3, <3>4
  <2>2. CASE i = Len(old) + 1
    <3>1. Window'[i] = e /\ ~e.over
      BY <1>4, <2>2 DEF e, Follows
    <3>2. ASSUME i > 1 PROVE Window'[i - 1] = Last /\ Len(Window) > 0
      <4>1. i - 1 = Len(old) /\ Len(old) \in 1..Len(old) /\ Len(old) + k = Len(Window)
        BY <1>2, <1>3, <1>4, <1>5, <2>2, <3>2
      <4> QED BY <1>2, <1>3, <1>4, <1>5, <4>1 DEF Last
    <3>3. Len(Window) > 0 => MayFollow(Last, e)
      BY DEF Follows, MayFollow, e
    <3> QED BY <3>1, <3>2, <3>3
  <2> QED BY <1>4, <2>1, <2>2
<1>8. EpisodesWhole'
  BY <1>4, <1>7 DEF EpisodesWhole, MayFollow
<1> QED BY <1>4, <1>8 DEF Last, e

LEMMA EpisodeInvStep ==
    ASSUME Separate, Experiences = StepExperiences
    PROVE  TypeInv /\ PositionOK /\ PositionOK' /\ EpisodeInv /\ [Next]_vars => EpisodeInv'
<1> SUFFICES ASSUME TypeInv, PositionOK, PositionOK', EpisodeInv, [Next]_vars
             PROVE  EpisodeInv'
  OBVIOUS
<1>0. /\ UNCHANGED <<usage, model_type>>
      /\ "collect" \in usage => usage \cap {"train", "evaluate"} = {}
      /\ call.method \in {"idle"} \cup usage
  BY DEF Next, Loop, CollectExperience, TrainEpisode, Evaluate, Begin, TrainOnBatch, vars,
         Separate, TypeInv, EnvironmentTypes, CallTypes
<1>1. ASSUME UNCHANGED bufferVars
      PROVE  /\ UNCHANGED Window /\ UNCHANGED Last
             /\ EpisodesWhole'
  <2>1. UNCHANGED Window
    BY <1>1 DEF Window, Oldest, bufferVars
  <2> QED BY <1>0, <2>1 DEF Last, EpisodesWhole, EpisodeInv
<1>2. CASE UNCHANGED vars
  BY <1>1, <1>2 DEF vars, EpisodeInv, Follows
<1>3. CASE TrainOnBatch
  BY <1>1, <1>3 DEF TrainOnBatch, EpisodeInv, Follows
<1>4. ASSUME NEW n \in 1..MaxCount, CollectExperience(n) PROVE EpisodeInv'
  <2>1. /\ "collect" \in usage /\ call'.method = "collect"
        /\ UNCHANGED <<step, over, bufferVars, broke>>
    BY <1>4 DEF CollectExperience, Begin
  <2> QED BY <1>0, <1>1, <2>1 DEF EpisodeInv, Follows
<1>5. CASE TrainEpisode
  <2>1. /\ "collect" \notin usage /\ call.method = "idle" /\ call'.method = "train"
        /\ step' = 0 /\ ~over' /\ UNCHANGED <<bufferVars, broke>>
    BY <1>0, <1>5 DEF TrainEpisode, Begin, Reset, Idle
  <2>2. Follows'
    BY <1>0, <1>1, <2>1 DEF EpisodeInv, Follows
  <2> QED BY <1>0, <1>1, <2>1, <2>2 DEF EpisodeInv
<1>6. ASSUME EvaluateStep \/ \E n \in 1..MaxCount : Evaluate(n) PROVE EpisodeInv'
  <2>1. /\ "collect" \notin usage /\ call.method # "train" /\ call'.method # "train"
        /\ UNCHANGED <<bufferVars, broke>>
    <3>1. CASE EvaluateStep
      <4>1. /\ call.method = "evaluate" /\ UNCHANGED <<bufferVars, broke>>
            /\ call' = Idle \/ UNCHANGED call \/ Return
        BY <3>1 DEF EvaluateStep
      <4>2. call'.method # "train"
        BY <4>1 DEF Return, Idle, TypeInv, CallTypes
      <4> QED BY <1>0, <4>1, <4>2
    <3>2. CASE \E n \in 1..MaxCount : Evaluate(n)
      BY <1>0, <3>2 DEF Evaluate, Begin, Idle
    <3> QED BY <1>6, <3>1, <3>2
  <2> QED BY <1>0, <1>1, <2>1 DEF EpisodeInv
<1>7. CASE CollectStep
  <2>0. "collect" \in usage /\ call'.method # "train" /\ Follows /\ ~broke
    BY <1>0, <1>7 DEF CollectStep, Return, Idle, EpisodeInv, TypeInv, CallTypes
  <2>1. CASE UNCHANGED <<step, over, bufferVars, broke>>
    BY <1>0, <1>1, <2>0, <2>1 DEF EpisodeInv, Follows
  <2>2. ASSUME NEW done \in Done, Store(done), AfterCollected(done), ~broke'
        PROVE  EpisodeInv'
    <3>1. EpisodesWhole' /\ Last' = [from |-> step, over |-> over, done |-> done, broke |-> broke]
      BY <1>0, <2>0, <2>2, StoreKeepsEpisodes DEF EpisodeInv
    <3>2. ~over' /\ step' = IF done THEN 0 ELSE step + 1
      BY <2>0, <2>2, StepTypes DEF AfterCollected, Reset, Step, Follows
    <3>3. Follows'
      BY <2>2, <3>1, <3>2 DEF Follows
    <3> QED BY <1>0, <2>0, <2>2, <3>1, <3>3 DEF EpisodeInv
  <2> QED BY <1>7, <2>1, <2>2 DEF CollectStep
<1>8. CASE TrainStep
  <2>0. "collect" \notin usage /\ Follows
    BY <1>0, <1>8 DEF TrainStep, EpisodeInv
  <2>1. CASE BreakOff /\ UNCHANGED bufferVars
    BY <1>0, <1>1, <2>0, <2>1 DEF BreakOff, Idle, EpisodeInv
  <2>2. ASSUME NEW done \in Done, Store(done), Step(done),
               \/ BreakOff
               \/ call' = (IF done THEN Idle ELSE call) /\ broke' = FALSE
        PROVE  EpisodeInv'
    <3>1. EpisodesWhole' /\ Last' = [from |-> step, over |-> over, done |-> done, broke |-> broke]
      BY <1>0, <2>0, <2>2, StoreKeepsEpisodes DEF EpisodeInv
    <3>2. step' = step + 1 /\ over' = done
      BY <2>0, <2>2, StepTypes DEF Step, Follows
    <3>3. call'.method = "train" => ~done /\ ~broke'
      BY <2>2 DEF BreakOff, Idle
    <3>4. ~done /\ ~broke' => Follows'
      BY <3>1, <3>2 DEF Follows
    <3>5. call'.method # "train" => done \/ broke'
      BY <1>8, <2>2 DEF TrainStep, BreakOff
    <3> QED BY <1>0, <2>0, <3>1, <3>3, <3>4, <3>5 DEF EpisodeInv
  <2>3. \/ BreakOff /\ UNCHANGED bufferVars
        \/ \E done \in Done :
              /\ Store(done) /\ Step(done)
              /\ \/ BreakOff
                 \/ call' = (IF done THEN Idle ELSE call) /\ broke' = FALSE
    BY <1>8 DEF TrainStep
  <2> QED BY <2>1, <2>2, <2>3
<1> QED BY <1>2, <1>3, <1>4, <1>5, <1>6, <1>7, <1>8 DEF Next, Loop

\* What is stored is episodes, one after the other and without a gap, and whole
\* but for the ones in which train_episode has raised, for every size of the
\* buffer, length of the episodes and choice of the frequencies and the batch
\* size, as long as no trainer both collects and trains or evaluates.
THEOREM EpisodesCorrect ==
    ASSUME Separate, Experiences = StepExperiences
    PROVE  Spec => []EpisodesWhole
<1>1. Init => EpisodeInv
  <2> SUFFICES ASSUME Init PROVE EpisodeInv
    OBVIOUS
  <2>1. Len(Window) = 0
    BY DEF Init, BufferInit, Window
  <2> QED BY <2>1 DEF Init, Idle, EpisodeInv, EpisodesWhole, Follows
<1>2. EpisodeInv => EpisodesWhole
  BY DEF EpisodeInv
<1> QED BY <1>1, <1>2, EpisodeInvStep, TypeInvCorrect, TrainerWindowCorrect, PTL DEF Spec

=============================================================================
