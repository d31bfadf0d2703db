----------------------------- MODULE Training -----------------------------
(***************************************************************************)
(* TrainingEnvironment and AgentTrainer (src/training/train.py): the calls *)
(* that share one environment, one ReplayBuffer and one step counter.  Of  *)
(* the learning only what decides whether it goes on is modelled: which of *)
(* the networks have weights (they are built by their first forward pass), *)
(* and the number of updates the target network is behind.                 *)
(***************************************************************************)
EXTENDS ReplayBuffer

CONSTANTS
    MaxSteps,      \* env.max_steps
    BatchSize,     \* batch_size
    UpdateFreq,    \* update_freq
    TargetFreq,    \* target_update_freq
    ModelTypes,    \* values of model_type
    Usages,        \* sets of methods that are called together on one trainer
    MaxCount       \* bound: num_steps of collect_experience, num_episodes of evaluate

ASSUME SizesAssumption ==
    {MaxSteps, BatchSize, UpdateFreq, TargetFreq, MaxCount} \subseteq Nat \ {0}
ASSUME UsagesAssumption ==
    /\ Usages \subseteq SUBSET {"collect", "train", "evaluate", "batch"}
    /\ ModelTypes \subseteq {"dqn", "policy_gradient"}

VARIABLES
    usage,     \* which of Usages this behaviour is of
    model_type,
    step,      \* env.current_step
    over,      \* the episode the environment is in has ended
    call,      \* the method that is running, and what is left of its count
    total,     \* total_steps, modulo both frequencies it is compared with
    lag,       \* updates of the network since the target network was set, or since
               \* the start: the constructor's set_weights finds no weights to copy
    built,     \* the networks of a dqn that have weights: "none", "network", "both"
    broke      \* history: train_episode has raised and nothing was stored since

modelVars == <<lag, built>>
vars == <<usage, model_type, step, over, call, total, modelVars, broke, bufferVars>>

Idle == [method |-> "idle", left |-> 0]

\* Bounds where the counters stay: one step more than max_steps, which the code
\* does not keep between two steps, and one lag more than TargetFresh allows.
StepCap == MaxSteps + 1
MaxLag == (TargetFreq + UpdateFreq - 2) \div UpdateFreq + 1

\* An experience: the step and the state it starts in, and whether it ends the
\* episode; broke is history: the call before it raised in the middle of its episode.
StepExperiences == [from : 0..StepCap, over : BOOLEAN, done : BOOLEAN, broke : BOOLEAN]

\* env._state is None is not told apart from a fresh reset: whoever finds it
\* None resets the environment first.
Init ==
    /\ usage \in Usages
    /\ model_type \in ModelTypes
    /\ step = 0
    /\ over = FALSE
    /\ call = Idle
    /\ BufferInit
    /\ total = 0
    /\ lag = 0
    /\ built = "none"
    /\ broke = FALSE

-----------------------------------------------------------------------------

\* Faulty variants of Forced: the episode ends one step late; it ends only by chance.
ForcedLate(n) == n > MaxSteps
ForcedNever(n) == FALSE

\* done, whatever the random number says
Forced(n) == n >= MaxSteps

Stepped == IF step = StepCap THEN step ELSE step + 1

Done == {d \in BOOLEAN : Forced(Stepped) => d}

Reset ==
    /\ step' = 0
    /\ over' = FALSE

Step(done) ==
    /\ step' = Stepped
    /\ over' = done

Store(done) ==
    /\ Add([from |-> step, over |-> over, done |-> done, broke |-> broke])
    /\ total' = (total + 1) % (UpdateFreq * TargetFreq)

-----------------------------------------------------------------------------
(* select_action.  With training set a random number and epsilon decide    *)
(* whether it explores; otherwise, and without training, it exploits.      *)

\* The network of a policy gradient returns a tuple, which has no numpy().
SelectRaises(exploit) == exploit /\ model_type # "dqn"

\* A forward pass builds the network.
Forward(exploit) == IF exploit /\ built = "none" THEN "network" ELSE built

-----------------------------------------------------------------------------
(* The calls                                                               *)

Begin(m, n) ==
    /\ call = Idle
    /\ m \in usage
    /\ call' = [method |-> m, left |-> n]
    /\ UNCHANGED <<usage, model_type, bufferVars, total, modelVars, broke>>

CollectExperience(n) ==
    /\ Begin("collect", n)
    /\ UNCHANGED <<step, over>>

TrainEpisode ==
    /\ Begin("train", 1)
    /\ Reset

Evaluate(n) ==
    /\ Begin("evaluate", n)
    /\ Reset

Return == call' = IF call.left = 1 THEN Idle ELSE [call EXCEPT !.left = @ - 1]

\* Faulty variant of AfterCollected: the environment is not reset.
GoOn(done) == Step(done)

AfterCollected(done) == IF done THEN Reset ELSE Step(done)

CollectStep ==
    /\ call.method = "collect"
    /\ \E exploit \in BOOLEAN :
        \/ /\ SelectRaises(exploit)
           /\ call' = Idle
           /\ UNCHANGED <<step, over, bufferVars, total, built, broke>>
        \/ /\ ~SelectRaises(exploit)
           /\ \E done \in Done : Store(done) /\ AfterCollected(done)
           /\ Return
           /\ built' = Forward(exploit)
           /\ broke' = FALSE
    /\ UNCHANGED lag

EvaluateStep ==
    /\ call.method = "evaluate"
    /\ \/ /\ SelectRaises(TRUE)
          /\ call' = Idle
          /\ UNCHANGED <<step, over, built>>
       \/ /\ ~SelectRaises(TRUE)
          /\ \E done \in Done :
              \/ ~done /\ Step(done) /\ UNCHANGED call
              \/ done /\ (IF call.left = 1 THEN Step(done) ELSE Reset) /\ Return
          /\ built' = Forward(TRUE)
    /\ UNCHANGED <<bufferVars, total, lag, broke>>

-----------------------------------------------------------------------------
(* Learning                                                                *)

\* train_step reads target_network, which only a dqn has.
TrainStepRaises == model_type # "dqn"

Updated(l) == IF l = MaxLag THEN l ELSE l + 1

UpdateDue == total' % UpdateFreq = 0 /\ Len(buffer') >= BatchSize
TargetDue == total' % TargetFreq = 0 /\ model_type = "dqn"

\* Faulty variant of Learnt: the target is set before the network is updated.
LearntAfterTarget ==
    LET l == IF TargetDue THEN 0 ELSE lag
    IN  IF UpdateDue THEN Updated(l) ELSE l

\* The update, then the target network
Learnt ==
    IF TargetDue THEN 0 ELSE IF UpdateDue THEN Updated(lag) ELSE lag

\* train_step passes both networks forward.
BuiltAfter(exploit) == IF UpdateDue /\ ~TrainStepRaises THEN "both" ELSE Forward(exploit)

\* update_target_network sets the weights of a network that may have none yet,
\* to those of one that has: the lists differ in length, and set_weights raises.
TargetRaises == TargetDue /\ built' = "network"

BreakOff ==
    /\ call' = Idle
    /\ broke' = TRUE

TrainStep ==
    /\ call.method = "train"
    /\ \E exploit \in BOOLEAN :
        \/ /\ SelectRaises(exploit)
           /\ BreakOff
           /\ UNCHANGED <<step, over, bufferVars, total, modelVars>>
        \/ /\ ~SelectRaises(exploit)
           /\ \E done \in Done :
               /\ Store(done)
               /\ Step(done)
               /\ built' = BuiltAfter(exploit)
               /\ \/ /\ (UpdateDue /\ TrainStepRaises) \/ TargetRaises
                     /\ BreakOff
                     /\ UNCHANGED lag
                  \/ /\ ~((UpdateDue /\ TrainStepRaises) \/ TargetRaises)
                     /\ lag' = Learnt
                     /\ call' = IF done THEN Idle ELSE call
                     /\ broke' = FALSE

\* train_on_batch, called by itself: without enough experiences it does
\* nothing, and a model that is not a dqn raises.
TrainOnBatch ==
    /\ call = Idle
    /\ "batch" \in usage
    /\ Len(buffer) >= BatchSize
    /\ ~TrainStepRaises
    /\ lag' = Updated(lag)
    /\ built' = "both"
    /\ UNCHANGED <<usage, model_type, step, over, call, bufferVars, total, broke>>

Loop ==
    /\ CollectStep \/ EvaluateStep \/ TrainStep
    /\ UNCHANGED <<usage, model_type>>

Next ==
    \/ \E n \in 1..MaxCount : CollectExperience(n) \/ Evaluate(n)
    \/ TrainEpisode
    \/ Loop
    \/ TrainOnBatch

\* A call is a loop that runs until it returns.
Spec == Init /\ [][Next]_vars /\ WF_vars(Loop)

-----------------------------------------------------------------------------

\* The types, and that an episode has ended when the environment has taken
\* max_steps steps.
TypeOK ==
    /\ usage \in Usages
    /\ model_type \in ModelTypes
    /\ step \in 0..StepCap
    /\ over \in BOOLEAN
    /\ call \in [method : {"idle"} \cup usage, left : 0..MaxCount]
    /\ total \in 0..UpdateFreq * TargetFreq - 1
    /\ lag \in 0..MaxLag
    /\ built \in {"none", "network", "both"}
    /\ broke \in BOOLEAN
    /\ ~over => step < MaxSteps

\* The buffer holds episodes without gaps: an experience that does not end its
\* episode is followed by the one that starts where it ends, and one that does
\* by the first of another, never by a step out of a finished state.  The one
\* exception is an episode in which train_episode has raised: there the next one
\* begins, and nowhere else.
EpisodesWhole ==
    \A i \in 1..Len(Window) :
        /\ ~Window[i].over
        /\ i > 1 => Window[i].from = IF Window[i - 1].done \/ Window[i].broke
                                    THEN 0 ELSE Window[i - 1].from + 1

\* Episodes as train_episode runs them never let the target network fall further
\* behind than the updates that fit between two of its own, whatever the
\* frequencies and however short the episodes and full the buffer.
TargetFresh == usage \subseteq {"train", "evaluate"} => lag < MaxLag

\* Every call returns, though an episode ends by chance or by force only.
Finishes == call # Idle ~> call = Idle

\* "Maximum steps per episode before forced termination" (TrainingEnvironment):
\* nothing stored was collected in a step beyond them.
StepsBounded == \A i \in 1..Len(Window) : Window[i].from < MaxSteps

=============================================================================
