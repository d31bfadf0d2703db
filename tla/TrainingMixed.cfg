SPECIFICATION Spec
CONSTANTS
    MaxSteps = 3
    MaxSize = 4
    BatchSize = 2
    UpdateFreq = 2
    TargetFreq = 3
    MaxCount = 2
    Experiences <- StepExperiences
    ModelTypes = {"dqn"}
    Usages = {{"collect", "train"}}
INVARIANT StepsBounded
