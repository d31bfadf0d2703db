SPECIFICATION Spec
CONSTANTS
    MaxSteps = 3
    MaxSize = 4
    BatchSize = 4
    UpdateFreq = 2
    TargetFreq = 3
    MaxCount = 2
    Experiences <- StepExperiences
    ModelTypes = {"dqn", "policy_gradient"}
    Usages = {{"train", "evaluate"}, {"collect", "batch"}}
INVARIANTS TypeOK EpisodesWhole TargetFresh
PROPERTIES Finishes ImplementsWindow
