SPECIFICATION FairSpec
CHECK_DEADLOCK FALSE
CONSTANTS
 Vocab = {"a", "b"}
 EOG = "end"
 Prompt <- MCPrompt
 MaxTokens = 4
 CtxSize = 6
 Stages = 3
 MaxDraft = 2
 MaxFaults = 2
INVARIANTS StagesAgree ReservedPositionsSuffice OnlyUnansweredStayOpen
PROPERTIES GreedyOutput GenerationEnds
