SPECIFICATION Spec
CHECK_DEADLOCK FALSE
CONSTANTS
 MaxLabel = 2
 MaxText = 2
 MaxMetadataBytes = 50
 MaxPayloadBytes = 8
INVARIANTS PlanSound MembersSurviveTheWire AnswersSurviveTheWire
