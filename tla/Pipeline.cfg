\* The stages, the checkpoint and the stop of two successive slash commands.
CONSTANTS
  MaxPipelines = 2
  Unborn = Unborn
  Deleted = Deleted

SPECIFICATION SpecRunner

INVARIANTS
  RunningStageHasChild
  StageMatchesRun
  CompletedIsWhole

PROPERTIES
  ReviewerNeedsAnswer
  StopIsACancel
  StoppedPipelineEnds
  PipelineEnds
