--------------------------- MODULE MCAlertPipeline ---------------------------
\* Constant values for model checking AlertPipeline.
EXTENDS AlertPipeline, TLC

CONSTANT r1

NoPrompts == {}
OnePrompt == {r1}
InputStatuses == {"idle", "running", "waiting_for_input"}
ApprovalStatuses == {"idle", "waiting_for_approval"}

=============================================================================
