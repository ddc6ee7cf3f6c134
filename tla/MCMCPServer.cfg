CONSTANTS MaxMessages = 3  MaxPages = 2  PipeAnswers = 1
SPECIFICATION Spec
INVARIANTS AnswersMatchRequests NothingLeftOpen
PROPERTIES AllTaken ReturnsAfterInput
CHECK_DEADLOCK FALSE
