SPECIFICATION Spec
CONSTANTS
  Topics = {fact, risk, boundary}
  MaxQuestions = 2
INVARIANTS AnswersAreTheUsers WorkersInsideReview ReportIsReal
PROPERTIES PlanningEnds
CHECK_DEADLOCK FALSE
