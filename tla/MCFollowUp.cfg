\* Two overlapping invocations, two questions, and a deletion at any moment, under
\* fairness.
CONSTANTS
    c1 = c1
    c2 = c2
    q1 = q1
    q2 = q2
    a1 = a1
    a2 = a2
    a3 = a3
    Calls <- TwoCalls
    Questions <- TwoQuestions
    Answers <- ThreeAnswers
    About <- AboutAnswer
    NoCall = NoCall
    NoQuestion = NoQuestion
    NoAnswer = NoAnswer
SPECIFICATION FairSpec
INVARIANTS
    TypeOK
    OneAnswerShown
    AnswerFitsQuestion
    DeletedStaysEmpty
PROPERTIES
    ClaimIsExclusive
    QuestionIsAnswered
CHECK_DEADLOCK FALSE
