SPECIFICATION IntroductionSpec
CONSTANTS
    MaxVisits = 2
    MaxVersion = 1
    MaxEvents = 2
    Calls <- MCCalls
INVARIANTS IntroductionTypeOK AnsweredOnce AnswersAreFresh AssertionsHold
    OutstandingIsExact AnswerIsComing
PROPERTY PhotosStay
