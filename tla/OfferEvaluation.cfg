CONSTANTS
    NULL = NULL
    MINIMUM_CONNECTION = 45
    DAY = 1440
    ISO_4217 = {"EUR", "USD"}
    known_airports = {"FCO", "LIN"}
    known_carriers = {"AZ"}
    Answers <- MCAnswers
    Questions <- MCQuestions
SPECIFICATION Spec
INVARIANTS
    AcceptedCanBeFlown
    FiltersNeverRaise
    FilteringAndRankingCommute
CHECK_DEADLOCK FALSE
