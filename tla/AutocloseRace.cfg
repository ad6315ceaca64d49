SPECIFICATION AutocloseSpec
CONSTANTS
    q1 = q1
    Questions = {q1}
    Nobody = Nobody
    MaxAnswers <- TwoAnswers
PROPERTY
    NoCloseAfterCancel
CHECK_DEADLOCK FALSE
