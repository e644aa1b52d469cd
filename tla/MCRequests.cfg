SPECIFICATION Spec
CONSTANTS
    Base = 6
    Strings <- Texts
    Parameters <- Tuples
    Queries <- LongTexts
    MaxRequests = 2
PROPERTIES MessagesArrive
CHECK_DEADLOCK FALSE
