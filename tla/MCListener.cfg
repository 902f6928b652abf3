SPECIFICATION FairSpec
CONSTANTS
    Mine = {s1}
    MaxEvents = 2
    Others = {s3}
PROPERTY CounterpartyNotified
CHECK_DEADLOCK FALSE
