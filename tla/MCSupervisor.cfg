SPECIFICATION FairSpec
CONSTANT N = 3
INVARIANT NoChildLeft
PROPERTIES SignalsOwnChild TriggerEndsSession
