SPECIFICATION FairSpec
CONSTANT LongPreemption = FALSE
PROPERTY ImplementsAtomicSwitch
PROPERTY CallReturns
