SPECIFICATION Spec
CONSTANTS
    NoExpert = NoExpert
    Expert = {e1, e2, e3}
    Layer = {l1}
    SlotCount = 2
    Policy = "Lfu"
    MaxClock = 3
INVARIANTS
    PlanHoldsItsSlots
    KernelsReadTheirExpert
PROPERTY BatchEnds
