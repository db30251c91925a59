CONSTANTS
    w1 = w1
    r1 = r1
    a = a
    b = b
    zero = zero
    Writers <- OneWriter
    Readers <- OneReader
    Items <- TwoItems
    NoItem = zero
    ItemNum = 2
    MaxCount = 3
SPECIFICATION Spec
INVARIANTS ExclusiveSlot SlotsConserved
PROPERTIES ImplementsFifo
