SPECIFICATION FairSpec
CONSTANTS
    ActorId = {a1, a2, a3}
    Envelope = {e1}
    NoActor = NoActor
    MaxMailbox = 2
INVARIANTS
    ReadyOnce
    ReadyIffPending
    NoEmptyMailbox
PROPERTIES
    NoSecondTurn
    NoStarvation
