SPECIFICATION Spec
CONSTANTS
    Threads = {t1, t2}
    CALLBACK_STACK_SLOTS = 2
    StubSlots = 9
    ThunkSlots = 2
    StructSlots = 1
INVARIANTS
    StacksPrivate
    ThunksIntact
PROPERTY
    ReturnsToCaller
