SPECIFICATION DispatchSpec
CONSTANT Clients = {c1, c2}
INVARIANTS LeavesNothing NobodyStranded
PROPERTIES ImplementsBoard CancelledStops Answered
