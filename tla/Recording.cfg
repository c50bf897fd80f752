SPECIFICATION Spec
CONSTANT Clients = {c1, c2}
INVARIANT RecordingIsReal
CHECK_DEADLOCK FALSE
