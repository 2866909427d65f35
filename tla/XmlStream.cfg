SPECIFICATION Spec
CONSTANT Starts <- MCStarts
INVARIANTS CutsInvisible AttributesAgree CharRefsExact
CHECK_DEADLOCK FALSE
