SPECIFICATION Spec
CONSTANT Modules <- MCModules
INVARIANT ClearedUp
CHECK_DEADLOCK FALSE
