SPECIFICATION Spec
CONSTANT Releases <- AllReleases
INVARIANT AssignableIsGreatest
PROPERTY CallersUnaffected
