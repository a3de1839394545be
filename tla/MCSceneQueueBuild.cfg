CONSTANT Task <- MCTask
SPECIFICATION Spec
INVARIANTS SceneQueueExact
PROPERTIES Terminates
