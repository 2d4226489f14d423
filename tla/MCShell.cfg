\* Any command may time out, and terminate may fail each time it does.
CONSTANTS
  MaxExecs = 4
SPECIFICATION Spec
INVARIANTS ReadyWhenAnswered
PROPERTIES ImplementsServer AnsweredOnce EveryExecAnswered
CHECK_DEADLOCK FALSE
