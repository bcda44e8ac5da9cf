CONSTANTS
  t1 = t1
  t2 = t2
  Threads = {t1, t2}
  LoopThread = loop
  MaxPosts <- Posts
  PostBeforeLoop = FALSE
SPECIFICATION Spec
INVARIANTS NoLostWakeup
PROPERTIES QueuedIsRun ImplementsQueue QuitEndsLoop
\* The loop may quit and its threads may have nothing more to say.
CHECK_DEADLOCK FALSE
