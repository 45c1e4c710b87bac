SPECIFICATION Spec
INVARIANTS
  MailKept
  
  
PROPERTIES
  MailSent
  StreamCatchesUp
\* The bounds end a behaviour.
CHECK_DEADLOCK FALSE
