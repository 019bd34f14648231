\* Two keys and a caller without one, in a process that has no key of its own.
SPECIFICATION Spec
CONSTANTS
  Caller <- Callers
  Key <- Keys
  Request <- Requests
  KeyOf <- TypedKeys
  NoKey = NoKey
  Ambient = NoKey
  Traced = TRUE
  None = None
INVARIANTS
  CallsTypeOK
  KeysStayApart
PROPERTIES
  CallsEnd
\* It ends when every click is answered; CallsEnd says that nothing else ends it.
CHECK_DEADLOCK FALSE
