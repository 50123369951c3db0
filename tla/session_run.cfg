\* A running command without authentication: messages, pump, timers, exit.
SPECIFICATION Spec
CONSTANTS
  alice = alice
  mallory = mallory
  NoIdentity = NoIdentity
  Identities <- MCIdentities
  Allowed <- MCAllowed
  AllowAll = TRUE
  AllowRemoteCommand = TRUE
  Messages <- MCRunningMessages
  Window = 1
  MaxInputs = 3
  MaxOut <- MCMoreStdout
INVARIANTS OutputConserved ProcessDereferenceSafe
PROPERTIES ImplementsRemote QuietAfterTermination
CHECK_DEADLOCK FALSE
