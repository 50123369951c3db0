\* The command of a session whose link closes while it starts.
SPECIFICATION Spec
CONSTANTS
  alice = alice
  mallory = mallory
  NoIdentity = NoIdentity
  Identities <- MCIdentities
  Allowed <- MCAllowed
  AllowAll = TRUE
  AllowRemoteCommand = TRUE
  Messages <- MCQuietMessages
  Window = 2
  MaxInputs = 2
  MaxOut <- MCSilent
INVARIANT NoOrphan
CHECK_DEADLOCK FALSE
