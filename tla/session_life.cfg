\* Handshake, authentication and the end of a session, under fairness.
SPECIFICATION FairSpec
CONSTANTS
  alice = alice
  mallory = mallory
  NoIdentity = NoIdentity
  Identities <- MCIdentities
  Allowed <- MCAllowed
  AllowAll = FALSE
  AllowRemoteCommand = FALSE
  Messages <- MCLifeMessages
  Window = 1
  MaxInputs = 4
  MaxOut <- MCSilent
INVARIANTS TypeOK AuthGate OneCommand DestroyScheduled
PROPERTIES DeadDestroyed ExitReported
CHECK_DEADLOCK FALSE
