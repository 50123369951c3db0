\* The protocol timers of the handshake.
SPECIFICATION FairSpec
CONSTANTS
  alice = alice
  mallory = mallory
  NoIdentity = NoIdentity
  Identities <- MCIdentities
  Allowed <- MCAllowed
  AllowAll = TRUE
  AllowRemoteCommand = TRUE
  Messages <- MCQuietMessages
  Window = 2
  MaxInputs = 2
  MaxOut <- MCSilent
PROPERTY HandshakeTimesOut
CHECK_DEADLOCK FALSE
