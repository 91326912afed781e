SPECIFICATION Spec
CONSTANTS
  r1 = r1
  r2 = r2
  r3 = r3
  Requests <- MCRequests
  Handshake = Handshake
  Ping = Ping
  Ids <- MCIds
  IdOf <- MCIdOf
  Sockets <- MCSockets
  NoSocket = NoSocket
  NoCall = NoCall
INVARIANTS
  TypeOK
  LinkIsSound
PROPERTIES
  ComesToRest
  KeepsPromise
