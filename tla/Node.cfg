SPECIFICATION Spec
CONSTANTS
  ListenAddrs <- Listening
  MappedAddrs <- Mapped
  ObservedAddrs <- Observed
  Host = "host"
  ChannelCap = 2
  Radix = 4
INVARIANTS
  UriIsDialable
  UriPrefersPublic
PROPERTIES
  DriverHearsUri
CHECK_DEADLOCK FALSE
