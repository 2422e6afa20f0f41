SPECIFICATION Spec
CONSTANTS
  Sources <- MCSources
  NoSource = NoSource
  KindOf <- MCKindOf
  LiveSources <- MCLiveSources
  BadLinks <- MCBadLinks
  NominalRates <- MCRates
  MaxEngines = 2
  MaxArrivals = 2
  CannotLoad <- MCCannotLoad
  HlsSupport = "mse"
INVARIANTS
  PlayerTypeOK
  OneWidget
  ReadyOnce
  SilenceIsOffered
PROPERTIES
  Released
  Plays
  RateConverges
CHECK_DEADLOCK FALSE
