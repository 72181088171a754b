\* All configurations of one or two modules, and three posts or sends.
SPECIFICATION EcoreSpec
CONSTANTS
  Configs <- MCConfigs
  Names <- MCNames
  MaxMods = 2
  MaxEvents = 2
  MaxCalls = 3
  Main = Main
  Master = Master
  Handler = Handler
  None = None
INVARIANTS
  StartsAfterOnload
  SendersExclude
PROPERTIES
  EveryoneStarts
  PostedIsDelivered
CHECK_DEADLOCK FALSE
