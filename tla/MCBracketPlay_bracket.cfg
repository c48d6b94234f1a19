CONSTANTS
  Tournaments <- Sound
SPECIFICATION Spec
INVARIANTS SomeoneCanPlay EveryoneHasOnePlace ResultsSeatPlayers EveryoneMeetsOnce TheBestAdvance PlacesFollowStandings
CHECK_DEADLOCK FALSE
