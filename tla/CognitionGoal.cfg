SPECIFICATION FairSpec
CONSTANTS
  plain = plain
  goal = goal
  ann = ann
  bob = bob
  Free = Free
  Player = Player
  Keys <- MCKeys
  GoalKeys = {goal}
  Actors = {ann, bob}
  ActorOf <- MCActorOf
  Slots = 2
  MaxLeases = 1
  Retries = 1
  MaxOthers = 1
PROPERTY GoalEnds
