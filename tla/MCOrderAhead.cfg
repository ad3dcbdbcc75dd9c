SPECIFICATION Spec
CONSTANTS
  c1 = c1
  Customers = {c1}
  Station <- Wand
  Item <- MCItem
  Priced <- MCPriced
  Showings <- MCShowings
  Words <- MCWords
  Stacks <- MCStacks
  Amendments <- MCAmendments
  SweptOver <- MCSweptOver
  Basket <- MCBasket
  Lookahead = 4
  Window = 9
  Guard = 3
  Opens = 0
  Closes = 9
  Width = 2
  Waits <- MCWaits
  Heavier = 1
  Threshold = 2
  Reach = 4
  WantedTimes <- MCWantedTimes
  Lead = 7
  Poll = 4
  Margin = 2
  Blocks <- MCBlocks
  PerPerson <- MCPerPerson
  MaxWalkups = 3
  LastWalkup = 5
  Longest = 4
  Horizon = 23
INVARIANTS AheadTypeOK NeverHeldPastWanted PromiseKept NobodyStranded BatchIsOneRun NeverCostsMore PlanIsComplete PlanIsSound RetimedIsQuieter SwitchIsReal FilesAreHonest ShapesKept
 
CHECK_DEADLOCK FALSE
