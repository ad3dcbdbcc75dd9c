SPECIFICATION FairSpec
CONSTANTS
  w1 = w1
  w2 = w2
  p1 = p1
  ann = ann
  ben = ben
  till = till
  wand = wand
  head = head
  press = press
  counter = counter
  Walkups = {w1, w2}
  Preorders = {p1}
  NoShows = {p1}
  Hurried = {w2}
  Deferring = {w2}
  ShownWait = 3
  Baristas = {ann, ben}
  Stations = {till, wand, head, press, counter}
  Register = till
  Grouping = {wand, press}
  Attended = {till, wand, counter}
  Ties = FALSE
  Planner = Planner
  Nobody = Nobody
  Basket <- MCBasket
  Tolerance <- MCTolerance
  PerPerson <- MCPerPerson
  Staffing <- MCStaffing
  Capacity <- MCCapacity
  BatchLimit <- MCBatchLimit
INVARIANTS CafeTypeOK CrewConserved PersonBeforeMachine NothingStandsIdle NoLooseWork NothingMadeForTheGone FloorFollowsPlan
PROPERTIES ImplementsLifecycle EveryOrderEnds
CHECK_DEADLOCK FALSE
