SPECIFICATION Spec
CONSTANTS
  o1 = o1
  o2 = o2
  NoRow = NoRow
  NoSlot = NoSlot
  Orders = {o1}
  Simulated = {}
  Baskets <- MCBaskets
  Drinks <- MCDrinks
  DrinksOf <- MCDrinksOf
  Menus <- MCMenus
  Serves <- MCServes
  Price <- MCPrice
  Margin <- MCMargin
  Cost <- MCCost
  SlotsEnabled = TRUE
  Slots <- MCSlots
  SlotDay <- MCSlotDay
  SlotStart <- MCSlotStart
  SlotEnd <- MCSlotEnd
  SlotBudget <- MCSlotBudget
  Lead = 1
  Quotes <- MCQuotes
  Closing = 1
  MaxDay = 2
  MaxAmends = 2
  Wanted <- MCWanted
INVARIANTS DeskTypeOK LogTracesState RowIsReplay
PROPERTIES AcceptedOrderIsFixed ImplementsLifecycle
