SPECIFICATION FairSpec
CONSTANTS
  h1 = h1
  h2 = h2
  coffee = coffee
  melt = melt
  autumn = autumn
  spring = spring
  NoHold = NoHold
  Makes <- MCMakes
  Price <- MCPrice
  Open = 1
  Close = 3
  Midnight = 4
  PerOrder = 1
  Margin = 0
  Holds = {h1}
  Patient = {h1}
  Baskets = {coffee}
  Menus = {autumn}
  Wanted = {3}
  Demo = TRUE
  LapEnd = 3
  MaxOrders = 0
  MaxDay = 1
  MaxRestarts = 0
PROPERTIES HoldFires
