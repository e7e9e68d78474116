SPECIFICATION SetupSpec
CONSTANTS
  w1 = w1
  w2 = w2
  chat = chat
  flash = flash
  org = org
  page1 = page1
  other = other
  Good = Good
  Bad = Bad
  Unset = Unset
  Kept = Kept
  Clients = {page1, other}
  PageWorker = page1
  Workspaces = {w1, w2}
  Home = w1
  External = {"deepseek"}
  Models = {chat, flash, org}
  Slashed = {org}
  Bodies <- MCBodies
  Offers <- MCOffers
  FactoryModel = chat
  PageModel = flash
  MaxCalls = 3
  StartKeys <- MCStartKeys
  MaxEdits = 1
  MaxRestarts = 1
INVARIANTS
  VerifiedWasProven
  AgentServesSettings
  ConnectedWasTested
CHECK_DEADLOCK FALSE
