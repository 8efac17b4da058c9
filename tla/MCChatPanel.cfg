\* Two projects, two calls and every move of the user.
SPECIFICATION Spec
CONSTANTS
  d1 = d1
  w1 = w1
  c1 = c1
  c2 = c2
  p1 = p1
  p2 = p2
  NULL = NULL
  Desk = {d1}
  Drawer = {w1}
  Call = {c1, c2}
  Project = {p1, p2}
  Asked = {p1}
  Used = {d1, w1}
  Moves = {"leave", "switch", "cancel", "toggle", "pay", "restart"}
INVARIANTS
  PromptInOnePlace
  BlockedByCall
CHECK_DEADLOCK FALSE
