CONSTANTS
  button = button
  box = box
  form = form
  f1 = f1
  f2 = f2
  none = none
  document = document
  Elem = {button, box, form}
  Key = {"k"}
  EventType <- MCEventType
  Nothing = none
  Document = document
  Parent <- MCParent
  Methods <- MCMethods
  Causes <- MCCauses
  CheckBoxes = {box}
  Bindings <- MCBindings
  MaxCalls = 4
  MaxEvents = 1
SPECIFICATION Spec
INVARIANTS
  NothingLeft
  ListenersMatch
  HidingEnds
  OneIsGone
CHECK_DEADLOCK FALSE
