SPECIFICATION Spec
CONSTANTS
  shell = shell
  read = read
  Calls = {shell, read}
  Expands = {e1}
  Sessions = {"s1", "s2"}
  Commands = {"cargo test", "(read)"}
  SessionOf <- MCSessionOf
  KeyOf <- MCKeyOf
  Saves <- MCSaves
  MaxId = 3
  Torn = Torn
  None = None
INVARIANT RestoresTheOnlyOne
CHECK_DEADLOCK FALSE
