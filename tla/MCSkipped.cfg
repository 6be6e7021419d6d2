SPECIFICATION Spec
CONSTANTS
  Vms = {}
  Populators = {m1}
  Runs = {m1}
  Products = {"old", "new"}
  Versions = {"sonoma"}
  UseMirror = FALSE
INVARIANTS SkippedVerifies
