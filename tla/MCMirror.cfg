SPECIFICATION Spec
CONSTANTS
  Vms = {}
  Populators = {m1, m2}
  Runs = {m1, m2}
  Products = {"old", "new"}
  Versions = {"sonoma"}
  UseMirror = FALSE
SYMMETRY Alike
INVARIANTS MirrorByProduct IndexServed
