SPECIFICATION Spec
CONSTANTS
  Vms = {v1}
  Populators = {m1}
  Runs = {v1, m1}
  Products = {"old"}
  Versions = {"sonoma"}
  UseMirror = TRUE
INVARIANTS TypeOK ReadySound
PROPERTIES ImagesKept
