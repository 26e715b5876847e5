CONSTANTS
  None = None
  g1 = g1
  g2 = g2
  c1 = c1
  c2 = c2
  Guids = {g1, g2}
  Manifests <- MCManifests
  ManifestOf <- MCManifestOf
  Calls = {c1, c2}
  Capabilities = {"research"}
  TTL = 0
  MaxTime = 1
  MaxLost = 0
  MaxVersion = 0
SYMMETRY Alike
SPECIFICATION Spec
INVARIANTS NothingIsForgotten
PROPERTIES DestroyedOnlyIfIdle
