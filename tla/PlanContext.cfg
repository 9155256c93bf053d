\* The same instance: is a context left short that could be doubled?
SPECIFICATION Spec
CONSTANTS
  Models = {1, 2, 3}
  Nodes = {1, 2, 3}
  Cards = {0, 1}
  Head = 1
  Catalogues <- SomeCatalogues
  Clusters <- SomeClusters
  Caps = {0, 1, 2}
  Deployments <- SomeDeployments
INVARIANTS ContextRestored
