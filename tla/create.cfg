SPECIFICATION Spec
CONSTANTS
  s1 = s1
  k1 = k1
  f1 = f1
  f2 = f2
  Slug <- OneSlug
  Key <- OneKey
  Site <- TwoSites
  CatalogRead <- MCCatalog
  SiteRead <- MCSites
  MaxSends = 2
INVARIANTS ExitTells
PROPERTIES SentIsConfirmed ExitStaysOpen HandoffEnds
