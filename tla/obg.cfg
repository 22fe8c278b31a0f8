SPECIFICATION ObgSpec
CONSTANTS
  s1 = s1  s2 = s2
  SchemaIds <- TwoSchemas
  Oams <- FourOams
  Versions <- TwoVersions
  PayloadBytes <- Size
  KeyRank <- Rank
  Configs <- OneHost
INVARIANTS IndexExact OneActivePerOam BoundHandleIsSized BoundWasPublished
PROPERTIES ActiveGetsBound
