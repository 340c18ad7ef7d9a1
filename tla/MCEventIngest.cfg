\* Four messages about one event, duplicated, reordered and failing, on two workers.
SPECIFICATION Spec
CONSTANTS
  m1 = m1  m2 = m2  m3 = m3  m4 = m4  w1 = w1  w2 = w2  None = None  MaxDeliveries = 3
  Msgs <- AllMsgs
  Workers <- TwoWorkers
  Duplicates = TRUE
  MaxReceive = 2
  MaxFaults = 1
  Content <- Scrapes
  Performers = {"p1", "p2"}
  Genres = {"rock", "slang"}
  KnownGenres = {"rock"}
  Segments = {"music", "arts"}
  SectionOrder <- OneSection
CONSTRAINT FewDeliveries
INVARIANTS TypeOK LoneHandlerRepairs
PROPERTY EnrichmentKept
CHECK_DEADLOCK FALSE
