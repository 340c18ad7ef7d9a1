\* A good image, then a scrape whose image workflow failed.
SPECIFICATION Spec
CONSTANTS
  m1 = m1  m2 = m2  m3 = m3  m4 = m4  w1 = w1  w2 = w2  None = None  MaxDeliveries = 2
  Msgs <- OkThenError
  Workers <- OneWorker
  Duplicates = FALSE
  MaxReceive = 1
  MaxFaults = 0
  Content <- Scrapes
  Performers = {"p1", "p2"}
  Genres = {"rock", "slang"}
  KnownGenres = {"rock"}
  Segments = {"music", "arts"}
  SectionOrder <- OneSection
PROPERTY ErrorHidesNothing
CHECK_DEADLOCK FALSE
