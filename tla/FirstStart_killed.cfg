SPECIFICATION StartFairSpec
CONSTANTS
  c1 = c1
  Containers <- OneContainer
  Organizations = {1}
  MigrationCount = 2
  MaxDeaths = 1
PROPERTIES ComesToServe
