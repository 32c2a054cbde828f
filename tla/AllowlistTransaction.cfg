SPECIFICATION CatalogSpec
CONSTANTS
  Models = {m1, m2}
  Blank = Blank
  Unset = Unset
  Catalogs = {}
  Queries = {}
  Aliases = {}
  LooksReasoning = {}
  PerPage = 1
  Admins = {}
  Clients = {c1}
  MaxErrors = 0
PROPERTIES
  SaveIsOneTransaction
CHECK_DEADLOCK FALSE
