SPECIFICATION Spec
CONSTANTS
  Users = {alice}
  PromptNames = {}
  ResultValues = {}
  Generators = {}
  Skips = {}
  Texts = {}
  Moods = {}
  Templates = {}
  GivenNames = {0, 60}
  FirstName = 18
  NameLimit = 64
  MaxProjects = 3
  MaxScene = 0
INVARIANTS
  StoredNamesMatch
