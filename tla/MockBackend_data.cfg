SPECIFICATION Spec
CONSTANTS
  Users = {alice, bob}
  PromptNames = {"story_blueprint"}
  ResultValues = {v1, v2}
  Generators = {"generate_music"}
  Skips = {}
  Texts = {t1}
  Moods = {}
  Templates = {tpl}
  GivenNames = {0}
  FirstName = 18
  NameLimit = 64
  MaxProjects = 2
  MaxScene = 1
SYMMETRY DataSymmetry
INVARIANTS
  TypeOK
  StepsHaveResults
  SceneIndicesAscend
  DeletedStaysDeleted
PROPERTIES
  ProgressIsKept
  OthersUnaffected
