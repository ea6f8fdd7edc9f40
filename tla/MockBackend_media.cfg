SPECIFICATION Spec
CONSTANTS
  Users = {alice, bob}
  PromptNames = {}
  ResultValues = {}
  Generators = {"generate_music", "generate_sfx", "generate_thumbnail"}
  Skips = {{}, {"generate_sfx"}}
  Texts = {t1}
  Moods = {"dark"}
  Templates = {}
  GivenNames = {0}
  FirstName = 18
  NameLimit = 64
  MaxProjects = 2
  MaxScene = 0
SYMMETRY UserSymmetry
INVARIANTS
  SfxMeansLayer
  CompileHasLayers
  VideoShownIsReal
