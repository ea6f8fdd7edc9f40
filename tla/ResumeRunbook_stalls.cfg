SPECIFICATION RSpec
CONSTANTS
  Users = {alice}
  PromptNames = {"story_blueprint", "thumbnail"}
  ResultValues = {}
  Generators = {"generate_audio", "generate_images", "generate_sfx", "generate_music", "generate_thumbnail"}
  Skips = {{}}
  Texts = {}
  Moods = {}
  Templates = {}
  GivenNames = {}
  FirstName = 18
  NameLimit = 64
  MaxProjects = 1
  MaxScene = 0
PROPERTIES
  RunbookFinishes
