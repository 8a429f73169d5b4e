SPECIFICATION FairSpec
CONSTANTS
  Holdoff = 1
  Sent = {"unlock", "sleep", "query", "update"}
PROPERTIES
  DrainResolves
  RequestTaken
  UpdateServed
