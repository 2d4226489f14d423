\* One request at a time; author (a reviewer, too) and reviewer.
CONSTANTS
  Slots = {1}
  Owner = author
  Users = {author, reviewer}
  Reviewers = {author, reviewer}
  SuperAdmins = {}
  Contents = {good, bad}
  Sound = {good}
  Nobody = Nobody
  Nothing = Nothing
SPECIFICATION Spec
PROPERTIES DocumentedFlow
