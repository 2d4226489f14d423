\* Two requests may overlap; author (a reviewer, too) and reviewer.
CONSTANTS
  Slots = {1, 2}
  Owner = author
  Users = {author, reviewer}
  Reviewers = {author, reviewer}
  SuperAdmins = {}
  Contents = {good, bad}
  Sound = {good}
  Nobody = Nobody
  Nothing = Nothing
SPECIFICATION Spec
PROPERTIES PublishedStays
