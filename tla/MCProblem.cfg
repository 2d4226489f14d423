\* Two requests may overlap; author (a reviewer, too), reviewer, SuperAdmin.
CONSTANTS
  Slots = {s1, s2}
  Owner = author
  Users = {author, reviewer, super}
  Reviewers = {author, reviewer}
  SuperAdmins = {super}
  Contents = {good, bad}
  Sound = {good}
  Nobody = Nobody
  Nothing = Nothing
SPECIFICATION Spec
INVARIANTS CheckedUnlessOverlapped ReviewedIsLive ReviewedAgain OutOnlyReviewed
SYMMETRY SlotSymmetry
