\* Three requests may overlap; a cooldown of two ticks.
CONSTANTS
  Slots = {s1, s2, s3}
  Cooldown = 2
  Passwords = {old, new}
  NoPassword = NoPassword
SPECIFICATION Spec
INVARIANT LiveInTurn
PROPERTIES FirstPasswordOnly RehashKeepsPassword AskAgain
