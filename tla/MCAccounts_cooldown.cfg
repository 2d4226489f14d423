\* Two requests may overlap; a cooldown of two ticks.
CONSTANTS
  Slots = {s1, s2}
  Cooldown = 2
  Passwords = {old}
  NoPassword = NoPassword
SPECIFICATION Spec
PROPERTIES CooldownKept
