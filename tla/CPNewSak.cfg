\* Does CP clear new_sak?
CONSTANTS
  MaxKN = 2
  Ciphers = {c1}
SPECIFICATION Spec
PROPERTY NewSakCleared
