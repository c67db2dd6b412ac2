SPECIFICATION Spec
CONSTANTS
  Freqs = {2, 3}
  BadFreq = 9
INVARIANTS TypeOK  TunedAsAsked 
