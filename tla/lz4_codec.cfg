SPECIFICATION Spec
CONSTANTS
  Inputs <- CodecInputs
  Spare <- CodecSpare
  MAX_INPUT_SIZE = 70
  MAX_DISTANCE = 24
  Stale = 170
  SizeErrors <- CodecSizeErrors
PROPERTIES
  ImplementsCodecSpec
  Answered
