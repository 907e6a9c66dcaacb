SPECIFICATION Spec
CONSTANTS
  NativeTypes <- MCNativeTypes
  NativeValue <- MCNativeValue
  Trees <- OnlyPlain
PROPERTIES
  PresentIsDelivered
