SPECIFICATION Spec
CONSTANTS
  Declared <- Declarations
  ClassOf <- Classes
  PropsOf <- Properties
  InheritedOf <- Inherited
  Values <- SandboxValues
  TypeRefs <- DeclaredTypes
  WireValues <- ClientValues
  Parameters <- ParameterLists
  Arguments <- ArgumentLists
INVARIANT AsyncArgumentsTravel
