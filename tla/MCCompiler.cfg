SPECIFICATION Spec
CONSTANTS
  Fqns <- MCFqns
  Names <- MCNames
  Programs <- MCPrograms
  TsTypes <- MCTsTypes
  Foreign <- MCForeign
  Enclosing <- MCEnclosing
  FqnOrder <- MCFqnOrder
  Installed <- MCInstalled
  Home <- MCHome
  CheckoutsOf <- MCCheckoutsOf
  Style <- MCStyle
  GetterOf <- MCGetterOf
  SetterOf <- MCSetterOf
  JavaMethod <- MCJavaMethod
  ObjectMethods = {"Bad"}
INVARIANTS NeverStuck ExitTells OverridesExist ProxiesComplete PythonArgumentsDistinct PythonModuleImports StructsTravel LoadedTypesAgree DependenciesDeclared
PROPERTIES ImplementsCompilation
CHECK_DEADLOCK FALSE
