SPECIFICATION Spec
CONSTANTS
  Objs = {o1, o2, o3, o4}
  Nobody = Nobody
  MaxOid = 3
  Natives = {n1, n2, n3, n4, p1}
  Pure = {p1}
  NoNative = NoNative
  Langs = {"java", "dotnet", "python"}
SYMMETRY Symmetry
INVARIANTS TypeOK TableMatchesTags OverridesReachTheirNative OneReferencePerNative
PROPERTIES ReferencesKeepMeaning ReferencesStable
CHECK_DEADLOCK FALSE
