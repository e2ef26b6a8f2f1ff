---------------------------- MODULE PythonModule ----------------------------
(***************************************************************************)
(* The Python module that is generated for an assembly (packages/          *)
(* jsii-pacmak/lib/targets/python.ts): in which order the classes are      *)
(* written, nested ones within the one that encloses them, by which names  *)
(* they know their bases, and what happens when the module is imported,    *)
(* from the first line to the last.  Method resolution orders are left     *)
(* out.                                                                    *)
(***************************************************************************)
EXTENDS PythonTarget

CONSTANT FqnOrder \* Fqns, by name

(* The members of the module (of None) or of a class that are types, in    *)
(* the order of addPythonType: visit goes by name                          *)
Level(p, assembly) ==
  SelectSeq(FqnOrder, LAMBDA f : f \in DOMAIN assembly /\ Enclosing[f] = p)
Place(f, s) == CHOOSE i \in DOMAIN s : s[i] = f

(* What the heading of a class names: its base and its interfaces          *)
Extended(f, assembly) == ToSet(Bases(assembly[f]))

(* isInModule *)
OfModule(fs, assembly) == fs \cap DOMAIN assembly

(* b, or what encloses b, within p; None if getParent leaves the module,   *)
(* where it throws                                                         *)
LevelItem(b, p) ==
  LET item[g \in Fqns] ==
        IF Enclosing[g] = p THEN g ELSE IF Enclosing[g] = None THEN None ELSE item[Enclosing[g]]
  IN item[b]

(* Mutant: interfaces of a class are no dependencies. *)
DependsOn_BaseOnly(f, assembly) ==
  {LevelItem(b, Enclosing[f]) :
     b \in OfModule(IF IsClass(assembly[f]) THEN {assembly[f].base} ELSE Extended(f, assembly), assembly)}

DependsOn(f, assembly) ==
  {LevelItem(b, Enclosing[f]) : b \in OfModule(Extended(f, assembly), assembly)}

(* sortMembers: again and again the first that depends on nothing but what *)
(* is sorted already.  What is never ready is missing.                     *)
Sorted(p, assembly) ==
  LET level == Level(p, assembly)
      sorted[rest \in SUBSET ToSet(level)] ==
        LET ready == SelectSeq(level, LAMBDA f :
                       f \in rest /\ DependsOn(f, assembly) \subseteq ToSet(level) \ rest)
        IN IF ready = << >> THEN << >> ELSE <<ready[1]>> \o sorted[rest \ {ready[1]}]
  IN sorted[ToSet(level)]

(* The generator ends with an exception: sortMembers does not find the     *)
(* next member, dependsOn climbs out of the module, or a struct is given a *)
(* member that is no field.                                                *)
PythonThrows(assembly) ==
  \/ \E f \in DOMAIN assembly :
       \/ None \in DependsOn(f, assembly)
       \/ Enclosing[f] # None /\ assembly[Enclosing[f]].datatype
  \/ \E p \in DOMAIN assembly \cup {None} : Len(Sorted(p, assembly)) # Len(Level(p, assembly))

-----------------------------------------------------------------------------
(* Importing the module                                                    *)

Outermost(f) == LevelItem(f, None)

(* The class statement of h is complete when that of f, of the same class  *)
(* body or of the module's, is begun: in the sorted body and, if it is an  *)
(* interface's, in that of its proxy, which is not sorted                  *)
Precedes(h, f, assembly) ==
  LET p == Enclosing[f]
      before(s) == Place(h, s) < Place(f, s)
  IN /\ before(Sorted(p, assembly))
     /\ p # None /\ IsInterface(assembly[p]) => before(Level(p, assembly))

(* resolve: a name relative to the class body that it is used in, except   *)
(* for structs and proxies, which are bound to the name of their own: they *)
(* name their bases from the module on, and that is not there yet while an *)
(* enclosing class is executed.                                            *)
HeadingKnown(f, b, assembly) ==
  IF assembly[f].datatype
  THEN Enclosing[f] = None /\ Precedes(Outermost(b), f, assembly)
  ELSE Precedes(LevelItem(b, Enclosing[f]), f, assembly)

(* What the proxy of f extends the proxies of: an abstract class's if it   *)
(* is abstract                                                             *)
ProxiedBases(f, assembly) ==
  LET type == assembly[f] IN
  CASE IsInterface(type) /\ ~ type.datatype -> ToSet(type.interfaces)
    [] IsClass(type) /\ type.abstract /\ type.base # None ->
         {b \in {type.base} : InAssembly(b, assembly).abstract}
    [] OTHER -> {}

(* __jsii_proxy_class__ of the base looks its proxy up among the module's  *)
(* globals.                                                                *)
ProxyKnown(f, b, assembly) ==
  /\ Enclosing[f] = None /\ Enclosing[b] = None
  /\ Precedes(b, f, assembly)

ImportSucceeds(assembly) ==
  \A f \in DOMAIN assembly :
    /\ \A b \in OfModule(Extended(f, assembly), assembly) : HeadingKnown(f, b, assembly)
    /\ \A b \in OfModule(ProxiedBases(f, assembly), assembly) : ProxyKnown(f, b, assembly)
=============================================================================
