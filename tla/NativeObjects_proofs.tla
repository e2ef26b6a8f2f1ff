------------------------ MODULE NativeObjects_proofs ------------------------
(***************************************************************************)
(* Proofs about the kernel's object table and the clients' maps, for any   *)
(* number of objects, references and nested constructions.                 *)
(***************************************************************************)
EXTENDS NativeObjects, SequenceLemmas

-----------------------------------------------------------------------------
(* Ids are fresh, and a tag means what it was set for or nothing. *)
TableInv ==
  /\ TableTypeOK
  /\ \A i \in Oids : i >= nextOid => objects[i] = Nobody
  /\ \A o \in Objs : tag[o] < nextOid
  /\ \A o \in Objs : tag[o] # 0 => objects[tag[o]] \in {o, Nobody}
  /\ \A o, p \in Objs : tag[o] = tag[p] /\ tag[o] # 0 => o = p
  /\ TableMatchesTags

LEMMA FreshOid ==
  ASSUME TableTypeOK, nextOid <= MaxOid
  PROVE  nextOid \in Oids /\ nextOid + 1 \in 1 .. MaxOid + 1
BY MaxOidAssumption DEF TableTypeOK, Oids

(* Registering an object: it has the reference RefOf says, no other object *)
(* is touched, and no reference that was in use.                           *)
LEMMA RegisterStep ==
  ASSUME TableInv, NEW o \in Objs, RegisterObject(o)
  PROVE  /\ TableInv'
         /\ MeansTheSame
         /\ RefOf(o) \in Oids /\ tag'[o] = RefOf(o)
         /\ \A p \in Objs : p # o => tag'[p] = tag[p] /\ tag[p] # RefOf(o)
         /\ tag[o] = 0 => RefOf(o) = nextOid
         /\ nextOid' \in {nextOid, nextOid + 1}
         /\ RefOf(o) < nextOid'
<1>0. /\ TableTypeOK /\ nextOid \in Nat
      /\ \A p \in Objs : tag[p] \in Nat
      /\ Oids \subseteq Nat /\ 0 \notin Oids
  BY DEF TableInv, TableTypeOK, Oids
<1>1. CASE tag[o] # 0
  <2>1. UNCHANGED tableVars /\ RefOf(o) = tag[o]
    BY <1>1 DEF RegisterObject, RefOf
  <2>2. TableInv'
    BY <2>1 DEF tableVars, TableInv, TableTypeOK, TableMatchesTags
  <2> QED BY <1>0, <1>1, <2>1, <2>2 DEF tableVars, TableInv, TableTypeOK, MeansTheSame
<1>2. CASE tag[o] = 0
  <2>1. /\ nextOid <= MaxOid
        /\ objects' = [objects EXCEPT ![nextOid] = o]
        /\ tag' = [tag EXCEPT ![o] = nextOid]
        /\ nextOid' = nextOid + 1
        /\ RefOf(o) = nextOid
    BY <1>2 DEF RegisterObject, RefOf
  <2>2. nextOid \in Oids /\ nextOid + 1 \in 1 .. MaxOid + 1
    BY <1>0, <2>1, FreshOid
  <2>3. TableTypeOK'
    BY <1>0, <2>1, <2>2 DEF TableTypeOK
  <2>4. \A p \in Objs : tag'[p] = IF p = o THEN nextOid ELSE tag[p]
    BY <1>0, <2>1 DEF TableTypeOK
  <2>5. \A i \in Oids : objects'[i] = IF i = nextOid THEN o ELSE objects[i]
    BY <1>0, <2>1 DEF TableTypeOK
  <2>6. \A i \in Oids : i >= nextOid' => objects'[i] = Nobody
    BY <1>0, <2>1, <2>5 DEF TableInv
  <2>7. \A p \in Objs : tag'[p] < nextOid'
    BY <1>0, <2>1, <2>4 DEF TableInv
  <2>8. \A p \in Objs : tag[p] # 0 => tag[p] \in Oids /\ tag[p] # nextOid
    BY <1>0 DEF TableInv, TableTypeOK
  <2>9. \A p \in Objs : tag'[p] # 0 => objects'[tag'[p]] \in {p, Nobody}
    BY <2>2, <2>4, <2>5, <2>8 DEF TableInv
  <2>10. \A p, q \in Objs : tag'[p] = tag'[q] /\ tag'[p] # 0 => p = q
    BY <2>4, <2>8 DEF TableInv
  <2>11. TableMatchesTags'
    <3> SUFFICES ASSUME NEW i \in Oids, objects'[i] # Nobody PROVE tag'[objects'[i]] = i
      BY DEF TableMatchesTags
    <3>1. CASE i = nextOid
      BY <2>4, <2>5, <3>1
    <3>2. CASE i # nextOid
      <4>1. objects'[i] = objects[i] /\ objects[i] \in Objs /\ tag[objects[i]] = i
        BY <1>0, <2>5, <3>2 DEF TableInv, TableMatchesTags, TableTypeOK
      <4>2. objects[i] # o
        BY <1>0, <1>2, <4>1
      <4> QED BY <2>4, <4>1, <4>2
    <3> QED BY <3>1, <3>2
  <2>12. MeansTheSame
    BY <1>2, <2>4, <2>5, <2>8 DEF MeansTheSame, TableInv
  <2>13. TableInv'
    BY <2>3, <2>6, <2>7, <2>9, <2>10, <2>11 DEF TableInv
  <2> QED BY <1>0, <1>2, <2>1, <2>2, <2>4, <2>8, <2>12, <2>13
<1> QED BY <1>1, <1>2

LEMMA DeleteStep ==
  ASSUME TableInv, NEW i \in Oids, DeleteObject(i)
  PROVE  TableInv' /\ MeansTheSame
<1>1. /\ TableTypeOK
      /\ objects' = [objects EXCEPT ![i] = Nobody]
      /\ tag' = tag /\ nextOid' = nextOid
  BY DEF DeleteObject, TableInv
<1>2. \A j \in Oids : objects'[j] = IF j = i THEN Nobody ELSE objects[j]
  BY <1>1 DEF TableTypeOK
<1>3. \A p \in Objs : tag[p] # 0 => tag[p] \in Oids
  BY <1>1 DEF TableTypeOK
<1>4. TableTypeOK'
  BY <1>1 DEF TableTypeOK
<1>5. TableInv'
  BY <1>1, <1>2, <1>3, <1>4, NobodyAssumption DEF TableInv, TableMatchesTags
<1>6. MeansTheSame
  BY <1>1, <1>2, <1>3 DEF TableInv, MeansTheSame
<1> QED BY <1>5, <1>6

LEMMA TableInitInv == TableInit => TableInv
BY MaxOidAssumption DEF TableInit, TableInv, TableTypeOK, TableMatchesTags, Oids

LEMMA TableNextInv ==
  ASSUME TableInv, [TableNext]_tableVars
  PROVE  TableInv' /\ [MeansTheSame]_tableVars
<1>1. CASE TableNext
  BY <1>1, RegisterStep, DeleteStep DEF TableNext
<1>2. CASE UNCHANGED tableVars
  BY <1>2 DEF tableVars, TableInv, TableTypeOK, TableMatchesTags
<1> QED BY <1>1, <1>2

(* However objects are registered and deleted, a registered object is      *)
(* tagged with the id it is registered under.                              *)
THEOREM TagsMatch == TableSpec => []TableMatchesTags
<1>1. TableInv /\ [TableNext]_tableVars => TableInv'
  BY TableNextInv
<1>2. TableInv => TableMatchesTags
  BY DEF TableInv
<1> QED BY <1>1, <1>2, TableInitInv, PTL DEF TableSpec

(* A reference never comes to mean another object. *)
THEOREM ReferencesKeepTheirMeaning == TableSpec => ReferencesKeepMeaning
<1>1. TableInv /\ [TableNext]_tableVars => TableInv' /\ [MeansTheSame]_tableVars
  BY TableNextInv
<1> QED BY <1>1, TableInitInv, PTL DEF TableSpec, ReferencesKeepMeaning

-----------------------------------------------------------------------------
(* A native object under construction is new: nothing refers to it yet,    *)
(* and only the object it is constructed for can call it back.             *)
UnderConstruction(c) ==
  /\ c.native \in born /\ c.native \notin Pure \cup failed
  /\ c.obj \in made
  /\ overrider[c.obj] \in {NoNative, c.native}
  /\ c.phase = "kernel" => overrider[c.obj] = NoNative
  /\ c.phase = "init" => tag[c.obj] # 0
  /\ \A o \in Objs : overrider[o] = c.native => o = c.obj
  /\ \A k \in Oids : refs[k] # c.native

Inv ==
  /\ TypeOK
  /\ TableInv
  /\ \A i, j \in DOMAIN building :
       building[i].native = building[j].native \/ building[i].obj = building[j].obj
         => i = j
  /\ \A i \in DOMAIN building : UnderConstruction(building[i])
  /\ \A o \in Objs : tag[o] # 0 => o \in made
  /\ \A o \in Objs : overrider[o] # NoNative => overrider[o] \in born /\ tag[o] # 0
  /\ \A k \in Oids : refs[k] # NoNative => refs[k] \in born /\ k < nextOid
  /\ OverridesReachTheirNative

LEMMA InitInv == Init => Inv
<1> SUFFICES ASSUME Init PROVE Inv
  OBVIOUS
<1>1. TableInv /\ TableTypeOK
  BY TableInitInv DEF Init, TableInv
<1>2. building = << >> /\ building \in Seq(Constructions) /\ DOMAIN building = {}
  BY EmptySeq, LenProperties DEF Init
<1>3. \A o \in Objs : tag[o] = 0 /\ overrider[o] = NoNative
  BY DEF Init, TableInit
<1>4. \A k \in Oids : refs[k] = NoNative
  BY DEF Init
<1>5. TypeOK
  BY <1>1, <1>2 DEF Init, TypeOK
<1> QED BY <1>1, <1>2, <1>3, <1>4, <1>5
        DEF Inv, OverridesReachTheirNative

(* What is on top of the stack of constructions, and below it. *)
LEMMA TopConstruction ==
  ASSUME TypeOK, building # << >>
  PROVE  /\ Len(building) \in DOMAIN building
         /\ Last(building) = building[Len(building)]
         /\ Last(building) \in Constructions
         /\ Front(building) \in Seq(Constructions)
         /\ DOMAIN Front(building) \subseteq DOMAIN building
         /\ \A i \in DOMAIN Front(building) :
              Front(building)[i] = building[i] /\ i # Len(building)
<1>1. /\ building \in Seq(Constructions)
      /\ Len(building) \in Nat \ {0}
      /\ DOMAIN building = 1 .. Len(building)
  BY EmptySeq, LenProperties DEF TypeOK
<1>2. /\ Front(building) \in Seq(Constructions)
      /\ Len(Front(building)) = Len(building) - 1
      /\ \A i \in 1 .. Len(building) - 1 : Front(building)[i] = building[i]
      /\ Last(building) \in Constructions
  BY FrontLast DEF TypeOK
<1>3. DOMAIN Front(building) = 1 .. Len(building) - 1
  BY <1>2, LenProperties
<1> QED BY <1>1, <1>2, <1>3 DEF Last

(* Registering an object that exists leaves the rest of Inv to the client. *)
Registered(o) ==
  /\ TableInv' /\ TableTypeOK'
  /\ RefOf(o) \in Oids /\ tag'[o] = RefOf(o) /\ RefOf(o) # 0
  /\ \A p \in Objs : p # o => tag'[p] = tag[p] /\ tag[p] # RefOf(o)
  /\ \A p \in Objs : tag[p] # 0 => tag'[p] = tag[p]
  /\ \A k \in Oids : k < nextOid => k < nextOid'
  /\ RefOf(o) < nextOid'
  /\ tag[o] = 0 => refs[RefOf(o)] = NoNative

LEMMA RegisteredStep ==
  ASSUME Inv, NEW o \in Objs, RegisterObject(o)
  PROVE  Registered(o)
<1>1. TableInv /\ nextOid \in Nat /\ Oids \subseteq Nat /\ 0 \notin Oids
  BY DEF Inv, TableInv, TableTypeOK, Oids
<1>2. /\ TableInv' /\ MeansTheSame
      /\ RefOf(o) \in Oids /\ tag'[o] = RefOf(o)
      /\ \A p \in Objs : p # o => tag'[p] = tag[p] /\ tag[p] # RefOf(o)
      /\ tag[o] = 0 => RefOf(o) = nextOid
      /\ nextOid' \in {nextOid, nextOid + 1}
      /\ RefOf(o) < nextOid'
  BY <1>1, RegisterStep
<1>4. tag[o] = 0 => refs[RefOf(o)] = NoNative
  BY <1>1, <1>2 DEF Inv
<1>5. \A p \in Objs : tag[p] # 0 => tag'[p] = tag[p]
  BY <1>2 DEF MeansTheSame
<1>6. \A k \in Oids : k < nextOid => k < nextOid'
  BY <1>1, <1>2
<1>7. TableTypeOK'
  BY <1>2 DEF TableInv
<1> QED BY <1>1, <1>2, <1>4, <1>5, <1>6, <1>7 DEF Registered

(* A sandbox object is new: it has no reference and calls nobody back. *)
LEMMA UnmadeIsBare ==
  ASSUME Inv, NEW o \in Objs, o \notin made
  PROVE  /\ tag[o] = 0 /\ overrider[o] = NoNative
         /\ \A i \in DOMAIN building : building[i].obj # o
BY DEF Inv, UnderConstruction

(* A native object that does not exist yet is nowhere. *)
LEMMA UnbornIsNowhere ==
  ASSUME Inv, NEW n \in Natives, n \notin born
  PROVE  /\ n \notin failed
         /\ \A k \in Oids : refs[k] # n
         /\ \A o \in Objs : overrider[o] # n
         /\ \A i \in DOMAIN building : building[i].native # n
BY NoNativeAssumption DEF Inv, UnderConstruction, TypeOK

(* The steps that construct nothing and adopt at most a proxy. *)
LEMMA PassStep ==
  ASSUME Inv, NEW o \in Objs, Registered(o),
         NEW S \in SUBSET Natives, S \cap born = {}, lang' = lang,
         born' = born \cup S, made' = made, overrider' = overrider,
         failed' = failed, building' = building, o \in made,
         given' \in [Oids -> SUBSET Natives],
         \/ refs' = refs
         \/ \E n \in S : refs' = [refs EXCEPT ![RefOf(o)] = n] /\ refs[RefOf(o)] = NoNative
  PROVE  Inv'
<1>0. /\ TypeOK /\ TableTypeOK'
      /\ \A k \in Oids : \/ refs'[k] = refs[k]
                         \/ k = RefOf(o) /\ refs[k] = NoNative /\ refs'[k] \in S
      /\ refs' \in [Oids -> Natives \cup {NoNative}]
  BY DEF Inv, TypeOK, Registered
<1>1. TypeOK'
  BY <1>0 DEF TypeOK
<1>2. \A i \in DOMAIN building : UnderConstruction(building[i])'
  <2> SUFFICES ASSUME NEW i \in DOMAIN building
               PROVE  UnderConstruction(building[i])'
    OBVIOUS
  <2>1. UnderConstruction(building[i]) /\ building[i] \in Constructions
    BY <1>0, LenProperties DEF Inv, TypeOK
  <2>2. building[i].native \in born /\ \A k \in Oids : refs[k] # building[i].native
    BY <2>1 DEF UnderConstruction
  <2>3. \A k \in Oids : refs'[k] # building[i].native
    BY <1>0, <2>2
  <2>4. building'[i] = building[i] /\ building[i].obj \in Objs
    BY <2>1 DEF Constructions
  <2>5. tag[building[i].obj] # 0 => tag'[building[i].obj] # 0
    BY <2>4 DEF Registered
  <2> QED BY <2>1, <2>3, <2>4, <2>5 DEF UnderConstruction
<1>3. \A p \in Objs : tag'[p] # 0 => p \in made'
  BY DEF Inv, Registered
<1>4. \A p \in Objs : overrider'[p] # NoNative => overrider'[p] \in born' /\ tag'[p] # 0
  BY DEF Inv, Registered
<1>5. \A k \in Oids : refs'[k] # NoNative => refs'[k] \in born' /\ k < nextOid'
  BY <1>0 DEF Inv, Registered
<1>6. OverridesReachTheirNative'
  <2> SUFFICES ASSUME NEW p \in Objs, overrider[p] # NoNative,
                      overrider[p] \notin failed, ~ InBuilding(overrider[p])
               PROVE  tag'[p] # 0 /\ refs'[tag'[p]] = overrider[p]
    BY DEF OverridesReachTheirNative, InBuilding
  <2>1. tag[p] # 0 /\ refs[tag[p]] = overrider[p]
    BY DEF Inv, OverridesReachTheirNative
  <2>2. tag'[p] = tag[p] /\ tag[p] \in Oids
    BY <1>0, <2>1 DEF Registered, TypeOK, TableTypeOK
  <2> QED BY <1>0, <2>1, <2>2
<1> QED BY <1>1, <1>2, <1>3, <1>4, <1>5, <1>6 DEF Inv, Registered

LEMMA PassKnownInv ==
  ASSUME Inv, NEW o \in Objs, PassKnown(o)
  PROVE  Inv'
<1>1. Registered(o)
  BY RegisteredStep DEF PassKnown
<1>2. refs[RefOf(o)] \in Natives
  BY <1>1 DEF PassKnown, Registered, Inv, TypeOK
<1>3. given' \in [Oids -> SUBSET Natives]
  BY <1>2 DEF PassKnown, Inv, TypeOK
<1> QED BY <1>1, <1>3, PassStep, {} \in SUBSET Natives DEF PassKnown

LEMMA PassUnknownInv ==
  ASSUME Inv, NEW o \in Objs, NEW n \in Natives, PassUnknown(o, n)
  PROVE  Inv'
<1>1. Registered(o)
  BY RegisteredStep DEF PassUnknown
<1>2. given' \in [Oids -> SUBSET Natives]
  BY DEF PassUnknown, Adopt, Inv, TypeOK
<1>3. refs' = refs \/ refs' = [refs EXCEPT ![RefOf(o)] = n]
  BY DEF PassUnknown, Adopt
<1>4. /\ {n} \in SUBSET Natives /\ {n} \cap born = {}
      /\ born' = born \cup {n} /\ made' = made /\ overrider' = overrider
      /\ failed' = failed /\ building' = building /\ o \in made /\ lang' = lang
      /\ refs[RefOf(o)] = NoNative
  BY DEF PassUnknown
<1>5. \/ refs' = refs
      \/ \E m \in {n} : refs' = [refs EXCEPT ![RefOf(o)] = m] /\ refs[RefOf(o)] = NoNative
  BY <1>3, <1>4
<1> QED BY <1>1, <1>2, <1>4, <1>5, PassStep

LEMMA SandboxNewInv ==
  ASSUME Inv, NEW o \in Objs, SandboxNew(o)
  PROVE  Inv'
<1>1. /\ UNCHANGED <<objects, tag, nextOid, lang, overrider, refs, given, born, failed, building>>
      /\ made' = made \cup {o}
  BY DEF SandboxNew, tableVars
<1>2. TypeOK' /\ TableInv' /\ OverridesReachTheirNative'
  BY <1>1 DEF Inv, TypeOK, TableTypeOK, TableInv, TableMatchesTags,
              OverridesReachTheirNative, InBuilding
<1>3. \A i \in DOMAIN building' : UnderConstruction(building[i])'
  BY <1>1 DEF Inv, UnderConstruction
<1> QED BY <1>1, <1>2, <1>3 DEF Inv

LEMMA StartCreateInv ==
  ASSUME Inv, NEW o \in Objs, NEW n \in Natives, StartCreate(o, n)
  PROVE  Inv'
<1> DEFINE c == [obj |-> o, native |-> n, phase |-> "kernel"]
<1>0. /\ UNCHANGED <<objects, tag, nextOid, lang, overrider, refs, given, failed>>
      /\ made' = made \cup {o} /\ born' = born \cup {n}
      /\ o \notin made /\ n \notin born \cup Pure
      /\ building' = Append(building, c)
  BY DEF StartCreate, tableVars
<1>1. c \in Constructions
  BY DEF Constructions
<1>2. /\ building' \in Seq(Constructions)
      /\ Len(building') = Len(building) + 1
      /\ Len(building) \in Nat
      /\ DOMAIN building = 1 .. Len(building)
      /\ DOMAIN building' = 1 .. Len(building) + 1
  BY <1>0, <1>1, AppendOne, LenProperties DEF Inv, TypeOK
<1>3. \A i \in DOMAIN building' :
        \/ i \in DOMAIN building /\ building'[i] = building[i]
        \/ i = Len(building) + 1 /\ building'[i] = c
  BY <1>0, <1>1, <1>2, AppendProperties DEF Inv, TypeOK
<1>4. TypeOK' /\ TableInv'
  BY <1>0, <1>2, <1>3 DEF Inv, TypeOK, TableTypeOK, TableInv, TableMatchesTags
<1>5. /\ n \notin failed
      /\ \A k \in Oids : refs[k] # n
      /\ \A p \in Objs : overrider[p] # n
      /\ \A i \in DOMAIN building : building[i].native # n
  BY <1>0, UnbornIsNowhere
<1>6. /\ tag[o] = 0 /\ overrider[o] = NoNative
      /\ \A i \in DOMAIN building : building[i].obj # o
  BY <1>0, UnmadeIsBare
<1>7. \A i \in DOMAIN building' : UnderConstruction(building[i])'
  <2> SUFFICES ASSUME NEW i \in DOMAIN building' PROVE UnderConstruction(building[i])'
    OBVIOUS
  <2>1. CASE i \in DOMAIN building /\ building'[i] = building[i]
    BY <1>0, <2>1 DEF Inv, UnderConstruction
  <2>2. CASE building'[i] = c
    BY <1>0, <1>5, <1>6, <2>2 DEF UnderConstruction
  <2> QED BY <1>3, <2>1, <2>2
<1>8. \A i, j \in DOMAIN building' :
        building'[i].native = building'[j].native \/ building'[i].obj = building'[j].obj
          => i = j
  BY <1>3, <1>5, <1>6 DEF Inv
<1>9. OverridesReachTheirNative'
  <2>1. ASSUME NEW m \in Natives, InBuilding(m) PROVE InBuilding(m)'
    <3>1. PICK i \in DOMAIN building : building[i].native = m
      BY <2>1 DEF InBuilding
    <3>2. i \in DOMAIN building' /\ i # Len(building) + 1
      BY <1>2
    <3> QED BY <1>3, <3>1, <3>2 DEF InBuilding
  <2> QED BY <1>0, <1>5, <2>1 DEF Inv, OverridesReachTheirNative, TypeOK
<1> QED BY <1>0, <1>4, <1>7, <1>8, <1>9 DEF Inv

(* A construction that ends: the rest of the stack stays under way as long *)
(* as the step touches only the object and the native object on its top.   *)
LEMMA Popped ==
  ASSUME Inv, building # << >>, building' = Front(building),
         NEW t \in Constructions, t = Last(building),
         born' = born, made' = made,
         failed' \subseteq failed \cup {t.native},
         \A p \in Objs : p # t.obj => overrider'[p] = overrider[p],
         overrider'[t.obj] \in {overrider[t.obj], t.native},
         \A k \in Oids : refs'[k] \in {refs[k], t.native},
         \A p \in Objs : tag[p] # 0 => tag'[p] # 0
  PROVE  /\ building' \in Seq(Constructions)
         /\ \A i, j \in DOMAIN building' :
              building'[i].native = building'[j].native \/ building'[i].obj = building'[j].obj
                => i = j
         /\ \A i \in DOMAIN building' : UnderConstruction(building[i])'
         /\ \A m \in Natives : m # t.native => (InBuilding(m)' <=> InBuilding(m))
         /\ \A i \in DOMAIN building' : i \in DOMAIN building /\ building'[i] = building[i]
<1>1. /\ TypeOK /\ Len(building) \in DOMAIN building /\ t = building[Len(building)]
      /\ building' \in Seq(Constructions) /\ DOMAIN building' \subseteq DOMAIN building
      /\ \A i \in DOMAIN building' : building'[i] = building[i] /\ i # Len(building)
  BY TopConstruction DEF Inv
<1>2. \A i \in DOMAIN building' : building[i].native # t.native /\ building[i].obj # t.obj
  BY <1>1 DEF Inv
<1>3. \A i, j \in DOMAIN building' :
        building'[i].native = building'[j].native \/ building'[i].obj = building'[j].obj
          => i = j
  BY <1>1 DEF Inv
<1>4. \A i \in DOMAIN building' : UnderConstruction(building[i])'
  <2> SUFFICES ASSUME NEW i \in DOMAIN building' PROVE UnderConstruction(building[i])'
    OBVIOUS
  <2>1. UnderConstruction(building[i]) /\ building'[i] = building[i]
    BY <1>1 DEF Inv
  <2>2. building[i].native # t.native /\ building[i].obj # t.obj
    BY <1>2
  <2>3. building[i] \in Constructions
    BY <1>1, LenProperties DEF TypeOK
  <2>4. building[i].obj \in Objs
    BY <2>3 DEF Constructions
  <2>5. \A p \in Objs : overrider'[p] = building[i].native => overrider[p] = building[i].native
    BY <2>2
  <2>6. overrider'[building[i].obj] = overrider[building[i].obj]
    BY <2>2, <2>4
  <2>7. \A k \in Oids : refs'[k] # building[i].native
    BY <2>1, <2>2 DEF UnderConstruction
  <2>8. building[i].native \notin failed'
    BY <2>1, <2>2 DEF UnderConstruction
  <2> QED BY <2>1, <2>4, <2>5, <2>6, <2>7, <2>8 DEF UnderConstruction
<1>5. \A m \in Natives : m # t.native => (InBuilding(m)' <=> InBuilding(m))
  <2> SUFFICES ASSUME NEW m \in Natives, m # t.native PROVE InBuilding(m)' <=> InBuilding(m)
    OBVIOUS
  <2>1. \A i \in DOMAIN building : i # Len(building) => i \in DOMAIN building'
    <3>1. /\ Len(building) \in Nat /\ DOMAIN building = 1 .. Len(building)
          /\ Len(building') = Len(building) - 1 /\ DOMAIN building' = 1 .. Len(building')
      BY <1>1, FrontLast, LenProperties DEF TypeOK
    <3> QED BY <3>1
  <2> QED BY <1>1, <2>1 DEF InBuilding
<1> QED BY <1>1, <1>3, <1>4, <1>5

(* What Inv says of the construction on top. *)
LEMMA TopIsUnderConstruction ==
  ASSUME Inv, building # << >>
  PROVE  \E t \in Constructions :
           /\ t = Last(building)
           /\ UnderConstruction(t)
           /\ t.obj \in Objs /\ t.native \in Natives /\ t.native \in born
           /\ InBuilding(t.native)
<1> DEFINE t == Last(building)
<1>1. TypeOK
  BY DEF Inv
<1>2. /\ t \in Constructions /\ Len(building) \in DOMAIN building
      /\ t = building[Len(building)]
  BY <1>1, TopConstruction
<1>3. UnderConstruction(t) /\ InBuilding(t.native)
  BY <1>2 DEF Inv, InBuilding
<1>4. t.obj \in Objs /\ t.native \in Natives
  BY <1>2 DEF Constructions
<1>5. t.native \in born
  BY <1>3 DEF UnderConstruction
<1> QED BY <1>2, <1>3, <1>4, <1>5

(* The constructor throws. *)
LEMMA FailConstructionInv ==
  ASSUME Inv, FailConstruction
  PROVE  Inv'
<1>1. PICK t \in Constructions :
        /\ t = Last(building) /\ UnderConstruction(t)
        /\ t.obj \in Objs /\ t.native \in Natives /\ t.native \in born
  BY TopIsUnderConstruction DEF FailConstruction
<1>2. /\ building # << >> /\ building' = Front(building)
      /\ failed' = failed \cup {t.native}
      /\ UNCHANGED <<objects, tag, nextOid, lang, made, overrider, refs, given, born>>
  BY <1>1 DEF FailConstruction, tableVars
<1>3. /\ building' \in Seq(Constructions)
      /\ \A i, j \in DOMAIN building' :
           building'[i].native = building'[j].native \/ building'[i].obj = building'[j].obj
             => i = j
      /\ \A i \in DOMAIN building' : UnderConstruction(building[i])'
      /\ \A m \in Natives : m # t.native => (InBuilding(m)' <=> InBuilding(m))
      /\ \A i \in DOMAIN building' : i \in DOMAIN building /\ building'[i] = building[i]
  BY <1>1, <1>2, Popped
<1>4. TypeOK' /\ TableInv'
  BY <1>1, <1>2, <1>3
     DEF Inv, TypeOK, TableTypeOK, TableInv, TableMatchesTags
<1>5. OverridesReachTheirNative'
  BY <1>2, <1>3 DEF Inv, TypeOK, OverridesReachTheirNative
<1> QED BY <1>2, <1>3, <1>4, <1>5 DEF Inv

(* An override is rejected, after others were installed. *)
LEMMA FailOverridesInv ==
  ASSUME Inv, NEW overridden \in BOOLEAN, FailOverrides(overridden)
  PROVE  Inv'
<1>1. PICK t \in Constructions :
        /\ t = Last(building) /\ UnderConstruction(t)
        /\ t.obj \in Objs /\ t.native \in Natives /\ t.native \in born
  BY TopIsUnderConstruction DEF FailOverrides, Building
<1>2. /\ building # << >> /\ building' = Front(building)
      /\ RegisterObject(t.obj)
      /\ overrider' = IF overridden THEN [overrider EXCEPT ![t.obj] = t.native] ELSE overrider
      /\ failed' = failed \cup {t.native}
      /\ UNCHANGED <<lang, made, refs, given, born>>
  BY <1>1 DEF FailOverrides, Building
<1>3. Registered(t.obj)
  BY <1>1, <1>2, RegisteredStep
<1>4. /\ \A p \in Objs : p # t.obj => overrider'[p] = overrider[p]
      /\ overrider'[t.obj] \in {overrider[t.obj], t.native}
      /\ overrider' \in [Objs -> Natives \cup {NoNative}]
  BY <1>1, <1>2 DEF Inv, TypeOK
<1>5. \A k \in Oids : refs'[k] \in {refs[k], t.native}
  BY <1>2
<1>6. \A p \in Objs : tag[p] # 0 => tag'[p] # 0
  BY <1>3 DEF Registered
<1>7. /\ building' \in Seq(Constructions)
      /\ \A i, j \in DOMAIN building' :
           building'[i].native = building'[j].native \/ building'[i].obj = building'[j].obj
             => i = j
      /\ \A i \in DOMAIN building' : UnderConstruction(building[i])'
      /\ \A m \in Natives : m # t.native => (InBuilding(m)' <=> InBuilding(m))
      /\ \A i \in DOMAIN building' : i \in DOMAIN building /\ building'[i] = building[i]
  BY <1>1, <1>2, <1>4, <1>5, <1>6, Popped
<1>8. TypeOK'
  BY <1>1, <1>2, <1>3, <1>4, <1>7 DEF Inv, TypeOK, Registered
<1>9. \A p \in Objs : tag'[p] # 0 => p \in made'
  BY <1>1, <1>2, <1>3 DEF Inv, Registered, UnderConstruction
<1>10. \A p \in Objs : overrider'[p] # NoNative => overrider'[p] \in born' /\ tag'[p] # 0
  BY <1>1, <1>2, <1>3, <1>4 DEF Inv, Registered
<1>11. \A k \in Oids : refs'[k] # NoNative => refs'[k] \in born' /\ k < nextOid'
  BY <1>2, <1>3 DEF Inv, Registered
<1>12. OverridesReachTheirNative'
  <2> SUFFICES ASSUME NEW p \in Objs, overrider'[p] # NoNative,
                      overrider'[p] \notin failed', ~ InBuilding(overrider[p])'
               PROVE  tag'[p] # 0 /\ refs'[tag'[p]] = overrider'[p]
    BY DEF OverridesReachTheirNative
  <2>1. overrider'[p] # t.native /\ overrider'[p] = overrider[p] /\ overrider[p] \in Natives
    BY <1>2, <1>4 DEF Inv, TypeOK
  <2>2. \A m \in Natives : m = overrider[p] => ~ InBuilding(m)
    BY <1>7, <2>1 DEF InBuilding
  <2>3. tag[p] # 0 /\ refs[tag[p]] = overrider[p]
    BY <1>2, <2>1, <2>2 DEF Inv, OverridesReachTheirNative
  <2>4. tag'[p] = tag[p]
    BY <1>3, <2>3 DEF Registered
  <2> QED BY <1>2, <2>1, <2>3, <2>4
<1> QED BY <1>3, <1>7, <1>8, <1>9, <1>10, <1>11, <1>12 DEF Inv, Registered

(* The native object of the construction on top is adopted: in Java and    *)
(* .NET when the kernel answers, in Python when __init__ has returned.     *)
LEMMA AdoptTop ==
  ASSUME Inv, building # << >>,
         NEW t \in Constructions, t = Last(building),
         UnderConstruction(t), t.obj \in Objs, t.native \in Natives, t.native \in born,
         Registered(t.obj),
         building' = Front(building), lang' = lang,
         born' = born, made' = made, failed' = failed,
         NEW overridden \in BOOLEAN,
         overrider' = IF overridden THEN [overrider EXCEPT ![t.obj] = t.native] ELSE overrider,
         Adopt(RefOf(t.obj), t.native)
  PROVE  Inv'
<1>1. /\ \A p \in Objs : p # t.obj => overrider'[p] = overrider[p]
      /\ overrider'[t.obj] \in {overrider[t.obj], t.native}
      /\ overrider'[t.obj] \in {NoNative, t.native}
      /\ overrider' \in [Objs -> Natives \cup {NoNative}]
  BY DEF Inv, TypeOK, UnderConstruction
<1>2. /\ RefOf(t.obj) \in Oids
      /\ refs' \in [Oids -> Natives \cup {NoNative}]
      /\ given' \in [Oids -> SUBSET Natives]
      /\ \A k \in Oids : refs'[k] = IF k = RefOf(t.obj) THEN t.native ELSE refs[k]
  BY DEF Adopt, Registered, Inv, TypeOK
<1>3. \A k \in Oids : refs'[k] \in {refs[k], t.native}
  BY <1>2
<1>4. \A p \in Objs : tag[p] # 0 => tag'[p] # 0
  BY DEF Registered
<1>5. /\ building' \in Seq(Constructions)
      /\ \A i, j \in DOMAIN building' :
           building'[i].native = building'[j].native \/ building'[i].obj = building'[j].obj
             => i = j
      /\ \A i \in DOMAIN building' : UnderConstruction(building[i])'
      /\ \A m \in Natives : m # t.native => (InBuilding(m)' <=> InBuilding(m))
      /\ \A i \in DOMAIN building' : i \in DOMAIN building /\ building'[i] = building[i]
  <2>1. failed' \subseteq failed \cup {t.native}
    OBVIOUS
  <2> QED BY <1>1, <1>3, <1>4, <2>1, Popped
<1>6. TypeOK'
  BY <1>1, <1>2, <1>5 DEF Inv, TypeOK, Registered
<1>7. \A p \in Objs : tag'[p] # 0 => p \in made'
  BY DEF Inv, Registered, UnderConstruction
<1>8. \A p \in Objs : overrider'[p] # NoNative => overrider'[p] \in born' /\ tag'[p] # 0
  BY <1>1 DEF Inv, Registered
<1>9. \A k \in Oids : refs'[k] # NoNative => refs'[k] \in born' /\ k < nextOid'
  BY <1>2 DEF Inv, Registered
<1>10. OverridesReachTheirNative'
  <2> SUFFICES ASSUME NEW p \in Objs, overrider'[p] # NoNative,
                      overrider'[p] \notin failed', ~ InBuilding(overrider[p])'
               PROVE  tag'[p] # 0 /\ refs'[tag'[p]] = overrider'[p]
    BY DEF OverridesReachTheirNative
  <2>1. CASE p = t.obj
    BY <1>1, <1>2, <2>1 DEF Registered
  <2>2. CASE p # t.obj
    <3>1. overrider'[p] = overrider[p] /\ overrider[p] \in Natives /\ overrider[p] # t.native
      BY <1>1, <2>2 DEF Inv, TypeOK, UnderConstruction
    <3>2. \A m \in Natives : m = overrider[p] => ~ InBuilding(m)
      BY <1>5, <3>1 DEF InBuilding
    <3>3. tag[p] # 0 /\ refs[tag[p]] = overrider[p]
      BY <3>1, <3>2 DEF Inv, OverridesReachTheirNative
    <3>4. tag'[p] = tag[p] /\ tag[p] # RefOf(t.obj) /\ tag[p] \in Oids
      BY <2>2, <3>3 DEF Registered, Inv, TypeOK, TableTypeOK
    <3> QED BY <1>2, <3>1, <3>3, <3>4
  <2> QED BY <2>1, <2>2
<1> QED BY <1>5, <1>6, <1>7, <1>8, <1>9, <1>10 DEF Inv, Registered

(* Python: the kernel has answered, and __init__ goes on. *)
LEMMA GoOnInInit ==
  ASSUME Inv, building # << >>,
         NEW t \in Constructions, t = Last(building),
         UnderConstruction(t), t.obj \in Objs, t.native \in Natives, t.native \in born,
         Registered(t.obj), lang = "python", lang' = lang,
         building' = [building EXCEPT ![Len(building)].phase = "init"],
         born' = born, made' = made, failed' = failed, refs' = refs, given' = given,
         NEW overridden \in BOOLEAN,
         overrider' = IF overridden THEN [overrider EXCEPT ![t.obj] = t.native] ELSE overrider
  PROVE  Inv'
<1>1. /\ TypeOK /\ Len(building) \in DOMAIN building /\ t = building[Len(building)]
  BY TopConstruction DEF Inv
<1>2. /\ building \in Seq(Constructions) /\ DOMAIN building = 1 .. Len(building)
  BY <1>1, LenProperties DEF TypeOK
<1>3. [t EXCEPT !.phase = "init"] \in Constructions
  BY DEF Constructions
<1>4. building' = [building EXCEPT ![Len(building)] = [t EXCEPT !.phase = "init"]]
  BY <1>1
<1>5. /\ building' \in Seq(Constructions)
      /\ DOMAIN building' = DOMAIN building
      /\ \A i \in DOMAIN building :
           building'[i] = IF i = Len(building) THEN [t EXCEPT !.phase = "init"] ELSE building[i]
  BY <1>1, <1>2, <1>3, <1>4, ExceptSeq
<1>6. \A i \in DOMAIN building :
        /\ building[i] \in Constructions
        /\ building'[i].native = building[i].native /\ building'[i].obj = building[i].obj
  <2>1. \A i \in DOMAIN building : building[i] \in Constructions
    BY <1>2, LenProperties
  <2>2. [t EXCEPT !.phase = "init"].native = t.native /\ [t EXCEPT !.phase = "init"].obj = t.obj
    BY DEF Constructions
  <2> QED BY <1>1, <1>5, <2>1, <2>2
<1>7. /\ \A p \in Objs : p # t.obj => overrider'[p] = overrider[p]
      /\ overrider'[t.obj] \in {NoNative, t.native}
      /\ overrider' \in [Objs -> Natives \cup {NoNative}]
  BY <1>1 DEF TypeOK, UnderConstruction
<1>8. TypeOK'
  BY <1>1, <1>5, <1>7 DEF TypeOK, Registered
<1>9. \A i \in DOMAIN building' : UnderConstruction(building[i])'
  <2> SUFFICES ASSUME NEW i \in DOMAIN building PROVE UnderConstruction(building[i])'
    BY <1>5
  <2>1. CASE i = Len(building)
    <3>1. /\ building'[i].native = t.native /\ building'[i].obj = t.obj
          /\ building'[i].phase = "init"
      BY <1>3, <1>5, <2>1 DEF Constructions
    <3>2. \A p \in Objs : overrider'[p] = t.native => p = t.obj
      BY <1>7 DEF UnderConstruction
    <3> QED BY <1>7, <3>1, <3>2 DEF UnderConstruction, Registered
  <2>2. CASE i # Len(building)
    <3>1. building'[i] = building[i] /\ UnderConstruction(building[i])
      BY <1>5, <2>2 DEF Inv
    <3>2. building[i].native # t.native /\ building[i].obj # t.obj
      BY <1>1, <2>2 DEF Inv
    <3>3. building[i].obj \in Objs
      BY <1>6 DEF Constructions
    <3>4. overrider'[building[i].obj] = overrider[building[i].obj]
      BY <1>7, <3>2, <3>3
    <3>5. \A p \in Objs : overrider'[p] = building[i].native => overrider[p] = building[i].native
      BY <1>7, <3>1, <3>2, NoNativeAssumption, <1>6 DEF Constructions
    <3>6. tag[building[i].obj] # 0 => tag'[building[i].obj] # 0
      BY <3>3 DEF Registered
    <3>7. \A p \in Objs : overrider'[p] = building[i].native => p = building[i].obj
      BY <3>1, <3>5 DEF UnderConstruction
    <3>8. \A k \in Oids : refs'[k] # building[i].native
      BY <3>1 DEF UnderConstruction
    <3>9. building[i].phase = "init" => tag'[building[i].obj] # 0
      BY <3>1, <3>6 DEF UnderConstruction
    <3>10. PICK c : c = building[i] /\ c = building'[i]
      BY <3>1
    <3>11. UnderConstruction(c)'
      BY <3>1, <3>4, <3>7, <3>8, <3>9, <3>10 DEF UnderConstruction
    <3> QED BY <3>10, <3>11 DEF UnderConstruction
  <2> QED BY <2>1, <2>2
<1>10. \A i, j \in DOMAIN building' :
         building'[i].native = building'[j].native \/ building'[i].obj = building'[j].obj
           => i = j
  BY <1>5, <1>6 DEF Inv
<1>11. \A p \in Objs : tag'[p] # 0 => p \in made'
  BY DEF Inv, Registered, UnderConstruction
<1>12. \A p \in Objs : overrider'[p] # NoNative => overrider'[p] \in born' /\ tag'[p] # 0
  BY <1>7 DEF Inv, Registered
<1>13. \A k \in Oids : refs'[k] # NoNative => refs'[k] \in born' /\ k < nextOid'
  BY DEF Inv, Registered
<1>14. OverridesReachTheirNative'
  <2> SUFFICES ASSUME NEW p \in Objs, overrider'[p] # NoNative,
                      overrider'[p] \notin failed', ~ InBuilding(overrider[p])'
               PROVE  tag'[p] # 0 /\ refs'[tag'[p]] = overrider'[p]
    BY DEF OverridesReachTheirNative
  <2>1. overrider'[p] # t.native
    BY <1>1, <1>5, <1>6 DEF InBuilding
  <2>2. overrider'[p] = overrider[p]
    BY <1>7, <2>1
  <2>3. ~ InBuilding(overrider[p])
    BY <1>5, <1>6, <2>2 DEF InBuilding
  <2>4. tag[p] # 0 /\ refs[tag[p]] = overrider[p]
    BY <2>2, <2>3 DEF Inv, OverridesReachTheirNative
  <2> QED BY <2>2, <2>4 DEF Registered
<1> QED BY <1>8, <1>9, <1>10, <1>11, <1>12, <1>13, <1>14 DEF Inv, Registered

LEMMA FinishCreateInv ==
  ASSUME Inv, NEW overridden \in BOOLEAN, FinishCreate(overridden)
  PROVE  Inv'
<1>1. PICK t \in Constructions :
        /\ t = Last(building) /\ UnderConstruction(t)
        /\ t.obj \in Objs /\ t.native \in Natives /\ t.native \in born
  BY TopIsUnderConstruction DEF FinishCreate, Building
<1>2. /\ building # << >> /\ t.phase = "kernel"
      /\ RegisterObject(t.obj)
      /\ overrider' = IF overridden THEN [overrider EXCEPT ![t.obj] = t.native] ELSE overrider
      /\ born' = born /\ made' = made /\ failed' = failed /\ lang' = lang
  BY <1>1 DEF FinishCreate, Building
<1>3. Registered(t.obj)
  BY <1>1, <1>2, RegisteredStep
<1>4. CASE lang = "python"
  BY <1>1, <1>2, <1>3, <1>4, GoOnInInit DEF FinishCreate
<1>5. CASE lang # "python"
  BY <1>1, <1>2, <1>3, <1>5, AdoptTop DEF FinishCreate
<1> QED BY <1>4, <1>5

LEMMA FinishInitInv ==
  ASSUME Inv, FinishInit
  PROVE  Inv'
<1>1. PICK t \in Constructions :
        /\ t = Last(building) /\ UnderConstruction(t)
        /\ t.obj \in Objs /\ t.native \in Natives /\ t.native \in born
  BY TopIsUnderConstruction DEF FinishInit, Building
<1>2. /\ building # << >> /\ t.phase = "init" /\ building' = Front(building)
      /\ Adopt(tag[t.obj], t.native)
      /\ UNCHANGED tableVars
      /\ born' = born /\ made' = made /\ failed' = failed
      /\ overrider' = overrider /\ lang' = lang
  BY <1>1 DEF FinishInit, Building
<1>3. tag[t.obj] # 0
  BY <1>1, <1>2 DEF UnderConstruction
<1>4. RegisterObject(t.obj) /\ RefOf(t.obj) = tag[t.obj]
  BY <1>2, <1>3 DEF RegisterObject, RefOf
<1>5. Registered(t.obj)
  BY <1>1, <1>4, RegisteredStep
<1>6. overrider' = IF FALSE THEN [overrider EXCEPT ![t.obj] = t.native] ELSE overrider
  BY <1>2
<1> QED BY <1>1, <1>2, <1>4, <1>5, <1>6, FALSE \in BOOLEAN, AdoptTop

(* An object of no jsii class is new to the sandbox, not to the program. *)
LEMMA PassNativeInv ==
  ASSUME Inv, NEW o \in Objs, NEW n \in Natives, PassNative(n, o)
  PROVE  Inv'
<1>1. /\ n \in Pure /\ o \notin made
      /\ made' = made \cup {o} /\ born' = born \cup {n}
      /\ overrider' = [overrider EXCEPT ![o] = n]
      /\ Adopt(RefOf(o), n)
      /\ failed' = failed /\ building' = building /\ lang' = lang
  BY DEF PassNative
<1>2. Registered(o)
  BY RegisteredStep DEF PassNative
<1>3. /\ tag[o] = 0 /\ refs[RefOf(o)] = NoNative
      /\ \A i \in DOMAIN building : building[i].obj # o
  BY <1>1, <1>2, UnmadeIsBare DEF Registered
<1>4. /\ RefOf(o) \in Oids
      /\ refs' \in [Oids -> Natives \cup {NoNative}]
      /\ given' \in [Oids -> SUBSET Natives]
      /\ overrider' \in [Objs -> Natives \cup {NoNative}]
      /\ \A k \in Oids : refs'[k] = IF k = RefOf(o) THEN n ELSE refs[k]
      /\ \A p \in Objs : overrider'[p] = IF p = o THEN n ELSE overrider[p]
  BY <1>1, <1>2 DEF Adopt, Registered, Inv, TypeOK
<1>5. TypeOK'
  BY <1>1, <1>2, <1>4 DEF Inv, TypeOK, Registered
<1>6. \A i \in DOMAIN building' : UnderConstruction(building[i])'
  <2> SUFFICES ASSUME NEW i \in DOMAIN building PROVE UnderConstruction(building[i])'
    BY <1>1
  <2>1. building[i] \in Constructions /\ building'[i] = building[i]
    BY <1>1, LenProperties DEF Inv, TypeOK
  <2>2. UnderConstruction(building[i]) /\ building[i].obj \in Objs
    BY <2>1 DEF Inv, Constructions
  <2>3. building[i].native # n /\ building[i].obj # o
    BY <1>1, <1>3, <2>2 DEF UnderConstruction
  <2>4. overrider'[building[i].obj] = overrider[building[i].obj]
    BY <1>4, <2>2, <2>3
  <2>5. \A p \in Objs : overrider'[p] = building[i].native => p = building[i].obj
    BY <1>4, <2>2, <2>3 DEF UnderConstruction
  <2>6. \A k \in Oids : refs'[k] # building[i].native
    BY <1>4, <2>2, <2>3 DEF UnderConstruction
  <2>7. tag[building[i].obj] # 0 => tag'[building[i].obj] # 0
    BY <1>2, <2>2 DEF Registered
  <2> QED BY <1>1, <2>1, <2>2, <2>4, <2>5, <2>6, <2>7 DEF UnderConstruction
<1>7. \A p \in Objs : tag'[p] # 0 => p \in made'
  BY <1>1, <1>2 DEF Inv, Registered
<1>8. \A p \in Objs : overrider'[p] # NoNative => overrider'[p] \in born' /\ tag'[p] # 0
  BY <1>1, <1>2, <1>4 DEF Inv, Registered
<1>9. \A k \in Oids : refs'[k] # NoNative => refs'[k] \in born' /\ k < nextOid'
  BY <1>1, <1>2, <1>4 DEF Inv, Registered
<1>10. OverridesReachTheirNative'
  <2> SUFFICES ASSUME NEW p \in Objs, overrider'[p] # NoNative,
                      overrider'[p] \notin failed, ~ InBuilding(overrider[p])'
               PROVE  tag'[p] # 0 /\ refs'[tag'[p]] = overrider'[p]
    BY <1>1 DEF OverridesReachTheirNative
  <2>1. CASE p = o
    BY <1>2, <1>4, <2>1 DEF Registered
  <2>2. CASE p # o
    <3>1. overrider'[p] = overrider[p]
      BY <1>4, <2>2
    <3>2. ~ InBuilding(overrider[p])
      BY <1>1, <3>1 DEF InBuilding
    <3>3. tag[p] # 0 /\ refs[tag[p]] = overrider[p]
      BY <3>1, <3>2 DEF Inv, OverridesReachTheirNative
    <3>4. tag'[p] = tag[p] /\ tag[p] # RefOf(o) /\ tag[p] \in Oids
      BY <1>2, <2>2, <3>3 DEF Registered, Inv, TypeOK, TableTypeOK
    <3> QED BY <1>4, <3>1, <3>3, <3>4
  <2> QED BY <2>1, <2>2
<1>11. \A i, j \in DOMAIN building' :
         building'[i].native = building'[j].native \/ building'[i].obj = building'[j].obj
           => i = j
  BY <1>1 DEF Inv
<1> QED BY <1>2, <1>5, <1>6, <1>7, <1>8, <1>9, <1>10, <1>11 DEF Inv, Registered

(* A reference that is deleted stays with the client, and with its object. *)
LEMMA DeleteInv ==
  ASSUME Inv, NEW i \in Oids, Delete(i)
  PROVE  Inv'
<1>1. /\ UNCHANGED <<tag, nextOid, lang, made, overrider, refs, given, born, failed>>
      /\ building' = building
  BY DEF Delete, DeleteObject, nativeVars
<1>2. TableInv'
  BY DeleteStep DEF Inv, Delete
<1>3. TypeOK' /\ OverridesReachTheirNative'
  BY <1>1, <1>2 DEF Inv, TypeOK, TableInv, OverridesReachTheirNative, InBuilding
<1>4. \A j \in DOMAIN building' : UnderConstruction(building[j])'
  BY <1>1 DEF Inv, UnderConstruction
<1> QED BY <1>1, <1>2, <1>3, <1>4 DEF Inv

LEMMA IdleInv ==
  ASSUME Inv, UNCHANGED identityVars
  PROVE  Inv'
<1>1. /\ UNCHANGED <<objects, tag, nextOid, lang, made, overrider, refs, given, born, failed>>
      /\ building' = building
  BY DEF identityVars, nativeVars, tableVars
<1>2. TypeOK' /\ TableInv' /\ OverridesReachTheirNative'
  BY <1>1 DEF Inv, TypeOK, TableTypeOK, TableInv, TableMatchesTags,
              OverridesReachTheirNative, InBuilding
<1>3. \A i \in DOMAIN building' : UnderConstruction(building[i])'
  BY <1>1 DEF Inv, UnderConstruction
<1> QED BY <1>1, <1>2, <1>3 DEF Inv

LEMMA NextInv ==
  ASSUME Inv, [Next]_identityVars
  PROVE  Inv'
BY SandboxNewInv, PassKnownInv, StartCreateInv, PassUnknownInv, PassNativeInv,
   FinishCreateInv, FailOverridesInv, FinishInitInv, FailConstructionInv, DeleteInv, IdleInv
   DEF Next

(* Every variable keeps its type, whatever is created and passed. *)
THEOREM IdentityTypesHold == Spec => []TypeOK
<1>1. Inv /\ [Next]_identityVars => Inv'
  BY NextInv
<1>2. Inv => TypeOK
  BY DEF Inv
<1> QED BY <1>1, <1>2, InitInv, PTL DEF Spec

(* In all three client libraries, with constructors that pass out the      *)
(* object they construct, constructions nested in callbacks, and failures. *)
THEOREM CallbacksReachTheirNative == Spec => []OverridesReachTheirNative
<1>1. Inv /\ [Next]_identityVars => Inv'
  BY NextInv
<1>2. Inv => OverridesReachTheirNative
  BY DEF Inv
<1> QED BY <1>1, <1>2, InitInv, PTL DEF Spec

-----------------------------------------------------------------------------
(* The entry of the map that a step writes: it was empty, or the native    *)
(* object of the construction that ends takes it over.  What is written    *)
(* was in no other entry, but where Python passes a native object again.   *)
Written(i, n) ==
  /\ i \in Oids /\ n \in Natives
  /\ refs' = [refs EXCEPT ![i] = n]
  /\ refs[i] # NoNative => building # << >> /\ tag[Last(building).obj] = i
  /\ lang = "python" \/ \A k \in Oids : refs[k] # n

LEMMA TopWritten ==
  ASSUME Inv, building # << >>, NEW i \in Oids,
         RegisterObject(Last(building).obj), i = RefOf(Last(building).obj),
         Adopt(i, Last(building).native)
  PROVE  Written(i, Last(building).native)
<1>1. PICK t \in Constructions :
        /\ t = Last(building) /\ UnderConstruction(t)
        /\ t.obj \in Objs /\ t.native \in Natives
  BY TopIsUnderConstruction
<1>2. Registered(t.obj)
  BY <1>1, RegisteredStep
<1>3. refs[i] # NoNative => tag[t.obj] = i
  BY <1>1, <1>2 DEF Registered, RefOf
<1> QED BY <1>1, <1>3 DEF Written, Adopt, UnderConstruction

LEMMA WhatIsWritten ==
  ASSUME Inv, Next
  PROVE  refs' = refs \/ \E i \in Oids, n \in Natives : Written(i, n)
<1>1. ASSUME NEW o \in Objs, NEW n \in Natives, PassUnknown(o, n)
      PROVE  refs' = refs \/ (Written(RefOf(o), n) /\ RefOf(o) \in Oids)
  <2>1. Registered(o) /\ n \notin born
    BY <1>1, RegisteredStep DEF PassUnknown
  <2>2. \A k \in Oids : refs[k] # n
    BY <2>1, UnbornIsNowhere
  <2> QED BY <1>1, <2>1, <2>2 DEF PassUnknown, Adopt, Written, Registered
<1>2. ASSUME NEW o \in Objs, NEW n \in Natives, PassNative(n, o)
      PROVE  Written(RefOf(o), n) /\ RefOf(o) \in Oids
  <2>1. Registered(o) /\ tag[o] = 0
    BY <1>2, RegisteredStep, UnmadeIsBare DEF PassNative
  <2>2. lang \in {"java", "dotnet", "python"}
    BY LangsAssumption DEF Inv, TypeOK
  <2> QED BY <1>2, <2>1, <2>2 DEF PassNative, Adopt, Written, Registered
<1>3. ASSUME NEW overridden \in BOOLEAN, FinishCreate(overridden)
      PROVE  refs' = refs \/ \E i \in Oids, n \in Natives : Written(i, n)
  <2>1. PICK t \in Constructions : t = Last(building) /\ t.obj \in Objs /\ t.native \in Natives
    BY <1>3, TopIsUnderConstruction DEF FinishCreate, Building
  <2>2. building # << >> /\ RegisterObject(t.obj)
    BY <1>3, <2>1 DEF FinishCreate, Building
  <2>3. RefOf(t.obj) \in Oids
    BY <2>1, <2>2, RegisteredStep DEF Registered
  <2>4. refs' = refs \/ Adopt(RefOf(t.obj), t.native)
    BY <1>3, <2>1 DEF FinishCreate
  <2> QED BY <2>1, <2>2, <2>3, <2>4, TopWritten
<1>4. ASSUME FinishInit
      PROVE  \E i \in Oids, n \in Natives : Written(i, n)
  <2>1. PICK t \in Constructions :
          /\ t = Last(building) /\ t.obj \in Objs /\ t.native \in Natives
          /\ UnderConstruction(t)
    BY <1>4, TopIsUnderConstruction DEF FinishInit, Building
  <2>2. /\ building # << >> /\ tag[t.obj] # 0 /\ UNCHANGED tableVars
        /\ Adopt(tag[t.obj], t.native)
    BY <1>4, <2>1 DEF FinishInit, Building, UnderConstruction
  <2>3. RegisterObject(t.obj) /\ tag[t.obj] = RefOf(t.obj) /\ tag[t.obj] \in Oids
    BY <2>1, <2>2 DEF RegisterObject, RefOf, Inv, TypeOK, TableTypeOK
  <2> QED BY <2>1, <2>2, <2>3, TopWritten
<1>5. ASSUME NEW o \in Objs, NEW n \in Natives,
             SandboxNew(o) \/ PassKnown(o) \/ StartCreate(o, n)
      PROVE  refs' = refs
  BY <1>5 DEF SandboxNew, PassKnown, StartCreate
<1>6. ASSUME NEW overridden \in BOOLEAN, FailOverrides(overridden) \/ FailConstruction
      PROVE  refs' = refs
  BY <1>6 DEF FailOverrides, FailConstruction
<1>7. FailConstruction => refs' = refs
  BY DEF FailConstruction
<1>8. \A o \in Objs : SandboxNew(o) \/ PassKnown(o) => refs' = refs
  BY DEF SandboxNew, PassKnown
<1>9. \A i \in Oids : Delete(i) => refs' = refs
  BY DEF Delete, nativeVars
<1> QED BY <1>1, <1>2, <1>3, <1>4, <1>5, <1>6, <1>7, <1>8, <1>9 DEF Next

(* The object a client has for a reference is replaced only by the one     *)
(* whose construction comes to an end, and only once.                      *)
THEOREM ReferencesAreStable == Spec => ReferencesStable
<1>1. Inv /\ [Next]_identityVars => [StableReference]_identityVars
  BY WhatIsWritten DEF StableReference, Written, Inv, TypeOK
<1>2. Inv /\ [Next]_identityVars => Inv'
  BY NextInv
<1> QED BY <1>1, <1>2, InitInv, PTL DEF Spec, ReferencesStable

LEMMA LangStays == ASSUME [Next]_identityVars PROVE lang' = lang
BY DEF Next, SandboxNew, PassKnown, StartCreate, PassUnknown, PassNative, FinishCreate,
       FailOverrides, FinishInit, FailConstruction, Delete, identityVars, nativeVars

(* In Java and .NET a native object has at most one reference, so that     *)
(* passing it to the kernel twice passes the same JavaScript object.       *)
THEOREM NativesHaveOneReference == Spec => []OneReferencePerNative
<1>1. Init => OneReferencePerNative
  BY DEF Init, OneReferencePerNative
<1>2. Inv /\ OneReferencePerNative /\ [Next]_identityVars => OneReferencePerNative'
  <2> SUFFICES ASSUME Inv, OneReferencePerNative, [Next]_identityVars, lang # "python"
               PROVE  OneReferencePerNative'
    BY LangStays DEF OneReferencePerNative
  <2>1. CASE refs' = refs
    BY <2>1 DEF OneReferencePerNative
  <2>2. ASSUME NEW i \in Oids, NEW n \in Natives, Written(i, n)
        PROVE  OneReferencePerNative'
    <3>1. /\ \A k \in Oids : refs[k] # n
          /\ \A k \in Oids : refs'[k] = IF k = i THEN n ELSE refs[k]
      BY <2>2 DEF Written, Inv, TypeOK
    <3> QED BY <3>1 DEF OneReferencePerNative
  <2>3. CASE UNCHANGED identityVars
    BY <2>1, <2>3 DEF identityVars, nativeVars
  <2> QED BY <2>1, <2>2, <2>3, WhatIsWritten
<1>3. Inv /\ [Next]_identityVars => Inv'
  BY NextInv
<1> QED BY <1>1, <1>2, <1>3, InitInv, PTL DEF Spec
=============================================================================
