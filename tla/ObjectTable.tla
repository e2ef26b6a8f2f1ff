---------------------------- MODULE ObjectTable ----------------------------
(***************************************************************************)
(* The kernel's table of objects that clients hold references to           *)
(* (packages/jsii-kernel/lib/objects.ts), for every JavaScript object the  *)
(* sandbox has.  Besides the table, a hidden property of the object itself *)
(* - its tag - holds the reference it was last given; serialization looks  *)
(* at the tag and never at the table.                                      *)
(***************************************************************************)
EXTENDS Naturals

CONSTANTS
  Objs,    \* JavaScript objects
  Nobody,  \* no object
  MaxOid   \* bound on ObjectTable.nextid

ASSUME NobodyAssumption == Nobody \notin Objs
ASSUME MaxOidAssumption == MaxOid \in Nat

VARIABLES
  objects, \* the registered object of each id
  tag,     \* the id in the OBJID_SYMBOL property of each object, 0 if unset
  nextOid  \* ObjectTable.nextid

tableVars == <<objects, tag, nextOid>>

Oids == 1 .. MaxOid

TableTypeOK ==
  /\ objects \in [Oids -> Objs \cup {Nobody}]
  /\ tag \in [Objs -> Oids \cup {0}]
  /\ nextOid \in 1 .. MaxOid + 1

TableInit ==
  /\ objects = [i \in Oids |-> Nobody]
  /\ tag = [o \in Objs |-> 0]
  /\ nextOid = 1

-----------------------------------------------------------------------------
(* Mutant: the table is searched by type and count instead of nextid.      *)
(* (An id is free again once its object was deleted.)                      *)
RegisterInFreeSlot(o) ==
  IF tag[o] # 0
  THEN UNCHANGED tableVars
  ELSE \E i \in Oids :
         /\ objects[i] = Nobody /\ \A j \in 1 .. i - 1 : objects[j] # Nobody
         /\ objects' = [objects EXCEPT ![i] = o]
         /\ tag' = [tag EXCEPT ![o] = i]
         /\ nextOid' = IF i = nextOid THEN nextOid + 1 ELSE nextOid

(* Mutant: an object is registered again although it has a reference. *)
RegisterAgain(o) ==
  /\ nextOid <= MaxOid
  /\ objects' = [objects EXCEPT ![nextOid] = o]
  /\ tag' = [tag EXCEPT ![o] = nextOid]
  /\ nextOid' = nextOid + 1

(* The reference registerObject(o) returns. *)
RefOf(o) == IF tag[o] # 0 THEN tag[o] ELSE nextOid

RegisterObject(o) ==
  IF tag[o] # 0
  THEN UNCHANGED tableVars
  ELSE /\ nextOid <= MaxOid
       /\ objects' = [objects EXCEPT ![nextOid] = o]
       /\ tag' = [tag EXCEPT ![o] = nextOid]
       /\ nextOid' = nextOid + 1

(* Throws for an object that is not registered; the tag stays. *)
DeleteObject(i) ==
  /\ objects[i] # Nobody
  /\ objects' = [objects EXCEPT ![i] = Nobody]
  /\ UNCHANGED <<tag, nextOid>>

TableNext ==
  \/ \E o \in Objs : RegisterObject(o)
  \/ \E i \in Oids : DeleteObject(i)

TableSpec == TableInit /\ [][TableNext]_tableVars

-----------------------------------------------------------------------------
(* The table and the tags agree: whatever was deleted, a registered object *)
(* is tagged with the id it is registered under, so that it is registered  *)
(* once and comes back to a client under the reference the client holds.   *)
TableMatchesTags ==
  \A i \in Oids : objects[i] # Nobody => tag[objects[i]] = i

(* A reference never comes to mean another object, not even after the      *)
(* object it meant was deleted.                                            *)
MeansTheSame == \A o \in Objs : tag[o] # 0 =>
  /\ tag'[o] = tag[o]
  /\ objects'[tag[o]] \in {o, Nobody}
ReferencesKeepMeaning == [][MeansTheSame]_tableVars
=============================================================================
