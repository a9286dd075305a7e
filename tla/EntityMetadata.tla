--------------------------- MODULE EntityMetadata ---------------------------
(***************************************************************************)
(* EntityMetadata (entitymetadata.h, entitymetadata.cpp): the process-wide *)
(* registry of entity types, their names and icons, and the metadata       *)
(* objects that take their icon from it.                                   *)
(*                                                                         *)
(* registerMetadata() has a lock of its own, which nobody else takes:      *)
(* names, types and icons are read, and icons set, at any moment.  An      *)
(* EntityMetadataInfo is named by its place in "infos", which only grows.  *)
(***************************************************************************)
EXTENDS Naturals, Sequences, FiniteSets

CONSTANTS
    Users,      \* threads
    Nobody,     \* the holder of the free lock
    Types,      \* entity types
    Names,
    Icons,
    MaxCalls    \* bound on the calls of registerMetadata() and registerIcon()

\* 0 is the type of an EntityMetadata that is not valid, and no icon.
MetadataAssumption ==
    /\ Nobody \notin Users
    /\ Types \subseteq Nat \ {0} /\ Icons \subseteq Nat /\ 0 \in Icons
    /\ MaxCalls \in Nat

VARIABLES
    registeredTypes,    \* _registeredTypes: the info of a type, 0 if it has none
    nameToTypeMap,      \* _nameToTypeMap: the type of a name, 0 if it has none
    infos,              \* every EntityMetadataInfo ever made
    lock,               \* the holder of registerMetadata()'s lock
    arg,                \* the type and the name it is registering
    metadata,           \* the last EntityMetadata made of each type
    usedDeleted,        \* a deleted info was used
    calls, asked        \* the calls, and the pairs <<type, name>> of registerMetadata()

metadataVars == <<registeredTypes, nameToTypeMap, infos, lock, arg, metadata,
                  usedDeleted, calls, asked>>

Null == 0

TypeOK ==
    /\ infos \in Seq([name : Names, iconId : Icons, deleted : BOOLEAN])
    /\ registeredTypes \in [Types -> 0..Len(infos)]
    /\ nameToTypeMap \in [Names -> Types \cup {0}]
    /\ lock \in Users \cup {Nobody}
    /\ arg \in [type : Types, name : Names]
    /\ metadata \in [Types -> Icons \cup {Nobody}]
    /\ usedDeleted \in BOOLEAN
    /\ calls \in 0..MaxCalls
    /\ asked \subseteq Types \X Names

Init ==
    /\ registeredTypes = [t \in Types |-> Null]
    /\ nameToTypeMap = [n \in Names |-> 0]
    /\ infos = <<>>
    /\ lock = Nobody
    /\ arg \in {[type |-> CHOOSE t \in Types : TRUE, name |-> CHOOSE n \in Names : TRUE]}
    /\ metadata = [t \in Types |-> Nobody]
    /\ usedDeleted = FALSE
    /\ calls = 0 /\ asked = {}

Count == calls < MaxCalls /\ calls' = calls + 1

IsDeleted(i) == i # Null /\ infos[i].deleted

Use(i) == usedDeleted' = (usedDeleted \/ IsDeleted(i))

-----------------------------------------------------------------------------
\* A version of RegisterMetadata that deletes the info whatever its name.
RegisterAlways(u, t, n) ==
    /\ Count
    /\ lock = Nobody
    /\ asked' = asked \cup {<<t, n>>}
    /\ LET i == registeredTypes[t]
       IN  /\ Use(i)
           /\ IF i # Null
              THEN /\ infos' = [infos EXCEPT ![i].deleted = TRUE]
                   /\ UNCHANGED <<registeredTypes, lock, arg>>
              ELSE /\ infos' = Append(infos, [name |-> n, iconId |-> 0, deleted |-> FALSE])
                   /\ registeredTypes' = [registeredTypes EXCEPT ![t] = Len(infos')]
                   /\ arg' = [type |-> t, name |-> n]
                   /\ lock' = u
    /\ UNCHANGED <<nameToTypeMap, metadata>>

\* registerMetadata(type, name, iconId): a type that has another name loses its
\* info, to which _registeredTypes still points; one that has none gets one, and
\* under the same lock ...
RegisterMetadata(u, t, n) ==
    /\ Count
    /\ lock = Nobody
    /\ asked' = asked \cup {<<t, n>>}
    /\ LET i == registeredTypes[t]
       IN  /\ Use(i)
           /\ \/ /\ i # Null
                 /\ \E same \in {infos[i].name = n} \cup IF IsDeleted(i) THEN BOOLEAN ELSE {} :
                        infos' = IF same THEN infos ELSE [infos EXCEPT ![i].deleted = TRUE]
                 /\ UNCHANGED <<registeredTypes, lock, arg>>
              \/ /\ i = Null
                 /\ \E icon \in Icons :
                        infos' = Append(infos, [name |-> n, iconId |-> icon, deleted |-> FALSE])
                 /\ registeredTypes' = [registeredTypes EXCEPT ![t] = Len(infos')]
                 /\ arg' = [type |-> t, name |-> n]
                 /\ lock' = u
    /\ UNCHANGED <<nameToTypeMap, metadata>>

\* ... its name leads to it: a name that led to another type no longer does.
RegisterName(u) ==
    /\ lock = u /\ lock' = Nobody
    /\ nameToTypeMap' = [nameToTypeMap EXCEPT ![arg.name] = arg.type]
    /\ UNCHANGED <<registeredTypes, infos, arg, metadata, usedDeleted, calls, asked>>

\* The info that value(type) finds without the lock: perhaps none yet while another
\* thread inserts it.
Found(t) ==
    {registeredTypes[t]} \cup IF lock # Nobody /\ arg.type = t THEN {Null} ELSE {}

RegisterIcon(t, icon) ==
    /\ Count
    /\ \E i \in Found(t) :
           /\ Use(i)
           /\ infos' = IF i = Null THEN infos ELSE [infos EXCEPT ![i].iconId = icon]
    /\ UNCHANGED <<registeredTypes, nameToTypeMap, lock, arg, metadata, asked>>

\* The constructor with resolveIconId(): an info found later, or an icon set later,
\* does not reach the object.
Construct(t) ==
    /\ \E i \in Found(t) :
           /\ Use(i)
           /\ \E icon \in IF i = Null THEN {0}
                          ELSE IF IsDeleted(i) THEN Icons ELSE {infos[i].iconId} :
                  metadata' = [metadata EXCEPT ![t] = icon]
    /\ UNCHANGED <<registeredTypes, nameToTypeMap, infos, lock, arg, calls, asked>>

Next ==
    \/ \E u \in Users : \/ \E t \in Types, n \in Names : RegisterMetadata(u, t, n)
                        \/ RegisterName(u)
    \/ \E t \in Types, icon \in Icons : RegisterIcon(t, icon)
    \/ \E t \in Types : Construct(t)

Spec == Init /\ [][Next]_metadataVars

-----------------------------------------------------------------------------
(* Correctness                                                             *)

\* getTypeString() and getTypeFromString()
GetTypeString(t) == infos[registeredTypes[t]].name

GetTypeFromString(n) == nameToTypeMap[n]

\* The type was registered under one name, and that name for no other type.
Undisputed(t) ==
    \A a, b \in asked : (a[1] = t /\ (b[1] = t \/ b[2] = a[2])) => a = b

\* As long as every type keeps to one name and every name to one type, however
\* many threads register it again, a type and its name lead to each other once
\* registerMetadata() has returned, and no deleted info is used.  A type that is
\* registered under another name has a dangling info ever after.
RegistryAgrees ==
    /\ \A t \in Types :
          Undisputed(t) /\ registeredTypes[t] # Null =>
              /\ ~IsDeleted(registeredTypes[t])
              /\ lock = Nobody => GetTypeFromString(GetTypeString(t)) = t
    /\ (\A t \in Types : Undisputed(t)) => ~usedDeleted

=============================================================================
