------------------------------ MODULE DataModel ------------------------------
(***************************************************************************)
(* The data model of src/dataProvider, dmProviderDatabase.cpp: objects with *)
(* properties, read from files, and the names under which their instances   *)
(* are asked for.  A name is the sequence of the parts between its dots.    *)
(* The part after the name of a list is the id of one of its items, and     *)
(* stands in the names of instances only.                                   *)
(***************************************************************************)
EXTENDS Naturals, Sequences, FiniteSets, SequencesExt

CONSTANTS
  Model, \* model_db: object -> [isList, properties]
  Names  \* the names that may be asked for

NoObject == <<>>
NoProperty == ""

\* An object name has a part, and a list has an object above it.
ASSUME DataModelAssumption ==
  /\ IsFiniteSet(DOMAIN Model)
  /\ \A o \in DOMAIN Model :
       /\ o \in Seq(Range(o)) /\ o # NoObject
       /\ Model[o].isList \in BOOLEAN
       /\ Model[o].isList => Len(o) > 1
       /\ Model[o].properties \in Seq(Range(Model[o].properties))
  /\ \A n \in Names : n \in Seq(Range(n))

\* One round of the loop of getProviderByObjectName: the part after a list is
\* skipped, a prefix in the database is the object so far, and a prefix that is not
\* ends the search, unless it is above every object.
Token(s, token) ==
  LET full == Append(s.full, token)
  IN  CASE s.failed -> s
        [] ~s.failed /\ s.inList -> [s EXCEPT !.inList = FALSE, !.item = TRUE]
        [] ~s.failed /\ ~s.inList /\ full \in DOMAIN Model ->
             [s EXCEPT !.full = full, !.object = full, !.item = FALSE,
                       !.inList = Model[full].isList]
        [] OTHER -> [s EXCEPT !.full = full, !.item = FALSE,
                              !.failed = s.object # NoObject]

Walk(name) ==
  LET start == [full |-> <<>>, object |-> NoObject, inList |-> FALSE, item |-> FALSE,
                failed |-> FALSE]
      read[i \in 0 .. Len(name)] == IF i = 0 THEN start ELSE Token(read[i - 1], name[i])
  IN  read[Len(name)]

Found == [name \in Names |-> Walk(name)]

\* getProviderByObjectName: the object a name is an instance of, or NoObject.
ObjectOf(name) == IF Found[name].failed THEN NoObject ELSE Found[name].object

\* Whether a name is that of a whole list.
IsWholeList(name) ==
  /\ ObjectOf(name) # NoObject
  /\ Model[ObjectOf(name)].isList
  /\ ~Found[name].item

\* buildProviderTree: the objects right below one, in the order of the database.
Children(object) ==
  SetToSeq({o \in DOMAIN Model : Len(o) = Len(object) + 1 /\ IsPrefix(object, o)})

\* getPropertyInfo.  A property the object does not have keeps no name, only the
\* label it was asked by.
Info(object, property, writable) ==
  LET known == {i \in DOMAIN Model[object].properties :
                  Model[object].properties[i].name = property}
  IN  IF known = {}
      THEN [name |-> NoProperty, label |-> property, writable |-> writable]
      ELSE LET p == Model[object].properties[CHOOSE i \in known : \A j \in known : i <= j]
           IN  [name |-> p.name, label |-> property, writable |-> p.writable]
=============================================================================
