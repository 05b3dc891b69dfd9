------------------------------ MODULE MCCompact ------------------------------
(* Compact with a program whose types are of every kind the code tells      *)
(* apart, nested into each other.                                           *)
EXTENDS CompactValues

CONSTANTS a, b, o1, o2, o3, o4, c1

MCArenas == {a, b}

Field(offset, type) == [offset |-> offset, type |-> type]

MCTypeInfo == [
  Int        |-> [kind |-> "scalar", size |-> 1],
  String     |-> [kind |-> "octets", size |-> 1],
  Names      |-> [kind |-> "list", size |-> 1, item |-> "String"],
  Row        |-> [kind |-> "record", size |-> 2, fields |-> <<Field(0, "Int"), Field(1, "String")>>],
  Rows       |-> [kind |-> "list", size |-> 1, item |-> "Row"],
  Team       |-> [kind |-> "alias", size |-> 1, item |-> "Names"],
  World      |-> [kind |-> "unmanaged", size |-> 1, ecs |-> TRUE],
  Texture    |-> [kind |-> "unmanaged", size |-> 1, ecs |-> FALSE],
  MaybeWorld |-> [kind |-> "custom", size |-> 2, variants |-> << << >>, <<Field(1, "World")>> >>],
  Update     |-> [kind |-> "function", size |-> 1, parameters |-> <<"Int", "Int">>],
  Any        |-> [kind |-> "unsupported", size |-> 1],
  Teams      |-> [kind |-> "record", size |-> 2, fields |-> <<Field(0, "Team"), Field(1, "Names")>>],
  Table      |-> [kind |-> "record", size |-> 1, fields |-> <<Field(0, "Rows")>>],
  Worlds     |-> [kind |-> "record", size |-> 3, fields |-> <<Field(0, "World"), Field(1, "MaybeWorld")>>],
  Named      |-> [kind |-> "record", size |-> 2, fields |-> <<Field(0, "World"), Field(1, "Names")>>],
  Closure    |-> [kind |-> "record", size |-> 2, fields |-> <<Field(0, "World"), Field(1, "Update")>>],
  Loose      |-> [kind |-> "record", size |-> 2, fields |-> <<Field(0, "String"), Field(1, "Any")>>],
  Textures   |-> [kind |-> "record", size |-> 1, fields |-> <<Field(0, "Texture")>>]]

MCTypes == DOMAIN MCTypeInfo
MCStateTypes == {"Teams", "Table", "Worlds", "Named", "Closure", "Loose", "Textures"}
=============================================================================
