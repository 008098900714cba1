--------------------------------- MODULE MCOrm --------------------------------
(* Versions of a struct with every way a field can be sent, left to the       *)
(* database or refused by it.                                                 *)
EXTENDS Orm

Of(name, column, type, flags, custom) ==
  [name |-> name, column |-> column, type |-> type, flags |-> flags, custom |-> custom]

Named(custom) == Of("name", "name", "number", {}, custom)
Rate == Of("rate", "rate", "decimal", {}, "")

\* As examples/api_admin maps Course, and an older version without a member.
Key == Of("id", "id", "primarykey", {"ignore_insert"}, "")
Course == <<Key, Named("UNIQUE"), Rate>>
OldCourse == <<Key, Named("UNIQUE")>>

\* As examples/orm maps the key of User, and with a time of day as it has.
Serial == Of("id", "id", "serial", {"primarykey", "ignore_insert"}, "")
User == <<Serial, Named("NOT NULL")>>
Timed == <<Key, Named(""), Of("at", "at", "time", {}, "")>>

\* A key that is left out and one that is sent; one that is listed without a value.
TwoKeys == <<Of("id", "id", "serial", {"primarykey"}, ""),
             Of("nr", "nr", "primarykey", {}, ""), Named("")>>
ListedKey == <<Of("id", "id", "serial", {"primarykey", "ignore_on_serializer"}, ""),
               Named("NOT NULL")>>

\* A column of another name, and a default that a flag takes away.
Renamed == <<Key, Of("name", "title", "number", {}, "NOT NULL")>>
Defaulted == <<Key, Named(""), Of("rate", "rate", "number", {"ignore_insert"}, "DEFAULT")>>

AllMappings == {Course, OldCourse, User, Timed, TwoKeys, ListedKey, Renamed, Defaulted}
SomeValues == {0, 11}

AllConditions == {<<>>, <<"id", 1>>, <<"rate", 10>>}

Arg(name, value) == [name |-> name, value |-> value]

(* Among them a key that the sequence has yet to reach, fields that are named *)
(* twice or are of other versions, and none at all.                           *)
AllArguments ==
  {<<>>, <<Arg("id", 2)>>, <<Arg("rate", 11), Arg("name", 0)>>,
   <<Arg("name", 11), Arg("name", 0)>>, <<Arg("at", 0), Arg("name", 0)>>}
=============================================================================
