------------------------- MODULE MCNestedValidation -------------------------
(***************************************************************************)
(* A class whose objects recur directly (parent) and through one another   *)
(* (owner and files), in arrays too; integers of ten bits and a sign; the  *)
(* rules of up to three options, in every order.                           *)
(***************************************************************************)
EXTENDS NestedValidation

MCCode == {"ClassUIDMissing", "ClassUIDWrongType", "ClassUIDUnknown", "ClassDeprecated",
           "AttributeUnknown", "AttributeRequiresProfile", "AttributeRequiredMissing",
           "AttributeRecommendedMissing", "AttributeWrongType", "AttributeDeprecated",
           "ObjectDeprecated", "SchemaBugObjectMissing", "ConstraintFailed",
           "TypeUIDIncorrect", "TypeUIDExpectedValueOverflow"}

MCMandatory == {"ClassUIDMissing", "ClassUIDWrongType", "ClassUIDUnknown"}

MCDefaultLevel ==
    [c \in MCCode |-> IF c \in {"ClassDeprecated", "AttributeRecommendedMissing",
                                "AttributeDeprecated", "ObjectDeprecated"}
                      THEN "warning" ELSE "error"]

-----------------------------------------------------------------------------
A(name, holds, type, array, requirement, profile, deprecated) ==
    [name |-> name, holds |-> holds, type |-> type, array |-> array,
     requirement |-> requirement, profile |-> profile, deprecated |-> deprecated]

Integer(name, requirement) == A(name, "integer", "integer_t", FALSE, requirement, "any", FALSE)

NoConstraint == [kind |-> "none", of |-> {}]

MCIndex == <<"[0]", "[1]", "[2]">>

MCSchema ==
    [activity |-> [deprecated |-> TRUE,
                   constraint |-> [kind |-> "just_one", of |-> {<<"file">>, <<"files">>}],
                   attributes |-> <<Integer("activity_id", "required"), Integer("class_uid", "required"),
                                    A("file", "object", "file", FALSE, "recommended", "any", FALSE),
                                    A("files", "object", "file", TRUE, "optional", "any", FALSE),
                                    A("lost", "object", "unheard", FALSE, "optional", "any", FALSE),
                                    A("raw", "object", "object", FALSE, "optional", "any", TRUE),
                                    Integer("type_uid", "required")>>],
     file     |-> [deprecated |-> FALSE,
                   constraint |-> [kind |-> "at_least_one", of |-> {<<"name">>, <<"parent", "name">>}],
                   attributes |-> <<Integer("name", "required"),
                                    A("owner", "object", "user", FALSE, "optional", "host", FALSE),
                                    A("parent", "object", "file", FALSE, "optional", "any", FALSE)>>],
     user     |-> [deprecated |-> TRUE, constraint |-> NoConstraint,
                   attributes |-> <<Integer("file", "optional"),
                                    A("files", "object", "file", TRUE, "recommended", "any", FALSE)>>],
     object   |-> [deprecated |-> FALSE, constraint |-> NoConstraint, attributes |-> <<>>]]

-----------------------------------------------------------------------------
Num(n) == [k |-> "int", n |-> n]
Text == [k |-> "text"]
Map(at) == [k |-> "map", at |-> at]
Array(of) == [k |-> "array", of |-> of]

Ids(class, activity, type) ==
    [class_uid |-> Num(class), activity_id |-> Num(activity), type_uid |-> Num(type)]

Named == Map([name |-> Num(1)])
Child(v) == Map([parent |-> v])
Owned(v) == Map([name |-> Num(1), owner |-> Map([files |-> v])])

Files == {Named, Text, Child(Named), Child(Child(Named)), Child(Child(Child(Named))),
          Child(Map([name |-> Num(1), extra |-> Num(2)])), Child(Child(Map([odd |-> Text]))),
          Owned(Array(<<Named>>)), Owned(Array(<<Child(Child(Named)), Text>>)),
          Owned(Array(<<Owned(Array(<<Named>>))>>)), Owned(Named),
          Child(Owned(Array(<<Child(Named)>>))),
          Map([name |-> Num(1), owner |-> Map([file |-> Named])])}

Nested ==
    {[file |-> f] : f \in Files}
    \cup {[files |-> Array(<<f, g>>)] : f \in {Named, Child(Child(Child(Named))), Owned(Array(<<Named>>))},
                                        g \in {Child(Child(Text)), Child(Child(Named)), Owned(Array(<<Named>>)), [k |-> "null"]}}
    \cup {[files |-> Named], [file |-> Named, files |-> Array(<<>>)],
          [lost |-> Named], [lost |-> Text, raw |-> Map([odd |-> Num(1)])], [unheard |-> Num(1), raw |-> Text]}

Items ==
    {Ids(3, 1, 301) @@ n : n \in Nested}
    \cup {Ids(3, 1, 300), Ids(3, 750, 26), Ids(3, 723, 1023), Ids(3, 724, 1023), Ids(3, -1023, -723),
          [activity_id |-> Num(1), class_uid |-> Num(3)], [activity_id |-> Text, class_uid |-> Num(3), type_uid |-> Num(1)],
          Ids(10, 23, 1023), Ids(10, 24, 1023), Ids(11, 0, 1), Ids(11, -100, 1000), Ids(4, 1, 401), [class_uid |-> Text], [file |-> Named]}

MCEvents ==
    {[item |-> Map(item), profiles |-> {"host"}] : item \in Items}
    \cup {[item |-> Map(Ids(3, 1, 301) @@ [file |-> f]), profiles |-> {}] :
            f \in {Owned(Array(<<Named>>)), Owned(Named), Child(Owned(Text))}}

-----------------------------------------------------------------------------
R(action, codes) ==
    [action |-> action, level |-> LevelOf[action], codes |-> codes]

MCRules ==
    {R(action, codes) : action \in ActionName,
       codes \in {{}, {"ClassUIDUnknown"}, {"AttributeUnknown", "ObjectDeprecated"}}}
    \cup {R("suppress", {"AttributeRequiredMissing"}), R("error", {Unknown}), R("error", {"ObjectDeprecated", "ClassUIDMissing"})}

MCRuleLists == {<<>>} \cup {<<r>> : r \in MCRules} \cup {<<r, s>> : r, s \in MCRules}
               \cup {<<r, R("suppress", {}), s>> : r, s \in {R("error", {"ClassUIDUnknown"}), R("suppress", {"AttributeRequiredMissing"})}}
=============================================================================
