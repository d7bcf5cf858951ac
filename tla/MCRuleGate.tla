----------------------------- MODULE MCRuleGate -----------------------------
(***************************************************************************)
(* Instances of RuleGate for TLC: offerings 1 and 2 of course 7, offering  *)
(* 3 of course 8.                                                          *)
(***************************************************************************)
EXTENDS RuleGate, TLC

Requests == Permutations(Saves)

Of(o, c, n) == [offering |-> o, course |-> c, capacity |-> n]

MCCatalogueAnswers ==
    { {},
      {Of(1, 7, 30), Of(2, 7, 30), Of(3, 8, 20)},
      {Of(1, 7, 40)} }

Slot(d, p) == [day |-> d, periods |-> p]
Group(o, c, s, k) ==
    [offering |-> o, course |-> c, slots |-> s, campus |-> k]

\* An offering that borrows the times of its course's other offering; courses
\* listed without offerings, one under a number that is also an offering's,
\* and an offering left without times.
MCScheduleAnswers ==
    { {Group(1, 7, {Slot(1, {1, 2})}, "north"),
       Group(3, 8, {Slot(1, {2, 3}), Slot(2, {1})}, "south")},
      {Group(NoOffering, 7, {Slot(1, {2})}, NoCampus),
       Group(NoOffering, 2, {Slot(2, {1})}, NoCampus)} }

RuleOf(m, type, min, subject, courses) ==
    [major |-> m, version |-> "v1", type |-> type, category |-> "major",
     min |-> min, subject |-> subject, courses |-> courses]

MCCurriculumRules ==
    { RuleOf("cs", "min_total", 3, 0, {}),
      RuleOf("cs", "exclusive", 0, 0, {7, 8}),
      RuleOf("ee", "min_category", 2, 0, {}),
      RuleOf("ee", "prerequisite", 0, 8, {7}) }

Item(n, category) == [credit |-> n, category |-> category]
MCItemLists == {{Item(2, "major")}}

=============================================================================
