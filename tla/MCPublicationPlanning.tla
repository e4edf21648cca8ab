------------------------ MODULE MCPublicationPlanning ------------------------
(* A small instance of PublicationPlanning for TLC.                         *)
EXTENDS PublicationPlanning

Row(category, price) == [category |-> category, price |-> price]
Cheap == {Row(c, 1) : c \in Categories}

\* Everything cheap; a second, dearer meter that goes over the ceiling; one
\* meter missing beside a row of no category.
SomePriceLists ==
    { Cheap, Cheap \cup {Row("read_operations", 2)}, Cheap \cup {Row("data_stored", 2)},
      {r \in Cheap : r.category # "data_retrieval"} \cup {Row(None, 1)} }

SomeUsages ==
    { [kind |-> "entry", current |-> 249, limit |-> 250],
      [kind |-> "entry", current |-> 250, limit |-> 250],
      [kind |-> "missing", current |-> 0, limit |-> 0] }

Permission(allows, excludes) == [allows |-> allows, excludes |-> excludes]
Role(ps, ambiguous) == [permissions |-> ps, ambiguous |-> ambiguous]
On(scope, role) == [scope |-> scope, role |-> role]

\* A role with the action on the group beside one that excludes it; the same
\* in another group or with two definitions.
SomeDeclared ==
    { {On("group", Role({Permission(TRUE, FALSE)}, FALSE)),
       On("subscription", Role({Permission(TRUE, TRUE)}, FALSE))},
      {On("other_group", Role({Permission(TRUE, FALSE)}, FALSE)),
       On("account", Role({Permission(TRUE, FALSE)}, TRUE))} }

Vm(change) == [of |-> None, part |-> "other", type |-> "other", change |-> change,
               reviewed |-> TRUE, principal |-> None]

\* The template of another commit: another account, a fifth change, a role
\* beside the account, properties that nobody reviewed, another principal.
SomeOddPlans ==
    LET plan == Plan(Planned, "Create", "p1").changes
        elsewhere(c) == [c EXCEPT !.of = IF c.part = "role" THEN Foreign ELSE @]
    IN  { [ok |-> TRUE, changes |-> ch] :
            ch \in { Plan(Foreign, "Create", "p1").changes,
                     plan \cup {Vm("Modify")}, plan \cup {Vm("Create")}, plan \cup {Vm("Ignore")},
                     {elsewhere(c) : c \in plan},
                     {[c EXCEPT !.reviewed = FALSE] : c \in plan},
                     {[c EXCEPT !.principal = "p2"] : c \in plan} } }
=============================================================================
