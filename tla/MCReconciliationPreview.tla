---------------------- MODULE MCReconciliationPreview ----------------------
(* ReconciliationPreview for TLC: a contact that raises no objection, and    *)
(* contacts that differ from it in one or two respects.                      *)
EXTENDS ReconciliationPreview, TLC

Plain == [where |-> "here", email |-> "e", phone |-> "", tags |-> {},
          fields |-> [f \in {} |-> ""], protected |-> "", unclassified |-> FALSE]
Line(u) == [f \in {"line"} |-> u]
Note(v) == [f \in {"note", "temporary"} |-> v]

ContactsSet ==
  {Plain,
   [Plain EXCEPT !.where = "elsewhere"],
   [Plain EXCEPT !.email = "x", !.phone = "p"],
   [Plain EXCEPT !.tags = {"u1"}, !.fields = Line("u1")],
   [Plain EXCEPT !.tags = {"u2"}], [Plain EXCEPT !.tags = {"u1", "u2"}],
   [Plain EXCEPT !.tags = {"u1", "?"}],
   [Plain EXCEPT !.fields = Line("u2")],
   [Plain EXCEPT !.fields = Note("a"), !.protected = "a"],
   [Plain EXCEPT !.fields = Note("b")], [Plain EXCEPT !.protected = "b"],
   [Plain EXCEPT !.fields = [f \in {"undefined"} |-> "a"]],
   [Plain EXCEPT !.unclassified = TRUE]}

Defined == [line |-> {"line"}, ignored |-> {"temporary"},
            defined |-> {"line", "note", "temporary"}, ambiguous |-> FALSE]
DefinitionsSet == {Defined, [Defined EXCEPT !.ambiguous = TRUE]}

AllScopes == {"contacts.readonly", "locations/customFields.readonly", "payments/orders.readonly"}
ScopeSets == {AllScopes, AllScopes \ {"payments/orders.readonly"}}

Symmetry == Permutations(Others)
=============================================================================
