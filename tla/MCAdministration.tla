--------------------------- MODULE MCAdministration ---------------------------
(* TLC instance of Administration: the states of its parts add up. *)
EXTENDS Administration, TLC

CONSTANT firstNorm

Form(role, status, password) == [role |-> role, status |-> status, password |-> password]
SingleEdits == {Form("admin", Keep, Keep), Form("employee", Keep, Keep), Form(Keep, "active", Keep),
                Form(Keep, "inactive", Keep), Form(Keep, Keep, "new")}

SingleFile == {Codes}

\* One norm that moves between catalogues, without imports, or two norms of one catalogue.
OneNorm ==
  /\ \A i \in NormIds \ {firstNorm} : norm'[i] = NoNorm
  /\ \A c \in Curators : curator'[c].op \in {"none", "book", "norm"}
OneCatalogue ==
  Cardinality({s \in Scopes : book'[s] # NoBook \/ \E c \in Curators : curator'[c].scope = s}) <= 1

BoundedSpec ==
  /\ AdministrationInit
  /\ [][/\ AdministrationNext
        /\ part = "norm" => OneNorm
        /\ part = "catalogue" => OneCatalogue]_administrationVars

\* Slots, editors, scopes and curators are named after links and requests: the parts do
\* not meet, and one set of permutations serves them all.
Symmetry == Permutations(Links) \cup Permutations(Requests)
=============================================================================
