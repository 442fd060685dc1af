------------------------------- MODULE MCParts -------------------------------
(***************************************************************************)
(* A small instance of every component around the pipeline.                *)
(***************************************************************************)
EXTENDS Parts, Sequences, FiniteSets

\* Notes of no, one and two commands.
FewNotes == {<<>>, <<"unknown">>, <<"unknown", "help">>, <<"bare">>}

(***************************************************************************)
(* RuleVerdicts: a finding the engine is sure of, and one it is not, under *)
(* a policy that may allow the rule.                                       *)
(***************************************************************************)
TwoScores ==
  [score : {7200, 8500}, risk : {"medium"}, reviewable : {TRUE}, anchored : {TRUE},
   precise : {FALSE}]
PlainPolicies ==
  [suppressed : {FALSE}, allowed : BOOLEAN, promoted : {FALSE}, adjustment : {0},
   minimum : {6500}]

(***************************************************************************)
(* RuleCatalog: p hints at r1, of one dialect, which a more specific rule   *)
(* does not displace; q at r2, which r1 displaces if it has all the terms, *)
(* and r3 of a higher tier, another pack and a context.                    *)
(***************************************************************************)
ThreeRules ==
  [r1 |-> [pack |-> "core", context |-> "any", dialect |-> "postgresql", tier |-> 2,
           specificity |-> 50, similarity |-> 95, exact |-> 90, overlap |-> 100,
           triggers |-> {"p"}, category |-> "memory", risk |-> "medium"],
   r2 |-> [pack |-> "core", context |-> "any", dialect |-> "any", tier |-> 2,
           specificity |-> 90, similarity |-> 30, exact |-> 90, overlap |-> 50,
           triggers |-> {}, category |-> "general", risk |-> "medium"],
   r3 |-> [pack |-> "extra", context |-> "analytics", dialect |-> "any", tier |-> 3,
           specificity |-> 70, similarity |-> 60, exact |-> 90, overlap |-> 30,
           triggers |-> {"p", "q"}, category |-> "memory", risk |-> "high"]]
QImpliesP     == [p |-> {}, q |-> {"p"}]
MemorySignals == [memory |-> {"p"}]
OneHintEach   == [p |-> {"r1"}, q |-> {"r2"}]
SomeReviews   ==
  {[packs |-> k, policy |-> "profile", context |-> c[1], dialect |-> c[2], patterns |-> t] :
     k \in {{"core"}, {"core", "extra"}}, c \in {<<"any", "any">>, <<"schema", "mysql">>},
     t \in {{"p"}, {"q"}}}

(***************************************************************************)
(* Languages: a file of every kind the tables tell apart.                  *)
(***************************************************************************)
Plain == [path |-> {}, name |-> "plain", ext |-> "none", exact |-> TRUE,
          text |-> {}, diff |-> {}, hunk |-> {}]

\* Files told apart by their place and name ...
Placed ==
  {[Plain EXCEPT !.path = p, !.name = n, !.ext = e, !.exact = x] :
     p \in {{}, {"workflows"}, {"charts_values"}, {"k8s", "schema"}, {"schema", "config"}},
     n \in {"plain", "dockerfile"}, e \in {"yaml", "markdown", "bash", "none"}, x \in BOOLEAN}
  \cup {[Plain EXCEPT !.path = p, !.name = "gitlab_ci", !.ext = "yaml", !.exact = x] :
          p \in {{}, {"k8s"}, {"schema"}}, x \in BOOLEAN}
  \cup {[Plain EXCEPT !.name = "rc", !.exact = x] : x \in BOOLEAN}

\* ... and by their text, of which a hunk may miss a token.
Shown(ext, tokens, paths) ==
  {[Plain EXCEPT !.ext = ext, !.path = p, !.text = tokens, !.diff = d, !.hunk = d \ {t}] :
     p \in paths, d \in SUBSET tokens, t \in tokens}

KindsOfFiles ==
  Placed
  \cup {[Plain EXCEPT !.text = {"shebang"}]}
  \cup Shown("cuda", {"cuda_tma", "cuda_async_runtime", "cuda_multigpu"}, {{}})
  \cup Shown("sql", {"dbt", "mysql"}, {{}, {"analytics", "dbt"}, {"migrations"}})
  \cup Shown("typescript", {"next", "react"}, {{}, {"app", "pages"}, {"components"}})
  \cup Shown("java", {"spring"}, {{}, {"controller"}})
  \cup Shown("yaml", {"openapi"}, {{}, {"config"}, {"k8s"}})
  \cup Shown("python", {"fastapi", "django"}, {{}})
=============================================================================
