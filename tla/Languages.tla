------------------------------ MODULE Languages ------------------------------
(***************************************************************************)
(* Which language, profile, context and dialect a changed file is reviewed *)
(* under.  review-bot and review-engine each have a registry of their own, *)
(* with copies of the same tables; the bot asks its registry, from what it *)
(* could fetch of the file, and sends the answer along with each hunk; the *)
(* engine asks its own registry again and fills what the bot left open.    *)
(* A file is what the tables tell apart of its path and of its text.       *)
(***************************************************************************)
EXTENDS Integers, Sequences

CONSTANT Files    \* the changed files, see FileRecords

Languages ==
  {"c", "cpp", "cuda", "markdown", "python", "typescript", "javascript", "java", "go",
   "rust", "bash", "sql", "yaml", "dockerfile"}

\* What a text shows: tokens of the frameworks and dialects, "shebang" in the
\* first line of a file.  The CUDA ones are named like their profiles.
Tokens ==
  {"spring", "fastapi", "django", "tokio", "react", "next", "openapi", "dbt", "shebang",
   "cuda_multigpu", "cuda_tma", "cuda_wgmma", "cuda_tensor_core", "cuda_pipeline_async",
   "cuda_thread_block_cluster", "cuda_cooperative_groups", "cuda_async_runtime",
   "postgresql", "mysql", "sqlite", "oracle"}

\* What the directories show.
PathMarks ==
  {"workflows", "charts_values", "k8s", "schema", "config", "app", "pages", "components",
   "controller", "dbt", "analytics", "migrations"}

\* ext: the language of the extension.  exact: the names of files and special
\* directories are spelled as the engine's tables spell them.
FileRecords ==
  [path : SUBSET PathMarks,
   name : {"plain", "gitlab_ci", "dockerfile", "rc", "django", "app_router", "pages_router",
           "next_config"},
   ext : Languages \cup {"none"}, exact : BOOLEAN,
   text : SUBSET Tokens, diff : SUBSET Tokens, hunk : SUBSET Tokens]

\* Assumed of the constants where the module is instantiated.
FilesAssumption ==
  /\ Files \subseteq FileRecords
  /\ \A f \in Files :
       /\ f.hunk \subseteq f.diff /\ f.diff \subseteq f.text \ {"shebang"}
       /\ f.name = "gitlab_ci" => f.ext = "yaml"
       /\ f.name = "rc" => f.ext = "none"
       /\ f.name = "django" => f.ext = "python"
       /\ f.name \in {"app_router", "pages_router", "next_config"}
          => f.ext \in {"typescript", "javascript"}

VARIABLES
  file,     \* the file at hand
  fetched,  \* could its text be fetched?
  match,    \* what the bot's registry said
  answer    \* what the engine reviewed a hunk of it under

vars == <<file, fetched, match, answer>>

\* What the registries infer of a file beside its language.
Profiles ==
  {"default", "fastapi_service", "django_service", "tokio_async", "spring_backend",
   "nextjs_frontend", "frontend_strict", "dbt_warehouse", "analytics_warehouse",
   "migration_sql", "schema_config", "product_config", "github_actions", "gitlab_ci",
   "helm_values", "kubernetes_manifests",
   "cuda_multigpu", "cuda_tma", "cuda_wgmma", "cuda_tensor_core", "cuda_pipeline_async",
   "cuda_thread_block_cluster", "cuda_cooperative_groups", "cuda_async_runtime"}
Contexts ==
  {"generic", "analytics", "schema_config", "product_config", "github_actions", "gitlab_ci",
   "helm_values", "kubernetes", "app_router", "pages_router"}
Dialects == {"generic", "postgresql", "mysql", "sqlite", "oracle"}

\* "none" stands for None.
Matches ==
  [language : Languages \cup {"none", "unknown"}, profile : Profiles \cup {"none"},
   context : Contexts \cup {"none"}, dialect : Dialects \cup {"none"}]
NoMatch == [language |-> "none", profile |-> "none", context |-> "none", dialect |-> "none"]

TypeOK ==
  file \in Files /\ fetched \in BOOLEAN /\ match \in Matches /\ answer \in Matches

Init == file \in Files /\ fetched \in BOOLEAN /\ match = NoMatch /\ answer = NoMatch

-------------------------------------------------------------------------------
(***************************************************************************)
(* What both registries infer, in copies of the same functions.            *)
(***************************************************************************)
\* The first of the tests, pairs of a condition and a result, that holds.
FirstOf(tests, default) ==
  IF \E i \in DOMAIN tests : tests[i][1]
  THEN tests[CHOOSE i \in DOMAIN tests :
               tests[i][1] /\ \A j \in DOMAIN tests : tests[j][1] => i <= j][2]
  ELSE default

FirstToken(order, shows) ==
  FirstOf([i \in DOMAIN order |-> <<order[i] \in shows, order[i]>>], "default")

PythonProfile(f, shows) ==
  FirstOf(<< <<"fastapi" \in shows, "fastapi_service">>,
             <<"django" \in shows \/ f.name = "django", "django_service">> >>, "default")

\* From the most special API to the most general.
CudaProfile(shows) ==
  FirstToken(<<"cuda_multigpu", "cuda_tma", "cuda_wgmma", "cuda_tensor_core",
               "cuda_pipeline_async", "cuda_thread_block_cluster", "cuda_cooperative_groups",
               "cuda_async_runtime">>, shows)

NextContext(f, shows) ==
  LET isNext == f.name = "next_config" \/ "next" \in shows
  IN FirstOf(<< <<f.name = "app_router" \/ (isNext /\ "app" \in f.path), "app_router">>,
                <<f.name = "pages_router" \/ (isNext /\ "pages" \in f.path), "pages_router">> >>,
             "none")

LooksLikeReact(f, shows) == "react" \in shows \/ f.path \cap {"components", "pages"} # {}
LooksLikeSpring(f, shows) == "spring" \in shows \/ "controller" \in f.path

SqlProfile(f, shows) ==
  FirstOf(<< <<"dbt" \in f.path \/ "dbt" \in shows, <<"dbt_warehouse", "analytics">> >>,
             <<"analytics" \in f.path, <<"analytics_warehouse", "analytics">> >>,
             <<"migrations" \in f.path, <<"migration_sql", "generic">> >> >>,
          <<"default", "generic">>)

SqlDialect(shows) ==
  LET first == FirstToken(<<"postgresql", "mysql", "sqlite", "oracle">>, shows)
  IN IF first = "default" THEN "generic" ELSE first

YamlProfile(f, shows) ==
  FirstOf(<< <<"schema" \in f.path \/ "openapi" \in shows, <<"schema_config", "schema_config">> >>,
             <<"config" \in f.path, <<"product_config", "product_config">> >> >>,
          <<"default", "generic">>)

\* Files whose place or name makes them YAML of a kind of its own.
SpecialYaml(f, default) ==
  FirstOf(<< <<"workflows" \in f.path, <<"github_actions", "github_actions">> >>,
             <<f.name = "gitlab_ci", <<"gitlab_ci", "gitlab_ci">> >>,
             <<"charts_values" \in f.path, <<"helm_values", "helm_values">> >>,
             <<"k8s" \in f.path, <<"kubernetes_manifests", "kubernetes">> >> >>, default)

InSpecialPlace(f) == f.path \cap {"workflows", "charts_values", "k8s"} # {}

\* Profile, context and dialect of a file of that language.
Runtime(language, f, shows) ==
  CASE language = "yaml" -> SpecialYaml(f, YamlProfile(f, shows)) \o <<"none">>
    [] language = "sql"  -> SqlProfile(f, shows) \o <<SqlDialect(shows)>>
    [] language = "python" -> <<PythonProfile(f, shows), "none", "none">>
    [] language = "cuda"   -> <<CudaProfile(shows), "none", "none">>
    [] language = "rust"   ->
         <<IF "tokio" \in shows THEN "tokio_async" ELSE "default", "none", "none">>
    [] language = "java"   ->
         <<IF LooksLikeSpring(f, shows) THEN "spring_backend" ELSE "default", "none", "none">>
    [] language \in {"typescript", "javascript"} ->
         LET next == NextContext(f, shows)
         IN <<FirstOf(<< <<next # "none", "nextjs_frontend">>,
                         <<language = "typescript" /\ LooksLikeReact(f, shows), "frontend_strict">> >>,
                      "default"), next, "none">>
    [] OTHER -> <<"default", "none", "none">>

(***************************************************************************)
(* The registry of review-bot: one list of branches.  It lowers the path   *)
(* first, so that the spelling of names does not matter.                   *)
(***************************************************************************)
\* "ext" is both Path.suffix here and endswith in the other: a file whose whole
\* name is an extension, as ".sql", which the two read differently, is left out.
BotLanguage(f, shows) ==
  FirstOf(<< <<InSpecialPlace(f) \/ f.name = "gitlab_ci", "yaml">>,
             <<f.name = "dockerfile", "dockerfile">>,
             <<f.ext # "none", f.ext>>,
             <<f.name = "rc" \/ "shebang" \in shows, "bash">> >>, "unknown")

Reviewable(language) == language \notin {"markdown", "unknown", "none"}

AsMatch(language, runtime) ==
  [language |-> language, profile |-> runtime[1], context |-> runtime[2], dialect |-> runtime[3]]

BotMatch(f, shows) ==
  LET language == BotLanguage(f, shows) IN AsMatch(language, Runtime(language, f, shows))

(***************************************************************************)
(* The registry of review-engine: a table per language, looked up by       *)
(* place, name, extension and first line.  The globs of the places ask for *)
(* a YAML extension; names are compared as they are spelled, extensions    *)
(* and what the profiles are inferred from in lower case.                  *)
(***************************************************************************)
EngineLanguage(f, shows) ==
  FirstOf(<< <<f.exact /\ InSpecialPlace(f) /\ f.ext = "yaml", "yaml">>,
             <<f.exact /\ f.name = "dockerfile", "dockerfile">>,
             <<f.exact /\ f.name = "gitlab_ci", "yaml">>,
             <<f.exact /\ f.name = "rc", "bash">>,
             <<f.ext # "none", f.ext>>,
             <<"shebang" \in shows, "bash">> >>, "unknown")

\* Mutant: the schema tokens are looked for before the places.
EngineYaml_SchemaFirst(f, shows) ==
  LET inferred == YamlProfile(f, shows)
  IN IF inferred[1] = "schema_config" THEN inferred ELSE SpecialYaml(f, inferred)

\* The inference knows the places itself: a file the globs miss is found by
\* its extension and gets the profile of its place all the same.
EngineYaml(f, shows) == SpecialYaml(f, YamlProfile(f, shows))

EngineRuntime(language, f, shows) ==
  IF language = "yaml" THEN EngineYaml(f, shows) \o <<"none">> ELSE Runtime(language, f, shows)

\* What the caller asks for wins; None leaves it to the inference.
Given(asked, inferred) == IF asked # "none" THEN asked ELSE inferred

EngineMatch(f, shows, asked) ==
  LET language == Given(asked.language, EngineLanguage(f, shows))
      inferred == AsMatch(language, EngineRuntime(language, f, shows))
  IN [inferred EXCEPT !.profile = Given(asked.profile, @),
                      !.context = Given(asked.context, @),
                      !.dialect = Given(asked.dialect, @)]

(***************************************************************************)
(* A file of the detect phase.                                             *)
(***************************************************************************)
\* The text of the file or, when it could not be fetched, its diff.
BotSees    == IF fetched THEN file.text ELSE file.diff
EngineSees == IF fetched THEN file.text ELSE file.hunk

Resolve ==
  /\ match = NoMatch
  /\ match' = BotMatch(file, BotSees)
  /\ UNCHANGED <<file, fetched, answer>>

\* One hunk; a file that is not reviewable is passed over.
ReviewHunk ==
  /\ Reviewable(match.language) /\ answer = NoMatch
  /\ answer' = EngineMatch(file, EngineSees, match)
  /\ UNCHANGED <<file, fetched, match>>

Next == Resolve \/ ReviewHunk

Spec == Init /\ [][Next]_vars

-------------------------------------------------------------------------------
\* Names and places that the two registries read alike: spelled as in the
\* tables, and nothing but YAML (and no Dockerfile) in the special places.
Settled(f) ==
  /\ f.name \in {"dockerfile", "rc"} => f.exact
  /\ InSpecialPlace(f) => f.ext = "yaml" /\ f.name # "dockerfile"

\* A client that calls the engine directly gets the language, profile, context
\* and dialect the bot would have asked for: the copies of the tables agree,
\* the order of their tests included.  And a hunk is reviewed under what the
\* bot inferred from all of the file or diff, however little the hunk shows.
RegistriesAgree ==
  /\ Settled(file) => EngineMatch(file, BotSees, NoMatch) = BotMatch(file, BotSees)
  /\ answer # NoMatch => answer = match
================================================================================
