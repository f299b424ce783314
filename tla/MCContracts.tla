---------------------------- MODULE MCContracts ----------------------------
(***************************************************************************)
(* The repository's own commands.json and e2e.json, every edit of one of   *)
(* their entries, and pairs of edits of the entries that tell when a stage *)
(* waits for which tests, and of the environments and journeys.            *)
(***************************************************************************)
EXTENDS JourneyContract

AllRules == Always @@ RemotePreflightEnabled @@ LocalRuntimeApplicable @@ Declared
            @@ Principles @@ Policy @@ UIEvidence

Command(status) == "status" :> status @@ "run" :> "text"
CommandRepository ==
  LET status == [name \in CommandNames |->
        IF name \in RequiredNonNA THEN "required" ELSE IF name = "stop" THEN "n/a"
        ELSE IF name \in {"dev", "package"} THEN "optional" ELSE "recommended"]
  IN [path \in {<<Commands, "commands", name>> : name \in CommandNames} |-> "object"]
     @@ [path \in {<<Commands, "commands", name, key>> :
                     name \in CommandNames, key \in {"status", "run"}} |->
           IF path[4] = "run" THEN "text" ELSE status[path[3]]]

(* Where several values would do, the repository's own.                    *)
Usual(values) ==
  LET order == <<"object", "recommended", "text", "assertions", "whole", "true", "false", "one">>
  IN IF \E k \in DOMAIN order : order[k] \in values
     THEN order[CHOOSE k \in DOMAIN order : order[k] \in values
                  /\ \A j \in 1 .. k - 1 : order[j] \notin values]
     ELSE CHOOSE value \in values : TRUE

MCRepository ==
  LET ruled == [path \in DOMAIN AllRules |-> Usual(AllRules[path])]
  IN [path \in {<<Commands, "schema_version">>, <<E2E, "schema_version">>,
                <<Commands, "agent_reporting", "schema_version">>} |-> "one"]
     @@ Rule(LocalRuntime, {"applicable", "readiness_required", "graceful_shutdown_required",
                            "verify_no_project_listener_after_stop"}, "false")
     @@ Rule(LocalRuntime, {"port_strategy"}, "text")
     @@ CommandRepository @@ ruled

Generic == {"absent", "malformed", "object", "{}", "true", "false", "zero", "one", "empty",
            "text", "placeholder", "whole", "reordered", "most", "some"}
Named(path) ==
  IF path \in DOMAIN AllRules THEN AllRules[path]
  ELSE IF path[Len(path)] = "status" THEN Statuses ELSE {}
EditsOf(paths) == UNION {{path} \X (Generic \cup Named(path)) : path \in paths}

MCEdits == EditsOf(DOMAIN MCRepository)
MCLaterEdits ==
  EditsOf({<<Commands, "commands", "e2e", "status">>, <<E2E, "applicability", "status">>})
    \cup {edit \in EditsOf(DOMAIN StagePolicy) : edit[2] \in {"one", "zero", "most"}}

Target(id) ==
  [id |-> id, platform |-> "text", description |-> "text", material_dimensions |-> <<"text">>]
Environment(id, class, automation) ==
  [id |-> id, fidelity_class |-> class, automation |-> automation, platform |-> "text",
   artifact_surface |-> "text", target_environment_refs |-> <<"cpu">>, known_gaps |-> <<"text">>]
Journey(id, refs, reason) ==
  [id |-> id, claim |-> "text", ui_surface |-> "false", minimum_ui_evidence_mode |-> "assertions",
   target_environment_refs |-> <<"cpu">>, automated_environment_refs |-> refs,
   minimum_automated_fidelity |-> "host_or_fake", residual_gaps |-> <<"text">>,
   real_environment_confirmation |-> "required", automation_gap_reason |-> reason]

Name(target, environment, journey) ==
  "target_environments" :> target @@ "execution_environments" :> environment
    @@ "critical_journeys" :> journey

MCLists ==
  Name(<<Target("cpu")>>,
       <<Environment("hosted", "host_or_fake", "automated"),
         Environment("local", "representative_physical", "real_environment")>>,
       <<Journey("choice", <<"hosted">>, "absent"), Journey("gate", <<>>, "text")>>)
MCItems ==
  Name({Target("cpu"), Malformed},
       {Environment("virtual", "representative_virtual", "automated"),
        Environment("local", "host_or_fake", "automated")},
       {Journey("choice", <<>>, "text"), Journey("both", <<"hosted", "local">>, "absent")})

Strings == {"absent", "empty", "text", "placeholder"}
Refs == {<<>>, <<"hosted">>, <<"local">>, <<"hosted", "local">>, <<"placeholder">>, <<"text">>,
         Malformed}
Gaps == {<<>>, <<"empty">>, <<"placeholder">>, Malformed}
Of(name, indices, fields, values) == {name} \X indices \X fields \X values
MCItemEdits ==
  Of("target_environments", {1}, {"id", "platform", "description"}, Strings)
  \cup Of("target_environments", {1}, {"material_dimensions"}, Gaps)
  \cup Of("execution_environments", {1, 2}, {"id", "platform", "artifact_surface"}, Strings)
  \cup Of("execution_environments", {1, 2}, {"fidelity_class"}, ToSet(FidelityOrder) \cup Strings)
  \cup Of("execution_environments", {1, 2}, {"automation"},
          {"automated", "real_environment", "text"})
  \cup Of("execution_environments", {1, 2}, {"target_environment_refs", "known_gaps"},
          Gaps \cup {<<"cpu">>})
  \cup Of("critical_journeys", {1, 2}, {"id", "claim", "automation_gap_reason"}, Strings)
  \cup Of("critical_journeys", {1, 2}, {"ui_surface"}, {"true", "false", "text"})
  \cup Of("critical_journeys", {1, 2}, {"minimum_ui_evidence_mode"},
          {"absent", "screenshots", "full_media", "text"})
  \cup Of("critical_journeys", {1, 2}, {"target_environment_refs", "residual_gaps"},
          Gaps \cup {<<"cpu">>})
  \cup Of("critical_journeys", {1, 2}, {"automated_environment_refs"}, Refs)
  \cup Of("critical_journeys", {1, 2}, {"minimum_automated_fidelity"},
          ToSet(FidelityOrder) \cup {"absent"})
  \cup Of("critical_journeys", {1, 2}, {"real_environment_confirmation"},
          {"conditional", "not_required", "absent"})

(* One edit is followed by another only where the two may work together.   *)
Related ==
  edits = 1 => \/ entries = Repository
               \/ \E edit \in MCLaterEdits : entries[edit[1]] # Repository[edit[1]]
============================================================================
