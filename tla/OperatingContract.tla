-------------------------- MODULE OperatingContract --------------------------
(***************************************************************************)
(* scripts/verify_operations.py and verify_stage_environment_policy.py:    *)
(* independent checks of what a repository promises about its own          *)
(* engineering in .engineering/commands.json and e2e.json.  Nothing but    *)
(* the values that the scripts accept ties them together.                  *)
(*                                                                         *)
(* A place in a file is the path of keys that leads to it, the file first. *)
(* Values are named: "one" and "true" are equal to Python's ==, not to its *)
(* is; "whole" is the list the scripts ask for, "reordered" has the same   *)
(* elements, "most" and "some" lack one, "some" the one the stage policy   *)
(* looks for; "text" is a string of no meaning, "empty" the empty one,     *)
(* "placeholder" one to be replaced; "object" has entries of its own, "{}" *)
(* has none; "malformed" is [[]].                                          *)
(***************************************************************************)
EXTENDS Integers, Sequences, TLC

VARIABLES
  templateMode,  \* --template-mode: placeholders are in order
  entries        \* of each path that the files were ever given: its value

Commands == "commands.json"
E2E == "e2e.json"

(* dict.get() on a section that is none gives nothing.                     *)
Get(path) ==
  IF path \in DOMAIN entries
     /\ \A n \in 1 .. Len(path) - 1 : entries[SubSeq(path, 1, n)] = "object"
  THEN entries[path] ELSE "absent"

(* A rule gives the values that are accepted at each of some paths.        *)
Rule(section, keys, values) == [path \in {Append(section, key) : key \in keys} |-> values]
Passes(rules) == \A path \in DOMAIN rules : Get(path) \in rules[path]

Resolved(path) == Get(path) = "placeholder" => templateMode

Object == {"object", "{}"}
True == {"true"}             \* is True
False == {"false"}
EqualsOne == {"one", "true"}    \* == 1, == True
EqualsFalse == {"false", "zero"}
Includes == {"whole", "reordered"}
PositiveInt == {"one", "three"}
Text == {"text", "placeholder"}
Truthy == {"text", "placeholder", "true", "one", "three", "object", "malformed",
           "whole", "reordered", "most", "some"}

Statuses == {"required", "recommended", "optional", "n/a"}
RequiredNonNA == {"setup", "check", "test", "build", "clean"}
CommandNames == RequiredNonNA \cup {"doctor", "dev", "e2e", "smoke", "package", "stop"}

-----------------------------------------------------------------------------
(* verify_operations.py *)

Header ==
  Rule(<<>>, {Commands}, Object)
  @@ Rule(<<Commands>>, {"schema_version"}, EqualsOne)
  @@ Rule(<<Commands>>, {"contract_version"}, {"0.7.0"})

Reporting ==
  LET reporting == <<Commands, "agent_reporting">> IN
  Rule(<<Commands>>, {"agent_reporting"}, Object)
  @@ Rule(reporting, {"schema_version"}, EqualsOne)
  @@ Rule(reporting, {"format"}, {"summary_with_evidence_references"})
  @@ Rule(reporting, {"required_summary_fields", "gate_fields", "source_identity_fields"}, Includes)
  @@ Rule(reporting, {"bounded_output", "full_report_on_demand", "preserve_failed_pending_gates",
                      "summary_is_not_evidence_verification"}, True)

(* A command is declared with its status, and what to run unless n/a.      *)
CommandPasses(name) ==
  LET command == <<Commands, "commands", name>>
      status == Get(Append(command, "status"))
      run == Get(Append(command, "run"))
  IN /\ Get(command) \in Object
     /\ status \in Statuses
     /\ name \in RequiredNonNA => status # "n/a"
     /\ status # "n/a" => run \in Text
     /\ Resolved(Append(command, "run"))

Velocity ==
  LET velocity == <<Commands, "development_velocity">>
      iteration == Append(velocity, "iteration")
      integration == Append(velocity, "integration")
      release == Append(velocity, "release")
      checked == {"exact_head_required", "full_diff_review_required",
                  "durable_documentation_current_required"}
  IN Rule(<<Commands>>, {"development_velocity"}, Object)
     @@ Rule(velocity, {"default_stage"}, {"iteration"})
     @@ Rule(velocity, {"stages"}, {"whole"})
     @@ Rule(velocity, {"parallel_development_prefers_early_convergence",
                        "stacked_publication_exception_only"}, True)
     @@ Rule(velocity, {"iteration", "integration", "release"}, Object)
     @@ Rule(iteration, {"target_feedback_minutes"}, PositiveInt)
     @@ Rule(iteration, checked \cup {"remote_preflight_required"}, False)
     @@ Rule(iteration, {"e2e_default"}, {"risk_only"})
     @@ Rule(integration, {"target_feedback_minutes"}, PositiveInt)
     @@ Rule(integration, checked \cup {"remote_preflight_when_required_gates_unavailable_local",
               "automated_e2e_required_when_affected", "real_environment_deferred_to_release"}, True)
     @@ Rule(integration, {"e2e_default"}, {"affected_critical_journeys"})
     @@ Rule(integration, {"real_environment_blocking"}, False)
     @@ Rule(release, checked \cup {"full_validation_required",
                                    "required_real_environment_blocking"}, True)
     @@ Rule(release, {"e2e_default"}, {"release_critical_journeys"})

Publication ==
  LET gate == <<Commands, "publication_gate">> IN
  Rule(<<Commands>>, {"publication_gate"}, Object)
  @@ Rule(gate, {"applies_from_stage"}, {"integration"})
  @@ Rule(gate, {"agent_preflight_required", "target_base_freshness_required",
       "full_diff_review_required", "material_ambiguity_must_be_resolved",
       "failure_root_cause_required", "execution_capability_classification_required",
       "blast_radius_profile_selection_required", "automatable_gates_must_not_be_delegated_to_user",
       "remote_automated_fallback_required_when_agent_local_unavailable",
       "deterministic_ci_command_parity_required", "non_automated_evidence_must_be_declared",
       "exact_head_evidence_required"}, True)

Execution ==
  LET execution == <<Commands, "validation_execution">> IN
  Rule(<<Commands>>, {"validation_execution"}, Object)
  @@ Rule(execution, {"classes"}, Includes)
  @@ Rule(execution, {"no_human_runner_for_automatable_gates",
                      "remote_automation_required_when_agent_local_unavailable"}, True)

Profiles ==
  LET profiles == <<Commands, "validation_profiles">> IN
  Rule(<<Commands>>, {"validation_profiles"}, Object)
  @@ Rule(profiles, {"default"}, {"auto"})
  @@ Rule(profiles, {"profiles"}, Includes)
  @@ Rule(profiles, {"selector"}, Text)
  @@ Rule(profiles, {"selector_output"}, {"risk_dimensions_and_required_gates"})
  @@ Rule(profiles, {"profiles_are_shorthand", "gate_selection_preferred_over_suite_selection",
       "unknown_executable_paths_fail_safe", "selector_changes_force_full",
       "promotion_validation_full", "automatic_escalation_allowed",
       "silent_downgrade_below_auto_forbidden", "report_selected_profile_and_reason"}, True)

RemotePreflight == <<Commands, "remote_preflight">>
RemotePreflightStatus ==
  Rule(<<Commands>>, {"remote_preflight"}, Object)
  @@ Rule(RemotePreflight, {"status"}, Statuses \ {"optional"})
RemotePreflightEnabled ==
  Rule(RemotePreflight, {"trigger"}, Text)
  @@ Rule(RemotePreflight, {"default_profile"}, {"auto"})
  @@ Rule(RemotePreflight, {"stronger_profile_override_allowed",
       "weaker_profile_override_requires_explicit_justification", "exact_head_required",
       "reuse_successful_equivalent_evidence", "rerun_only_when_missing_stale_or_insufficient",
       "trusted_requesters_only", "same_repository_prs_only_by_default", "report_result_to_pr"}, True)
  @@ Rule(RemotePreflight, {"evidence_identity_fields"}, Includes)
  @@ Rule(RemotePreflight, {"execution_job_write_credentials"}, False)

EndToEnd ==
  LET e2e == <<Commands, "end_to_end">> IN
  Rule(<<Commands>>, {"end_to_end"}, Object)
  @@ Rule(e2e, {"recommended_when_full_workflow_boundary_exists", "critical_journeys_prioritized",
       "lower_level_tests_remain_primary", "use_stack_native_tooling",
       "run_against_built_artifact_when_material", "failure_evidence_bounded",
       "zero_residue_required", "incidental_ui_does_not_force_full_media",
       "full_media_for_motion_timing_sequence_or_release_claims"}, True)
  @@ Rule(e2e, {"ui_evidence_modes"}, {"whole"})
  @@ Rule(e2e, {"ui_evidence_selection"}, {"risk_based"})

Economics ==
  LET economics == <<Commands, "validation_economics">> IN
  Rule(<<Commands>>, {"validation_economics"}, Object)
  @@ Rule(economics, {"status"}, Statuses)
  @@ Rule(economics, {"optimize_for"}, {"sufficient-confidence-per-feedback-time"})
  @@ Rule(economics, {"dimensions"}, Includes)
  @@ Rule(economics, {"periodic_review"}, True)

BuildIdentity ==
  LET identity == <<Commands, "build_identity">> IN
  Rule(<<Commands>>, {"build_identity"}, Object)
  @@ Rule(identity, {"unique_per_build", "source_revision_required", "dirty_state_required"}, True)
  @@ Rule(identity, {"artifact_name_fields", "lineage_fields"}, Includes)

ArtifactLifecycle ==
  LET artifacts == <<Commands, "artifact_lifecycle">> IN
  Rule(<<Commands>>, {"artifact_lifecycle"}, Object)
  @@ Rule(artifacts, {"immutable_successful_artifacts", "promote_only_after_success",
                      "manifest_required", "release_artifacts_immutable"}, True)
  @@ Rule(artifacts, {"checksum_algorithm"}, {"sha256"})
  @@ Rule(artifacts, {"local_keep_successful_per_lineage", "ci_retention_days"}, PositiveInt)
  @@ Rule(artifacts, {"ci_store", "release_store"}, Truthy)

BuildDelta ==
  LET delta == <<Commands, "build_delta">> IN
  Rule(<<Commands>>, {"build_delta"}, Object)
  @@ Rule(delta, {"required", "bundle_with_artifact"}, True)
  @@ Rule(delta, {"compare_to"}, {"previous-successful-comparable-build"})
  @@ Rule(delta, {"output"}, Truthy)
  @@ Rule(delta, {"dimensions"}, Includes)

LocalRuntime == <<Commands, "local_runtime">>
LocalRuntimeApplicable ==
  Rule(LocalRuntime, {"bind_default"}, {"loopback"})
  @@ Rule(LocalRuntime, {"port_strategy"}, {"configurable-with-collision-check"})
  @@ Rule(LocalRuntime, {"foreground_default", "readiness_required", "graceful_shutdown_required",
                         "verify_no_project_listener_after_stop"}, True)

EphemeralResources ==
  LET ephemeral == <<Commands, "ephemeral_resources">> IN
  Rule(<<Commands>>, {"ephemeral_resources"}, Object)
  @@ Rule(ephemeral, {"run_identity", "isolated_workspace", "stale_resource_recovery",
       "ownership_required_before_cleanup", "post_cleanup_verification"}, True)
  @@ Rule(ephemeral, {"cleanup_paths"}, Includes)

Always ==
  Header @@ Reporting @@ Rule(<<Commands>>, {"commands"}, Object) @@ Velocity @@ Publication
  @@ Execution @@ Profiles @@ RemotePreflightStatus @@ EndToEnd @@ Economics @@ BuildIdentity
  @@ ArtifactLifecycle @@ BuildDelta @@ Rule(<<Commands>>, {"local_runtime"}, Object)
  @@ EphemeralResources

OperationsPass ==
  /\ Passes(Always)
  /\ Resolved(<<Commands, "validation_profiles", "selector">>)
  /\ \A name \in CommandNames : CommandPasses(name)
  /\ Get(Append(RemotePreflight, "status")) # "n/a" =>
       Passes(RemotePreflightEnabled) /\ Resolved(Append(RemotePreflight, "trigger"))
  /\ Get(Append(LocalRuntime, "applicable")) = "true" => Passes(LocalRuntimeApplicable)

-----------------------------------------------------------------------------
(* verify_stage_environment_policy.py *)
StagePolicy ==
  LET velocity == <<Commands, "development_velocity">>
      policy == <<E2E, "stage_policy">>
      evidence == <<E2E, "ui_evidence">>
  IN Rule(<<>>, {Commands, E2E}, Object)
     @@ Rule(<<Commands>>, {"development_velocity"}, Object)
     @@ Rule(velocity, {"integration", "release"}, Object)
     @@ Rule(Append(velocity, "integration"), {"automated_e2e_required_when_affected",
                                               "real_environment_deferred_to_release"}, EqualsOne)
     @@ Rule(Append(velocity, "integration"), {"real_environment_blocking"}, EqualsFalse)
     @@ Rule(Append(velocity, "release"), {"required_real_environment_blocking"}, EqualsOne)
     @@ Rule(<<E2E>>, {"stage_policy", "ui_evidence"}, Object)
     @@ Rule(policy, {"integration", "release"}, Object)
     @@ Rule(Append(policy, "integration"), {"automated_e2e_before_shared_integration",
               "real_environment_deferred_to_release", "incidental_ui_may_use_assertions"}, EqualsOne)
     @@ Rule(Append(policy, "integration"), {"real_environment_blocking"}, EqualsFalse)
     @@ Rule(Append(policy, "integration"), {"material_ui_journey_minimum_evidence_mode"}, {"full_media"})
     @@ Rule(Append(policy, "release"), {"full_validation_required", "release_critical_e2e_required",
                                         "required_real_environment_blocking"}, EqualsOne)
     @@ Rule(evidence, {"modes", "full_media_triggers"}, Includes \cup {"most"})
StagePolicyPasses == Passes(StagePolicy)
=============================================================================
