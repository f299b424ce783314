--------------------------- MODULE JourneyContract ---------------------------
(***************************************************************************)
(* scripts/verify_e2e.py: the end-to-end contract of .engineering/e2e.json, *)
(* its environments and critical journeys, against commands.json; and how  *)
(* both files are edited.                                                  *)
(***************************************************************************)
EXTENDS OperatingContract, SequencesExt, FiniteSetsExt

CONSTANTS
  Edits,         \* the edits <<path, value>> of single entries
  LaterEdits,    \* those that are made on top of others
  ItemEdits,     \* edits <<list, index, field, value>> of one item of a list
  Items,         \* items that may be added, by list
  Repository, RepositoryLists,   \* the files as they are
  MaxEdits,      \* bound: edits after another
  Malformed      \* a list, or an item, of another type

VARIABLES
  lists,         \* target_environments, execution_environments, critical_journeys
  edits          \* edits so far

contract == <<templateMode, entries, lists, edits>>

Init ==
  /\ templateMode \in BOOLEAN /\ edits = 0
  /\ entries = Repository /\ lists = RepositoryLists

(* Somebody edits the files before the checks are run.                     *)
EditEntry ==
  \E edit \in IF edits = 0 THEN Edits ELSE LaterEdits :
    /\ entries' = (edit[1] :> edit[2]) @@ entries
    /\ UNCHANGED lists

EditItem ==
  /\ \E edit \in ItemEdits :
       LET name == edit[1] IN
       /\ lists[name] # Malformed /\ edit[2] \in DOMAIN lists[name]
       /\ lists[name][edit[2]] # Malformed
       /\ lists' = [lists EXCEPT ![name][edit[2]] = (edit[3] :> edit[4]) @@ @]
  /\ UNCHANGED entries

EditList ==
  /\ \E name \in DOMAIN lists :
       \/ lists[name] # Malformed
          /\ \E item \in Items[name] : lists' = [lists EXCEPT ![name] = Append(@, item)]
       \/ lists' \in {[lists EXCEPT ![name] = <<>>], [lists EXCEPT ![name] = Malformed]}
  /\ UNCHANGED entries

Next ==
  /\ edits < MaxEdits /\ edits' = edits + 1
  /\ EditEntry \/ EditItem \/ EditList
  /\ UNCHANGED templateMode

Spec == Init /\ [][Next]_contract

-----------------------------------------------------------------------------
FidelityOrder == <<"host_or_fake", "simulated_or_emulated", "representative_virtual",
                   "representative_physical", "target_environment">>
FidelityRank(class) == CHOOSE n \in DOMAIN FidelityOrder : FidelityOrder[n] = class
UIEvidenceModes == {"assertions", "screenshots", "full_media"}
Lists == {"target_environments", "execution_environments", "critical_journeys"}

Declared ==
  Rule(<<>>, {Commands, E2E}, Object)
  @@ Rule(<<E2E>>, {"schema_version"}, EqualsOne)
  @@ Rule(<<E2E>>, {"contract_version"}, {"0.2.1"})
  @@ Rule(<<E2E>>, {"applicability"}, Object)
  @@ Rule(<<E2E, "applicability">>, {"status"}, {"required", "recommended", "n/a"})
  @@ Rule(<<E2E, "applicability">>, {"reason"}, Text)

Applicability == Get(<<E2E, "applicability", "status">>)

(* Faulty: a required suite may be a recommended command. *)
StatusesNotOpposed ==
  LET status == Get(<<Commands, "commands", "e2e", "status">>) IN
  /\ Get(<<Commands>>) = "object" =>
       Get(<<Commands, "commands">>) = "object" /\ Get(<<Commands, "commands", "e2e">>) \in Object
  /\ Applicability = "n/a" => status = "n/a"
  /\ Applicability \in {"required", "recommended"} => status # "n/a"

(* commands.e2e against the applicability of end-to-end tests; a file with *)
(* no entry at all is passed over.                                         *)
StatusesAgree ==
  LET status == Get(<<Commands, "commands", "e2e", "status">>) IN
  /\ Get(<<Commands>>) = "object" =>
       Get(<<Commands, "commands">>) = "object" /\ Get(<<Commands, "commands", "e2e">>) \in Object
  /\ Applicability = "n/a" => status = "n/a"
  /\ Applicability \in {"required", "recommended"} => status # "n/a"
  /\ Applicability = "required" => status \in {"absent", "required"}

Policy ==
  LET policy == <<E2E, "stage_policy">> IN
  Rule(<<E2E>>, {"stage_policy"}, Object)
  @@ Rule(policy, {"integration", "release"}, Object)
  @@ Rule(Append(policy, "integration"), {"automated_e2e_before_shared_integration",
       "real_environment_deferred_to_release", "incidental_ui_may_use_assertions"}, True)
  @@ Rule(Append(policy, "integration"), {"real_environment_blocking"}, False)
  @@ Rule(Append(policy, "integration"), {"material_ui_journey_minimum_evidence_mode"}, {"full_media"})
  @@ Rule(Append(policy, "release"), {"full_validation_required", "release_critical_e2e_required",
                                      "required_real_environment_blocking"}, True)

Principles ==
  Rule(<<E2E>>, {"principles"}, Object)
  @@ Rule(<<E2E, "principles">>, {"final_environment_should_confirm_not_discover",
       "execution_capability_separate_from_environment_fidelity", "lowest_sufficient_test_level",
       "critical_journeys_only", "built_artifact_when_material",
       "residual_fidelity_gaps_explicit", "ui_evidence_risk_based"}, True)

UIEvidence ==
  LET evidence == <<E2E, "ui_evidence">> IN
  Rule(<<E2E>>, {"ui_evidence"}, Object)
  @@ Rule(evidence, {"modes"}, {"whole"})
  @@ Rule(evidence, {"default_mode"}, UIEvidenceModes)
  @@ Rule(evidence, {"assertions_allowed_when_ui_incidental"}, True)
  @@ Rule(evidence, {"full_media_triggers"}, Includes)
  @@ Rule(<<E2E>>, {"fidelity_order"}, {"whole"})

-----------------------------------------------------------------------------
(* The lists, and what refers to what in them *)

NonEmptyString(value) == value \notin {"absent", "empty"}
ListOfStrings(list) == list # Malformed /\ \A k \in DOMAIN list : NonEmptyString(list[k])

Ids(name) == {lists[name][k].id : k \in DOMAIN lists[name]}
UniqueIds(name) ==
  LET list == lists[name] IN
  /\ list # Malformed
  /\ \A k \in DOMAIN list : list[k] # Malformed /\ NonEmptyString(list[k].id)
  /\ \A j, k \in DOMAIN list : list[j].id = list[k].id => j = k

(* All that an applicable repository declares, and none of it otherwise.   *)
DeclaredWhenApplicable ==
  IF Applicability = "n/a" THEN \A name \in Lists : lists[name] = <<>>
  ELSE \A name \in Lists : lists[name] # <<>>

ValidateRefs(refs, known, allowEmpty) ==
  /\ ListOfStrings(refs)
  /\ allowEmpty \/ refs # <<>>
  /\ \A ref \in ToSet(refs) : ref \in known \/ ref = "placeholder"

TargetPasses(target) ==
  /\ NonEmptyString(target.platform) /\ NonEmptyString(target.description)
  /\ ListOfStrings(target.material_dimensions) /\ target.material_dimensions # <<>>

ExecutionPasses(environment) ==
  /\ environment.fidelity_class \in ToSet(FidelityOrder)
  /\ environment.automation \in {"automated", "real_environment"}
  /\ NonEmptyString(environment.platform) /\ NonEmptyString(environment.artifact_surface)
  /\ ValidateRefs(environment.target_environment_refs, Ids("target_environments"), FALSE)
  /\ ListOfStrings(environment.known_gaps)

Referred(journey) ==
  {environment \in ToSet(lists["execution_environments"]) :
     environment.id \in ToSet(journey.automated_environment_refs)}

EvidencePasses(journey) ==
  \/ journey.ui_surface = "true" /\ journey.minimum_ui_evidence_mode \in UIEvidenceModes
  \/ journey.ui_surface = "false" /\ journey.minimum_ui_evidence_mode \in {"absent", "assertions"}

(* Faulty: every environment need not be automated, if one is good enough. *)
SomeAutomationPasses(journey) ==
  LET refs == journey.automated_environment_refs
      ranks == {FidelityRank(environment.fidelity_class) : environment \in Referred(journey)}
  IN /\ ValidateRefs(refs, Ids("execution_environments"), TRUE)
     /\ journey.minimum_automated_fidelity \in ToSet(FidelityOrder)
     /\ ranks # {} => Max(ranks) >= FidelityRank(journey.minimum_automated_fidelity)
     /\ refs = <<>> => NonEmptyString(journey.automation_gap_reason)

(* Some automated environment is of the minimum fidelity, or says why not. *)
AutomationPasses(journey) ==
  LET refs == journey.automated_environment_refs
      ranks == {FidelityRank(environment.fidelity_class) : environment \in Referred(journey)}
  IN /\ ValidateRefs(refs, Ids("execution_environments"), TRUE)
     /\ \A environment \in Referred(journey) : environment.automation = "automated"
     /\ journey.minimum_automated_fidelity \in ToSet(FidelityOrder)
     /\ ranks # {} => Max(ranks) >= FidelityRank(journey.minimum_automated_fidelity)
     /\ refs = <<>> => NonEmptyString(journey.automation_gap_reason)
     /\ refs # <<>> => Referred(journey) # {}

JourneyPasses(journey) ==
  /\ NonEmptyString(journey.claim)
  /\ EvidencePasses(journey)
  /\ ValidateRefs(journey.target_environment_refs, Ids("target_environments"), FALSE)
  /\ AutomationPasses(journey)
  /\ journey.real_environment_confirmation \in {"required", "conditional", "not_required"}
  /\ ListOfStrings(journey.residual_gaps)

(* In the whole of e2e.json.                                               *)
ContainsPlaceholder ==
  \/ \E path \in DOMAIN entries : path[1] = E2E /\ Get(path) = "placeholder"
  \/ \E name \in Lists : \E item \in ToSet(lists[name]) : \E field \in DOMAIN item :
       LET value == item[field] IN
       IF field \in {"material_dimensions", "target_environment_refs", "known_gaps",
                     "automated_environment_refs", "residual_gaps"}
       THEN value # Malformed /\ "placeholder" \in ToSet(value)
       ELSE value = "placeholder"

E2EPasses ==
  /\ Passes(Declared) /\ StatusesAgree
  /\ Passes(Principles) /\ Passes(Policy) /\ Passes(UIEvidence)
  /\ \A name \in Lists : UniqueIds(name)
  /\ DeclaredWhenApplicable
  /\ \A target \in ToSet(lists["target_environments"]) : TargetPasses(target)
  /\ \A environment \in ToSet(lists["execution_environments"]) : ExecutionPasses(environment)
  /\ \A journey \in ToSet(lists["critical_journeys"]) : JourneyPasses(journey)
  /\ ContainsPlaceholder => templateMode

-----------------------------------------------------------------------------
(* Properties *)

(* A stage policy that the operations check and the end-to-end check both  *)
(* accept is accepted by the third script, which reads the same entries    *)
(* with other comparisons; and an applicable suite is one that can be run: *)
(* what one file requires the other does not leave optional.               *)
StagePolicyFollows ==
  OperationsPass /\ E2EPasses =>
    /\ StagePolicyPasses
    /\ Applicability = "required" => Get(<<Commands, "commands", "e2e", "status">>) = "required"

(* In files that pass, every critical journey has an environment that runs *)
(* it by itself at the fidelity it asks for, or none at all and a reason.  *)
JourneysReachable ==
  E2EPasses =>
    \A journey \in ToSet(lists["critical_journeys"]) :
      \/ \E environment \in ToSet(lists["execution_environments"]) :
           /\ environment.id \in ToSet(journey.automated_environment_refs)
           /\ environment.automation = "automated"
           /\ FidelityRank(environment.fidelity_class)
                >= FidelityRank(journey.minimum_automated_fidelity)
      \/ /\ journey.automated_environment_refs = <<>>
         /\ journey.automation_gap_reason \notin {"absent", "empty"}
=============================================================================
