----------------------------- MODULE PacketPolicy -----------------------------
(* The gate every work packet passes before an agent conversation starts,    *)
(* and the tables it reads.                                                  *)
(*                                                                           *)
(* A packet names, as free text, what the agent may and may not do.  The     *)
(* gate reads the allowed names as runtime actions through the alias table   *)
(* of policy/acl.py and holds them against two tables per stage: the access  *)
(* list and the action policy.  Two more tables, the registry and the        *)
(* request permissions, repeat the aliases and the access lists for other    *)
(* callers.  A packet starts as one of those the stages build; an edit       *)
(* stands for any other caller of the adapter.  The gate's checks of the     *)
(* capability name, the output list, the attempt and the evidence attached   *)
(* are left out: they do not depend on names.                                *)
EXTENDS Naturals, FiniteSets

CONSTANTS
  MaxEdits  \* bound on how far a packet differs from a built one

ASSUME EditsAssumption == MaxEdits \in Nat

VARIABLES packet, edits, verdict
gateVars == <<packet, edits, verdict>>

Kinds == {"research", "observe", "execute", "repair", "verify", "publish"}

-----------------------------------------------------------------------------
(* RuntimeAction and its aliases.                                            *)
Mutating == {"file.write", "git.commit", "git.push", "k8s.apply",
             "argocd.sync", "ssh.run"}
Publishing == {"git.commit", "git.push", "pr.create"}

AliasesOf ==
  [repo_read |-> {"read_repo", "repo_read", "inspect_repository",
                  "read_repository", "inspect_repo", "collect_evidence"},
   file_read |-> {"read_files", "filesystem", "context_packet_text",
                  "file_read"},
   file_write |-> {"write_files", "edit_files", "file_write"},
   shell_run |-> {"inspect_runtime_state", "run_read_only_commands",
                  "run_commands", "run_read_commands", "run_write_commands",
                  "shell", "shell_run"},
   test_run |-> {"run_tests", "test_runtime", "test_run"},
   git_read |-> {"inspect_git", "inspect_git_read_only", "inspect_pr_checks",
                 "git_status", "git", "git_diff", "git_read"},
   git_commit |-> {"commit_when_required", "commit", "git_commit"},
   git_push |-> {"push_when_required", "push", "git_push",
                 "git_push_--force"},
   pr_create |-> {"create_pr_when_required", "create_pr",
                  "open_pull_request", "pull_request"},
   internet_search |-> {"internet_research", "read_official_docs",
                        "inspect_public_metadata", "search_web",
                        "collect_source_attribution", "internet_search",
                        "web_search"},
   k8s_read |-> {"k8s_read", "kubectl_get"},
   k8s_apply |-> {"k8s_write", "kubectl_apply", "apply_cluster_changes"},
   argocd_sync |-> {"argocd_sync"},
   ssh_run |-> {"ssh", "ssh_run", "change_host_config"}]

ActionNames ==
  [repo_read |-> "repo.read", file_read |-> "file.read",
   file_write |-> "file.write", shell_run |-> "shell.run",
   test_run |-> "test.run", git_read |-> "git.read",
   git_commit |-> "git.commit", git_push |-> "git.push",
   pr_create |-> "pr.create", internet_search |-> "internet.search",
   k8s_read |-> "k8s.read", k8s_apply |-> "k8s.apply",
   argocd_sync |-> "argocd.sync", ssh_run |-> "ssh.run"]
Actions == {ActionNames[a] : a \in DOMAIN ActionNames}

(* The spelling the tables are searched with: "-" and " " become "_".        *)
(* Only these names have either.                                             *)
Normalized(name) ==
  IF name = "git push" THEN "git_push"
  ELSE IF name \in {"git push --force", "git_push_--force"}
    THEN "git_push___force"
  ELSE name

(* An action, or unknown: what the tables make of a spelling.                *)
Lookup(aliases, name) ==
  IF name \in Actions THEN name
  ELSE IF \E a \in DOMAIN aliases : name \in aliases[a]
    THEN ActionNames[CHOOSE a \in DOMAIN aliases : name \in aliases[a]]
  ELSE "unknown"

(* Faulty: the aliases are normalized as the names are.                      *)
CoerceBoth(name) ==
  Lookup([a \in DOMAIN AliasesOf |-> {Normalized(t) : t \in AliasesOf[a]}],
         Normalized(name))

(* Faulty: the alias every execution packet relies on is missing.            *)
CoerceNoEvidence(name) ==
  IF name = "collect_evidence" THEN "unknown"
  ELSE Lookup(AliasesOf, Normalized(name))

(* RuntimeAction.coerce: only the name is normalized, so the alias that      *)
(* spells a forced push is never found.                                      *)
Coerce(name) == Lookup(AliasesOf, Normalized(name))

(* RuntimeActionRegistry.canonicalize: more names for a search, and the      *)
(* aliases are normalized too.                                               *)
Canonicalize(name) ==
  LET aliases ==
        [AliasesOf EXCEPT !["internet_search"] = @ \cup
           {"inspect_package_registry", "read_package_registry",
            "inspect_release_notes", "read_release_notes",
            "inspect_changelog", "resolve_package_versions"}]
  IN  Lookup([a \in DOMAIN aliases |-> {Normalized(t) : t \in aliases[a]}],
             Normalized(name))

-----------------------------------------------------------------------------
(* StaticStagePolicyDecisionPoint, and the list the registry keeps.          *)
Working == {"repo.read", "file.read", "shell.run", "test.run", "git.read"}

StageAllow(stage) ==
  CASE stage = "research" -> {"internet.search", "repo.read", "file.read"}
    [] stage = "observe" -> (Working \ {"test.run"}) \cup {"k8s.read"}
    [] stage \in {"execute", "repair"} -> Working \cup {"file.write"}
    [] stage = "verify" -> Working \cup {"k8s.read"}
    [] stage = "publish" -> Working \cup Publishing

RegistryAllow(stage) ==
  StageAllow(stage)
    \cup (IF stage = "observe" THEN {"internet.search"} ELSE {})

Authorized(name, stage) == Coerce(name) \in StageAllow(stage)

(* ActionPolicyEnforcer.                                                     *)
PublicationNames == {"publish", "create_pr", "open_pull_request", "commit",
                     "push", "git push"}
RequiredForbidden(stage) ==
  CASE stage \in {"research", "observe"} ->
         PublicationNames \cup {"edit_files", "write_files"}
    [] stage = "verify" ->
         PublicationNames \cup {"edit_files", "write_files", "repair"}
    [] stage \in {"execute", "repair"} -> PublicationNames
    [] stage = "publish" ->
         {"repair", "reimplement_feature", "expand_task_scope"}

PolicyAccepts(p) ==
  LET acts == {Coerce(t) : t \in p.allowed}
  IN  /\ "unknown" \notin acts
      /\ p.kind \in {"execute", "repair", "publish"}
           \/ acts \cap Mutating = {}
      /\ p.kind = "publish" \/ acts \cap Publishing = {}
      /\ RequiredForbidden(p.kind) \subseteq p.forbidden

-----------------------------------------------------------------------------
(* OpenHandsStageContractGate: what each kind of packet must forbid by name, *)
(* and the whole gate.                                                       *)
MutatingObserve == {"edit_files", "write_files", "commit", "push", "git push",
                    "apply_cluster_changes", "change_host_config",
                    "run_write_commands"}
GitGuards == {"commit", "push", "git push", "git push --force", "git tag",
              "git merge", "git rebase", "create_pr", "open_pull_request",
              "publish", "release"}
PublishGuards == {"git push --force", "git tag", "git merge", "git rebase",
                  "release", "fix_ci_after_publish", "reimplement_feature",
                  "apply_feature_changes", "edit_source_files", "repair"}

GateForbidden(kind) ==
  CASE kind \in {"research", "observe"} ->
         PublicationNames \cup {"edit_files", "write_files"}
    [] kind = "execute" -> GitGuards \cup {"change_workflow_decision"}
    [] kind = "repair" -> GitGuards
    [] kind = "publish" ->
         PublishGuards \cup {"change_workflow_decision", "expand_task_scope"}
    [] kind = "verify" ->
         PublicationNames \cup {"edit_files", "write_files", "fix_code",
                                "repair"}

(* A world check that forbids all of these forbids what it is for.           *)
DirectGuards == {"filesystem", "shell", "git", "hosts", "kubernetes",
                 "network_runtime_state"}

GateAccepts(p) ==
  /\ p.kind \in {"research", "observe"} => p.allowed \cap MutatingObserve = {}
  /\ p.kind = "verify" => ~(DirectGuards \subseteq p.forbidden)
  /\ GateForbidden(p.kind) \subseteq p.forbidden
  /\ \A t \in p.allowed : Authorized(t, p.kind)
  /\ PolicyAccepts(p)

(* _openhands_stage_contract: what the prompt of an accepted packet forbids  *)
(* for its kind, whatever the packet says.  What the packet itself forbids   *)
(* the prompt lists besides; it is left out.                                 *)
PromptForbids(kind) ==
  {"change_workflow_decision", "declare_task_completed_or_accepted",
   "expand_task_scope", "invent_missing_evidence", "ignore_packet_constraints"}
  \cup (IF kind = "publish" THEN PublishGuards
        ELSE {"git push", "git push --force", "git tag", "git merge",
              "git rebase", "create_pr", "open_pull_request", "release",
              "publish"})
  \cup (IF kind \in {"research", "observe"}
        THEN {"edit_files", "write_files", "run_mutating_commands",
              "change_host_config", "apply_cluster_changes"}
        ELSE IF kind = "verify"
        THEN {"edit_files", "write_files", "fix_code", "repair"} ELSE {})

-----------------------------------------------------------------------------
(* RequestPermissionCatalog: the stages and the action of each permission;   *)
(* a name it does not know is read as a runtime action.                      *)
Permissions ==
  LET for(stages, action, names) ==
        {[name |-> n, stages |-> stages, action |-> action] : n \in names}
  IN  for({"observe"}, "file.read", {"read_files"})
        \cup for({"observe"}, "shell.run",
                 {"run_read_only_commands", "inspect_runtime_state"})
        \cup for({"observe"}, "repo.read", {"inspect_repo"})
        \cup for({"research"}, "internet.search",
                 {"internet_research", "search_web", "internet_search",
                  "web_search", "read_official_docs", "inspect_release_notes",
                  "inspect_package_registry", "inspect_public_metadata",
                  "collect_source_attribution"})
        \cup for({"execute", "repair"}, "file.write",
                 {"edit_files", "write_files", "file_write"})
        \cup for({"execute", "repair"}, "shell.run",
                 {"run_commands", "shell_run", "run_read_commands",
                  "run_write_commands"})
        \cup for({"execute", "repair"}, "test.run", {"run_tests", "test_run"})
        \cup for({"execute", "repair"}, "git.read", {"inspect_git_read_only"})
        \cup for({"execute", "repair", "publish"}, "repo.read",
                 {"collect_evidence"})
        \cup for({"publish"}, "git.read", {"inspect_git", "inspect_pr_checks"})
        \cup for({"publish"}, "git.commit", {"commit_when_required"})
        \cup for({"publish"}, "git.push", {"push_when_required"})
        \cup for({"publish"}, "pr.create", {"create_pr_when_required"})
        \cup for({"verify"}, "file.read",
                 {"filesystem", "context_packet_text", "artifact_text",
                  "task_text", "structured_evidence", "schema_text"})
        \cup for({"verify"}, "shell.run", {"shell"})
        \cup for({"verify"}, "git.read", {"git"})
        \cup for({"verify"}, "test.run", {"test_runtime"})

KnownPermission(name) == {s \in Permissions : s.name = Normalized(name)}

(* Faulty: the stages of a known permission are not looked at.               *)
PermittedAnywhere(name, stage) ==
  IF KnownPermission(name) # {}
    THEN {s.action : s \in KnownPermission(name)}
    ELSE {Coerce(name)} \cap StageAllow(stage)

(* require_stage_permission: the actions granted, none if it refuses.        *)
Permitted(name, stage) ==
  IF KnownPermission(name) # {}
    THEN {s.action : s \in {k \in KnownPermission(name) : stage \in k.stages}}
    ELSE {Coerce(name)} \cap StageAllow(stage)

-----------------------------------------------------------------------------
(* The packets the stages build.                                             *)
Destructive == {"git push --force", "git tag", "git merge", "git rebase",
                "release"}
Routing == {"change_workflow_decision", "declare_task_completed_or_accepted"}

ObserveForbids == GitGuards \cup Routing
                    \cup {"edit_files", "write_files", "run_mutating_commands"}
Searches == {"internet_research", "read_official_docs",
             "inspect_public_metadata", "collect_source_attribution"}
Edits == {"edit_files", "run_commands", "run_tests", "inspect_git_read_only",
          "collect_evidence"}

Packet(kind, allowed, forbidden) ==
  [kind |-> kind, allowed |-> allowed, forbidden |-> forbidden]

RetrievalPacket ==
  Packet("research",
         Searches \cup {"inspect_release_notes", "inspect_package_registry"},
         ObserveForbids)

BuiltPackets ==
  {RetrievalPacket,
   Packet("research", Searches, ObserveForbids),
   Packet("observe",
          {"read_files", "run_read_only_commands", "inspect_repo",
           "inspect_runtime_state"},
          ObserveForbids \cup {"apply_cluster_changes", "change_host_config"}),
   Packet("execute", Edits, GitGuards \cup Routing),
   Packet("repair", Edits, GitGuards \cup Routing),
   Packet("verify",
          {"filesystem", "shell", "git", "test_runtime",
           "context_packet_text"},
          GitGuards \cup Routing
            \cup {"expand_task_scope", "edit_files", "write_files",
                  "fix_code", "repair"}),
   Packet("publish",
          {"inspect_git", "commit_when_required", "push_when_required",
           "create_pr_when_required", "inspect_pr_checks",
           "collect_evidence"},
          PublishGuards \cup Routing \cup {"expand_task_scope"})}

Names == UNION {AliasesOf[a] : a \in DOMAIN AliasesOf}
           \cup GitGuards \cup PublishGuards \cup Routing \cup DirectGuards
           \cup {"fix_code", "expand_task_scope", "run_mutating_commands",
                 "inspect_release_notes", "resolve_package_versions"}

GateInit == packet \in BuiltPackets /\ edits = 0 /\ verdict = "draft"

Edit(p) == /\ verdict = "draft" /\ edits < MaxEdits
           /\ packet' = p /\ edits' = edits + 1
           /\ UNCHANGED verdict

Allow == \E t \in Names \ packet.allowed :
           Edit([packet EXCEPT !.allowed = @ \cup {t}])

Forbid == \E t \in Names \ packet.forbidden :
            Edit([packet EXCEPT !.forbidden = @ \cup {t}])

Omit == \E t \in packet.forbidden :
          Edit([packet EXCEPT !.forbidden = @ \ {t}])

(* observe, execute, publish, repair and verify of the adapter call the gate *)
(* first and raise what it raises.                                           *)
Submit == /\ verdict = "draft"
          /\ verdict' = IF GateAccepts(packet) THEN "started" ELSE "refused"
          /\ UNCHANGED <<packet, edits>>

GateNext == Allow \/ Forbid \/ Omit \/ Submit
GateSpec == GateInit /\ [][GateNext]_gateVars

-----------------------------------------------------------------------------
(* An agent is never started with a packet that allows a name its prompt, or *)
(* the guards of its kind, forbid: the tables of the gate agree with the     *)
(* lists of the prompt, spelling by spelling.                                *)
NothingForbiddenIsAllowed ==
  verdict = "started" =>
    packet.allowed \cap (PromptForbids(packet.kind)
                           \cup GateForbidden(packet.kind)
                           \cup RequiredForbidden(packet.kind)) = {}

(* The four tables nest, for the names of a packet and for any name it adds: *)
(* what a started packet allows, read through the registry, is allowed to    *)
(* its stage by the registry - no alias of the access list is wider than its *)
(* twin -, and a permission the catalog grants for a stage is an action the  *)
(* access list gives that stage.                                             *)
TablesNest ==
  \A t \in packet.allowed :
    /\ verdict = "started" => Canonicalize(t) \in RegistryAllow(packet.kind)
    /\ Permitted(t, packet.kind) \subseteq StageAllow(packet.kind)

(* Of the packets the stages build the gate refuses the retrieval packet     *)
(* only.                                                                     *)
BuiltPacketsStart ==
  edits = 0 /\ verdict = "refused" => packet = RetrievalPacket

(* tests/test_runtime_action_registry.py:45, of the packet RetrievalService  *)
(* builds: "Must not raise."                                                 *)
RetrievalIsAccepted ==
  packet = RetrievalPacket => verdict # "refused"

(* policy/registry.py:18: the registry keeps normalization and stage lists   *)
(* "in one place" so that they "cannot drift".                               *)
TablesAgree ==
  \A t \in packet.allowed : Canonicalize(t) = Coerce(t)
=============================================================================
