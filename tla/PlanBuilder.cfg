SPECIFICATION Spec
CONSTANTS
  Strategies = {"default", "mvp_first", "bdd_incremental", "spike_then_harden", "repair_only", "safe_refactor"}
  MaxRounds = 2
INVARIANTS
  PlansAreValid
  NeedsArePlanned
