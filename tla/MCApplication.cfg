SPECIFICATION AllSpec
CONSTANTS
  Request = {r1, r2}
  RawRole = {"root", "algorithm_engineer", "auditor"}
  Action = {"evaluation.export", "policy.release", "audit.read", "training.submit"}
  MaxCrashes = 1
  Task = {t1}
  TaskGoal = {"submit", "run", "run_async", "confirm", "handoff", "cancel"}
  Version = {v1, v2, v3}  Seeded = v1
  Job = {j1}  MaxIterations = 2
  Caller = {c1, c2}  RecordKey = {k1, k2}  Value = {x1}  Name = {n1}  Artifact = {a1}
  Unique = TRUE  MaxAppends = 2
  Policy = {p1, p2}  Evaluation = {e1}  MaxApprovals = 1
  Decision = {"passed", "failed", "approved", "rejected"}
  RunMission <- MCMission  RunRequest <- MCRunRequest  RunSpeed = 2  MaxRunSteps = 1200
  SceneProfile <- MCSceneProfile  Profile <- MCProfile  MaxBackendSteps = 2
  Submission <- MCSubmission
  Window = {"webots", "mujoco"}  WindowPath <- MCWindowPath  WindowSteps = {1, 6}
  Threshold = 1  MaxCommands = 3
  LocalPath <- MCLocalPath  LocalRequest <- MCLocalRequest  MaxLocalSteps = 4000
  Text <- MCText  SceneAssets <- MCSceneAssets  WaypointOrder <- MCWaypointOrder
  Digits <- MCDigits  Numerals <- MCNumerals  MaxGap = 1
INVARIANTS AllTypeOK LoneTaskRunsOnce EventsTellStates SceneBaseline EvidenceIsTrue NobodyElevated
           AnsweredExportsKept RouteIsSound RouteIsWalked RunEndsWell TextBecomesRoute
           StagesAgree
PROPERTIES AcceptedRunEnds TrainingTells KeepsItsPromise WindowObeys BackendObeys
CHECK_DEADLOCK FALSE
