--------------------------- MODULE MCCodebaseAnalysis ---------------------------
(* An instance of CodebaseAnalysis small enough for TLC: three triggers of *)
(* a project of a codebase or of a legacy project.                         *)
EXTENDS CodebaseAnalysis, TLC

CONSTANTS alice, o1, o2, o3, o4, project, upload, t1, t2, t3

MCOwner == [o \in Ops |-> alice]
MCMaxCharge == [o \in Ops |-> 1]
MCInitialCredits == alice :> 2
MCUploadOf == project :> upload
MCKeyOf == [p \in Projects |-> [n \in 1 .. Cardinality(Triggers) |->
              IF n = 1 THEN o1 ELSE IF n = 2 THEN o2 ELSE o3]]
=============================================================================
