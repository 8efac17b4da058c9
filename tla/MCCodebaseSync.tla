----------------------------- MODULE MCCodebaseSync -----------------------------
(* Instances of CodebaseSync for TLC. *)
EXTENDS CodebaseSync

\* Two files, the second in two chunks.
ThreeChunks == [c \in {1, 2, 3} |-> IF c = 1 THEN "f1" ELSE "f2"]

\* Two manifest batches, then the chunks of each file, then the completion.
UploadPlan == << [kind |-> "manifest", files |-> {"f1"}],
                 [kind |-> "manifest", files |-> {"f2"}],
                 [kind |-> "file", chunk |-> 1],
                 [kind |-> "file", chunk |-> 2],
                 [kind |-> "file", chunk |-> 3],
                 [kind |-> "complete"] >>

\* One file of two chunks.
OneFile == [c \in {1, 2} |-> "f1"]

SmallPlan == << [kind |-> "manifest", files |-> {"f1"}],
                [kind |-> "file", chunk |-> 1],
                [kind |-> "file", chunk |-> 2],
                [kind |-> "complete"] >>
=============================================================================
