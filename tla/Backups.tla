------------------------------ MODULE Backups ------------------------------
(***************************************************************************)
(* Dumps of the database into files: runBackupToFile, pruneBackups and     *)
(* listBackups (services/admin/src/backup.ts), the timer that calls them   *)
(* (jobs.ts 42-54) and POST /admin/backups.  A dump is a child process     *)
(* whose output goes through gzip into a file; the end of the child, the   *)
(* end of the file and their errors are events that come in any order, and *)
(* the first one answers.                                                  *)
(***************************************************************************)
EXTENDS Naturals

CONSTANTS
  Dumps,      \* each in a file of its own: they begin in different seconds
  Manual      \* those an administrator asked for: nothing is pruned after them

VARIABLES
  child,      \* pg_dump of each: its exit, and whether that was heard of
  file,       \* what is in the file
  stream,     \* the write stream of the file
  told,       \* the answer
  alerted,    \* dumps whose failure was told to the administrators
  old,        \* files older than the retention
  hasty       \* history: dumps whose file ended before their exit was heard of

vars == <<child, file, stream, told, alerted, old, hasty>>

Init ==
  /\ child = [d \in Dumps |-> "none"]
  /\ file = [d \in Dumps |-> "absent"]
  /\ stream = [d \in Dumps |-> "none"]
  /\ told = [d \in Dumps |-> "none"]
  /\ alerted = {} /\ old = {} /\ hasty = {}

Over(d) == child[d] \in {"exited", "failed", "unstarted"}
Heard(d) == child[d] \in {"gone", "badly gone"}

Start(d) ==
  /\ child[d] = "none"
  /\ child' = [child EXCEPT ![d] = "runs"]
  /\ stream' = [stream EXCEPT ![d] = "opening"]
  /\ told' = [told EXCEPT ![d] = "awaits"]
  /\ UNCHANGED <<file, alerted, old, hasty>>

\* The stream creates its file ...
OpenFile(d) ==
  /\ stream[d] = "opening"
  /\ stream' = [stream EXCEPT ![d] = "open"]
  /\ file' = [file EXCEPT ![d] = "partial"]
  /\ UNCHANGED <<child, told, alerted, old, hasty>>

\* ... takes what the child has written, all of it or not ...
Exit(d) ==
  /\ child[d] = "runs"
  /\ \E how \in {"exited", "failed"} : child' = [child EXCEPT ![d] = how]
  /\ UNCHANGED <<file, stream, told, alerted, old, hasty>>

NotFound(d) ==
  /\ child[d] = "runs" /\ stream[d] = "opening"
  /\ child' = [child EXCEPT ![d] = "unstarted"]
  /\ UNCHANGED <<file, stream, told, alerted, old, hasty>>

\* ... and ends after the child's output has.
EndFile(d) ==
  /\ stream[d] = "open" /\ (Over(d) \/ Heard(d))
  /\ stream' = [stream EXCEPT ![d] = "finished"]
  /\ file' = [file EXCEPT ![d] = IF @ = "partial" /\ child[d] \in {"exited", "gone"}
                                 THEN "whole" ELSE @]
  /\ UNCHANGED <<child, told, alerted, old, hasty>>

BreakFile(d) ==
  /\ stream[d] \in {"opening", "open"} /\ stream' = [stream EXCEPT ![d] = "broken"]
  /\ UNCHANGED <<child, file, told, alerted, old, hasty>>

\* finish(ok): only the first counts.  A dump that failed takes its file away,
\* if the stream has made it by now.
Answer(d, ok) ==
  IF told[d] # "awaits" THEN UNCHANGED <<told, file>>
  ELSE /\ told' = [told EXCEPT ![d] = IF ok THEN "made" ELSE "failed"]
       /\ file' = IF ok THEN file ELSE [file EXCEPT ![d] = "absent"]

\* Mutant: the exit code is not looked at.
Close_Whatever(d) ==
  /\ Over(d)
  /\ child' = [child EXCEPT ![d] = IF @ = "exited" THEN "gone" ELSE "badly gone"]
  /\ UNCHANGED <<told, file, stream, alerted, old, hasty>>

\* 'close' with a code, or 'error' when it was not started.
Close(d) ==
  /\ Over(d)
  /\ child' = [child EXCEPT ![d] = IF @ = "exited" THEN "gone" ELSE "badly gone"]
  /\ IF child[d] = "exited" THEN UNCHANGED <<told, file>> ELSE Answer(d, FALSE)
  /\ UNCHANGED <<stream, alerted, old, hasty>>

\* 'finish' of the file.
Finish(d) ==
  /\ stream[d] = "finished"
  /\ stream' = [stream EXCEPT ![d] = "done"]
  /\ Answer(d, TRUE)
  /\ hasty' = IF Heard(d) THEN hasty ELSE hasty \cup {d}
  /\ UNCHANGED <<child, alerted, old>>

\* Mutant: an error of the file is only logged.
FileError_Logged(d) ==
  /\ stream[d] = "broken" /\ stream' = [stream EXCEPT ![d] = "done"]
  /\ UNCHANGED <<told, file, child, alerted, old, hasty>>

\* 'error' of the file.
FileError(d) ==
  /\ stream[d] = "broken" /\ stream' = [stream EXCEPT ![d] = "done"]
  /\ Answer(d, FALSE)
  /\ UNCHANGED <<child, alerted, old, hasty>>

\* What the timer's callback does with the answer; a request only passes it on.
Conclude(d) ==
  /\ told[d] \in {"made", "failed"}
  /\ told' = [told EXCEPT ![d] = IF @ = "made" THEN "kept" ELSE "lost"]
  /\ IF d \in Manual THEN UNCHANGED <<file, alerted>>
     ELSE IF told[d] = "made"
          THEN /\ file' = [e \in Dumps |-> IF e \in old THEN "absent" ELSE file[e]]
               /\ UNCHANGED alerted
          ELSE /\ alerted' = alerted \cup {d}
               /\ UNCHANGED file
  /\ UNCHANGED <<child, stream, old, hasty>>

\* Two weeks go by.
Age(d) ==
  /\ told[d] \in {"kept", "lost"} /\ stream[d] = "done" /\ d \notin old
  /\ old' = old \cup {d}
  /\ UNCHANGED <<child, file, stream, told, alerted, hasty>>

Events(d) ==
  \/ OpenFile(d) \/ Exit(d) \/ NotFound(d) \/ EndFile(d)
  \/ Close(d) \/ Finish(d) \/ FileError(d) \/ Conclude(d)

Next == \E d \in Dumps : Start(d) \/ Events(d) \/ BreakFile(d) \/ Age(d)

Spec == Init /\ [][Next]_vars

\* A stream opens its file, a child ends, and events are delivered.
Fairness == \A d \in Dumps : WF_vars(Events(d))

FairSpec == Spec /\ Fairness

-----------------------------------------------------------------------------
TypeOK ==
  /\ child \in [Dumps -> {"none", "runs", "exited", "failed", "unstarted", "gone", "badly gone"}]
  /\ file \in [Dumps -> {"absent", "partial", "whole"}]
  /\ stream \in [Dumps -> {"none", "opening", "open", "finished", "broken", "done"}]
  /\ told \in [Dumps -> {"none", "awaits", "made", "failed", "kept", "lost"}]
  /\ {alerted, old, hasty} \subseteq SUBSET Dumps

\* A backup that is reported as made, and was not pruned since, is the whole
\* dump, as long as the exit code of the child comes before the end of the file
\* (backup.ts 89-110: nothing makes it come first, and whichever does answers).
ReportedIsWhole ==
  \A d \in Dumps \ hasty :
    told[d] \in {"made", "kept"} => file[d] = "whole" \/ d \in old

\* Every backup that was begun is answered, whichever of the child and the
\* file fails, and a scheduled one that failed is told to the administrators.
Awaits(d) == told[d] = "awaits"
Answered(d) == told[d] = "kept" \/ (told[d] = "lost" /\ d \in Manual \cup alerted)

EveryDumpIsAnswered == \A d \in Dumps : Awaits(d) ~> Answered(d)
=============================================================================
