---------------------------- MODULE MCBracketPlay ----------------------------
(* Tournaments for model checking BracketPlay. *)
EXTENDS BracketPlay

Of(format, fields, corrections, margins, pace) ==
  [format : {format}, field : fields, corrections : {corrections},
   margins : {margins}, pace : {pace}]

Free(format, fields, margins) == Of(format, fields, FALSE, margins, "free")
Corrected(format, fields, margins) == Of(format, fields, TRUE, margins, "free")
Listed(format, fields, margins) == Of(format, fields, FALSE, margins, "listed")
Scripted(format, fields) == Of(format, fields, FALSE, {}, "scripted")

Knockouts == Free("single", 2..9, {1}) \cup Corrected("single", 2..6, {1})
             \cup Free("double", {4, 8}, {1}) \cup Corrected("page", 4..6, {1})

LeagueFields ==
  Free("round-robin", {2, 3, 4}, {1, 2}) \cup Free("round-robin", {5}, {1})
  \cup Corrected("round-robin", {3}, {1, 2})
  \cup Free("swiss", {2, 3, 4, 5}, {1, 2}) \cup Free("swiss", {6}, {1})
  \cup Free("groups", {4, 5}, {1, 3}) \cup Free("groups", {6}, {1})
  \cup Corrected("groups", {4}, {1})
  \cup Listed("groups", {10}, {1})

Script == Scripted("single", 2..16) \cup Scripted("double", {4, 8, 16})
          \cup Scripted("page", {4}) \cup Scripted("round-robin", 2..10)
          \cup Scripted("swiss", 2..16) \cup Scripted("groups", 4..17)

Sound == Knockouts \cup LeagueFields \cup Script

DoubleWithByes == Free("double", 5..7, {1})
UnevenScores == Free("single", {3}, {1, 3})
=============================================================================
