------------------------------ MODULE Overview ------------------------------
(***************************************************************************)
(* What the dashboard and the session creator make of what gh and git      *)
(* print (core/src/github.rs, core/src/project_overview.rs) and what they  *)
(* show of it.  The functions are pure; texts are sequences of the pieces  *)
(* the code looks for, and letter case is left out where it ignores it.    *)
(***************************************************************************)
EXTENDS Integers, Sequences, SequencesExt

\* None: no repository, no task list.
Nothing == <<>>

-----------------------------------------------------------------------------
\* CiStatus::from_checks: one failed check decides, wherever it is in the list.
CheckFailed(check)  == check.conclusion \in {"failure", "error"}
CheckPending(check) ==
  \/ check.status \in {"in_progress", "queued"}
  \/ check.conclusion = "" /\ check.status # "completed"

FromChecks(checks) ==
  CASE checks = <<>> -> "none"
    [] \E i \in DOMAIN checks : CheckFailed(checks[i]) -> "failed"
    [] checks # <<>> /\ (\A i \in DOMAIN checks : ~CheckFailed(checks[i]))
         /\ (\E i \in DOMAIN checks : CheckPending(checks[i])) -> "pending"
    [] OTHER -> "passed"

\* The mark beside a single check; an empty conclusion is taken for none before.
CheckIcon(check) ==
  CASE check.conclusion = "success" -> "ok"
    [] check.conclusion \in {"failure", "error", "timed_out", "cancelled"} -> "x"
    [] check.conclusion \notin {"success", "failure", "error", "timed_out", "cancelled"} ->
         IF check.status = "completed" THEN "?" ELSE "~"

-----------------------------------------------------------------------------
(***************************************************************************)
(* The repository that a remote's url names.  A url with a scheme is the   *)
(* parts between its slashes, one without is its pieces; a part is a       *)
(* sequence of pieces, too, of which the last can be ".git".               *)
(***************************************************************************)
TrimGit(text) ==
  LET kept == {n \in 0..Len(text) : \A i \in (n + 1)..Len(text) : text[i] = ".git"}
  IN  SubSeq(text, 1, CHOOSE n \in kept : \A m \in kept : n <= m)

\* The parts are those after "ssh://" and the like; the code counts two more.
RepoOfParts(parts) ==
  LET owner == parts[Len(parts) - 1]
      repo  == TrimGit(Last(parts))
  IN  IF Len(parts) + 2 >= 5 /\ owner # <<>> /\ repo # <<>> THEN owner \o <<"/">> \o repo
      ELSE Nothing

\* The path is all that follows the last colon, however many slashes it has.
RepoOfPath(text) ==
  LET path == TrimGit(SubSeq(text, 1 + SelectLastInSeq(text, LAMBDA c : c = ":"), Len(text)))
  IN  IF {"@", ":"} \subseteq ToSet(text) /\ "/" \in ToSet(path) THEN path ELSE Nothing

ParseRepoFromUrl(url) ==
  CASE url.scheme \in {"ssh", "http", "https"} -> RepoOfParts(url.parts)
    [] url.scheme = "none" -> RepoOfPath(url.text)
    [] url.scheme \notin {"ssh", "http", "https", "none"} -> Nothing

\* detect_repo_in: of the remote that git names "origin", if there is one.
DetectRepo(remote) ==
  IF remote.started /\ remote.success THEN ParseRepoFromUrl(remote.url) ELSE Nothing

-----------------------------------------------------------------------------
\* gh's answer to a request for issues or pull requests, of which it lists at most 50.
Fetch(answer) ==
  IF answer.started /\ answer.success /\ answer.parses THEN [ok |-> TRUE, list |-> answer.list]
  ELSE [ok |-> FALSE, list |-> <<>>]

\* A branch is stale by the calendar, from the 14th day on; never by a date that is none.
StaleThresholdDays == 14
IsStale(line, today) == line.dated /\ today - line.day >= StaleThresholdDays

\* The branches of git's lines, each in one of two lists, in the order of the lines.
FetchBranches(lines, today) ==
  LET branches == SelectSeq(lines, LAMBDA l : l.parts = 3 /\ l.name \notin {"main", "master", "HEAD"})
  IN  [active |-> SelectSeq(branches, LAMBDA l : ~IsStale(l, today)),
       stale  |-> SelectSeq(branches, LAMBDA l : IsStale(l, today))]

CountRunning(summaries) == Len(SelectSeq(summaries, LAMBDA s : s = "Running"))

\* The overview is there when all four parts of it are.
FetchProjectOverview(prs, issues, branches, sessions) ==
  /\ prs.ok /\ issues.ok /\ branches.ok /\ sessions.ok

-----------------------------------------------------------------------------
(***************************************************************************)
(* The task list of an issue's body.  A body is a sequence of lines, a     *)
(* line a sequence of pieces; "[x]" and "[ ]" stand for a box with its     *)
(* dash, "indent" and "space" for white space before it and after it.      *)
(***************************************************************************)
Boxes(body, box) ==
  Len(SelectSeq(FlattenSeq(body), LAMBDA piece : piece = box))

\* Boxes are counted wherever they stand.
ParseTaskProgress(body) ==
  LET checked == Boxes(body, "[x]")
      total   == checked + Boxes(body, "[ ]")
  IN  IF total = 0 THEN Nothing ELSE <<checked, total>>

\* A box that can be ticked stands at the start of its line, with a space after it.
Trimmed(line) == SelectSeq(line, LAMBDA piece : piece # "indent")
IsCheckbox(line) ==
  LET text == Trimmed(line)
  IN  Len(text) >= 2 /\ text[1] \in {"[x]", "[ ]"} /\ text[2] = "space"
ParseCheckboxes(body) ==
  [i \in {n \in DOMAIN body : IsCheckbox(body[n])} |-> Trimmed(body[i])[1] = "[x]"]

ToggleCheckboxInBody(body, index) ==
  [i \in DOMAIN body |->
     IF i = index /\ IsCheckbox(body[i])
     THEN LET at == SelectInSeq(body[i], LAMBDA piece : piece # "indent")
          IN  [body[i] EXCEPT ![at] = IF @ = "[x]" THEN "[ ]" ELSE "[x]"]
     ELSE body[i]]

-----------------------------------------------------------------------------
\* How long ago something was, in the largest unit that has passed once; minutes at least.
RelativeTime(seconds) ==
  CASE seconds < 0                         -> <<"now", 0>>
    [] seconds \in 0..119                  -> <<"m", 1>>
    [] seconds \in 120..3599               -> <<"m", seconds \div 60>>
    [] seconds >= 3600 /\ seconds < 86400  -> <<"h", seconds \div 3600>>
    [] seconds >= 86400                    -> <<"d", seconds \div 86400>>

\* The dot, the label and the text beside them, each from the same three values.
DotState(refreshing, failed, seconds) ==
  IF refreshing THEN "warning"
  ELSE IF failed \/ seconds > 120 THEN "error" ELSE "success"

SyncLabel(refreshing, failed, seconds) ==
  IF refreshing THEN "Syncing"
  ELSE IF failed \/ seconds > 120 THEN "Stale" ELSE "Synced"

SyncDetail(refreshing, failed, seconds) ==
  CASE refreshing                                     -> <<"refreshing">>
    [] ~refreshing /\ failed                          -> <<"failed">>
    [] ~refreshing /\ ~failed /\ seconds > 120        -> <<"stale", seconds \div 60>>
    [] ~refreshing /\ ~failed /\ seconds <= 120       -> <<"updated", seconds>>
=============================================================================
