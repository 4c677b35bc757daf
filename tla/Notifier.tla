------------------------------ MODULE Notifier ------------------------------
(***************************************************************************)
(* The notifiers of crates/notify: the console, Slack and Telegram         *)
(* backends that a configuration builds, each behind a                     *)
(* RateLimitedNotifier, and the texts they send.                           *)
(*                                                                         *)
(* A call of send looks at the limiter under its lock and then sends with  *)
(* no lock held, so that calls overlap, and what was let through may fail. *)
(***************************************************************************)
EXTENDS Naturals, Sequences, SequencesExt

CONSTANTS
  Subject,      \* a workflow's name and a step's: what a context is about
  Outcome,      \* the statuses a context reports
  MinInterval,  \* min_interval, in ticks of the clock
  MaxTime,      \* bound: the clock
  MaxSends      \* bound: calls of send

VARIABLES
  notifiers,  \* the backends that were built
  now,        \* Instant::now()
  lastSent,   \* RateLimiter::last_sent of each backend, 0 where it has no entry
  sends       \* the calls of send, in the order they were made

notifyVars == <<notifiers, now, lastSent, sends>>

Kind == {"console", "slack", "telegram"}

\* The environment: a variable that is missing, blank or set; NonEmptyEnv is
\* what non_empty_env makes of one.
Env == [webhook : {"missing", "blank", "set"}, channel : {"missing", "blank", "set"},
        token : {"missing", "blank", "set"}, chat : {"missing", "blank", "set"}]
NonEmptyEnv(value) == value = "set"

\* A channel counts only beside a webhook, a token only with a chat.
FromEnv(env) ==
  [slack    |-> IF NonEmptyEnv(env.webhook)
                THEN IF NonEmptyEnv(env.channel) THEN "channel" ELSE "default" ELSE "none",
   telegram |-> NonEmptyEnv(env.token) /\ NonEmptyEnv(env.chat)]

\* A file that cannot be read or parsed is an error; without the section, the default.
FromFile(file) ==
  CASE file = "unreadable" -> "error"
    [] file = "malformed"  -> "error"
    [] file = "no section" -> [slack |-> "none", telegram |-> FALSE]
    [] OTHER               -> file

BuildNotifiers(config) ==
  <<"console">> \o (IF config.slack # "none" THEN <<"slack">> ELSE <<>>)
                \o (IF config.telegram THEN <<"telegram">> ELSE <<>>)

NotifierInit ==
  /\ \E env \in Env : notifiers = BuildNotifiers(FromEnv(env))
  /\ now = 1
  /\ lastSent = [k \in Kind |-> [s \in Subject |-> 0]]
  /\ sends = <<>>

-----------------------------------------------------------------------------
\* The key of a limiter is the kind with the workflow and the step, not the status.
SendNotification(k, s, st) ==
  /\ Len(sends) < MaxSends
  /\ k \in ToSet(notifiers)
  /\ sends' = Append(sends, [kind |-> k, subject |-> s, status |-> st, state |-> "asked",
                             at |-> now])
  /\ UNCHANGED <<notifiers, now, lastSent>>

\* Slip: the entry is made before the interval is looked at.
CheckRecordsRefused(i) ==
  LET k == sends[i].kind
      s == sends[i].subject
      last == lastSent[k][s]
  IN  /\ sends[i].state = "asked"
      /\ sends' = [sends EXCEPT ![i].at = now, ![i].state =
                     IF last # 0 /\ now - last < MinInterval THEN "refused" ELSE "sending"]
      /\ lastSent' = [lastSent EXCEPT ![k][s] = now]
      /\ UNCHANGED <<notifiers, now>>

\* check: one step, since the clock is read and the entry made under the lock.
Check(i) ==
  LET k == sends[i].kind
      s == sends[i].subject
      last == lastSent[k][s]
  IN  /\ sends[i].state = "asked"
      /\ \/ /\ last # 0 /\ now - last < MinInterval
            /\ sends' = [sends EXCEPT ![i].state = "refused", ![i].at = now]
            /\ UNCHANGED lastSent
         \/ /\ last = 0 \/ now - last >= MinInterval
            /\ sends' = [sends EXCEPT ![i].state = "sending", ![i].at = now]
            /\ lastSent' = [lastSent EXCEPT ![k][s] = now]
      /\ UNCHANGED <<notifiers, now>>

Finish(i, kind, outcomes) ==
  /\ sends[i].kind = kind /\ sends[i].state = "sending"
  /\ \E outcome \in outcomes : sends' = [sends EXCEPT ![i].state = outcome]
  /\ UNCHANGED <<notifiers, now, lastSent>>

\* The console always takes a message; a request fails, or its answer is no success.
ConsoleSends(i)  == Finish(i, "console", {"sent"})
SlackSends(i)    == Finish(i, "slack", {"sent", "failed"})
TelegramSends(i) == Finish(i, "telegram", {"sent", "failed"})

Tick ==
  /\ now < MaxTime /\ now' = now + 1
  /\ UNCHANGED <<notifiers, lastSent, sends>>

NotifierNext ==
  \/ \E k \in Kind, s \in Subject, st \in Outcome : SendNotification(k, s, st)
  \/ \E i \in DOMAIN sends : Check(i) \/ ConsoleSends(i) \/ SlackSends(i) \/ TelegramSends(i)
  \/ Tick

NotifierSpec == NotifierInit /\ [][NotifierNext]_notifyVars

-----------------------------------------------------------------------------
Accepted == {"sending", "sent", "failed"}

SameKey(i, j) == sends[i].kind = sends[j].kind /\ sends[i].subject = sends[j].subject

\* Any two calls of a key that were let through are the interval apart.
SpacedApart ==
  \A i, j \in DOMAIN sends :
    i # j /\ SameKey(i, j) /\ sends[i].state \in Accepted /\ sends[j].state \in Accepted
    => \/ sends[i].at + MinInterval <= sends[j].at
       \/ sends[j].at + MinInterval <= sends[i].at

\* A call is refused only within the interval after one of its key that was let
\* through: refusals do not put the next one off.
RefusedRecently ==
  \A i \in DOMAIN sends :
    sends[i].state = "refused" =>
      \E j \in DOMAIN sends :
        /\ SameKey(i, j) /\ sends[j].state \in Accepted
        /\ sends[j].at <= sends[i].at /\ sends[i].at < sends[j].at + MinInterval

\* What the limiter remembers is the newest of the calls it let through.
LastIsNewest ==
  \A k \in Kind, s \in Subject :
    LET times == {sends[i].at : i \in {j \in DOMAIN sends :
                    sends[j].kind = k /\ sends[j].subject = s /\ sends[j].state \in Accepted}}
    IN  /\ lastSent[k][s] <= now
        /\ lastSent[k][s] # 0 => lastSent[k][s] \in times
        /\ \A t \in times : t <= lastSent[k][s]

NotifierTypeOK ==
  /\ notifiers \in Seq(Kind) /\ now \in 1..MaxTime
  /\ lastSent \in [Kind -> [Subject -> 0..MaxTime]]
  /\ sends \in Seq([kind : Kind, subject : Subject, status : Outcome, at : 1..MaxTime,
                    state : {"asked", "refused"} \cup Accepted])

(***************************************************************************)
(* However calls overlap and fail: what is let through under a key is      *)
(* spaced apart, and a call is refused only because of a recent one.  (The *)
(* recent one need not have arrived: a send that failed holds back its     *)
(* retry and the step's next status as one that succeeded does.)           *)
(***************************************************************************)
WindowKept == NotifierTypeOK /\ LastIsNewest /\ SpacedApart /\ RefusedRecently

-----------------------------------------------------------------------------
(***************************************************************************)
(* The texts.  A text is a sequence of characters, a template a sequence   *)
(* of characters and of placeholders.                                      *)
(***************************************************************************)
\* The characters that MarkdownV2 gives a meaning, one standing for all in the list.
Special == {"*"}

EscapeMarkdown(text) ==
  FlattenSeq([i \in DOMAIN text |-> IF text[i] \in Special THEN <<"\\", text[i]>> ELSE <<text[i]>>])

\* Every occurrence of one placeholder, also in what an earlier one was replaced by.
Substitute(text, placeholder, value) ==
  FlattenSeq([i \in DOMAIN text |-> IF text[i] = placeholder THEN value ELSE <<text[i]>>])

\* The fixed fields in their order, a message only where there is one, and then the
\* data in the order the map yields its keys.
RenderTemplate(template, fields, message, data, order) ==
  LET fixed == Substitute(Substitute(Substitute(template, "{workflow}", fields.workflow),
                                     "{step}", fields.step),
                          "{status}", fields.status)
      withMessage == IF message = "none" THEN fixed
                                         ELSE Substitute(fixed, "{message}", message)
  IN  FoldLeft(LAMBDA text, key : Substitute(text, key, data[key]), withMessage, order)
=============================================================================
