--------------------------- MODULE ErrorForwarder ---------------------------
(***************************************************************************)
(* Errors nobody caught are reported to a channel, each stack a few times  *)
(* per window.  An uncaught exception ends the process when its report is  *)
(* over, or five seconds later.                                            *)
(***************************************************************************)
EXTENDS Naturals, Sequences

CONSTANTS
  Stacks,        \* hashes of stacks
  WindowLength, MaxPerWindow,
  Deadline,      \* after which an uncaught exception ends the process
  LastTime,      \* bound: the clock stops there
  MaxErrors,     \* bound: errors
  MaxStarts      \* bound: starts of the process

ErrorForwarderAssumption ==
  /\ {WindowLength, MaxPerWindow, Deadline} \subseteq Nat \ {0}
  /\ {LastTime, MaxErrors, MaxStarts} \subseteq Nat

VARIABLES
  now, up,
  settings,  \* whether a channel is configured, whether an uncaught exception is fatal
  buckets,   \* the limiter: times of the hits of each stack
  reports,   \* embeds on their way to Discord
  exitAt,    \* when the process ends at the latest, or 0
  passed,    \* history: the hits this process let pass
  answer,    \* history: its last decision, and when
  errors, starts   \* counters of the bounds

vars == <<now, up, settings, buckets, reports, exitAt, passed, answer, errors, starts>>

NoHits == [k \in Stacks |-> <<>>]
NoAnswer == <<>>

Init ==
  /\ now = 0 /\ up = FALSE
  /\ settings = [configured |-> FALSE, fatal |-> FALSE]
  /\ buckets = NoHits /\ reports = {} /\ exitAt = 0
  /\ passed = NoHits /\ answer = NoAnswer
  /\ errors = 0 /\ starts = 0

\* StackRateLimiter.hit: the hits that are younger than the window, in their
\* order.
Fresh(k) ==
  LET hits == buckets[k]
      kept[i \in 0 .. Len(hits)] ==
        IF i = 0 THEN <<>>
        ELSE IF hits[i] + WindowLength > now THEN Append(kept[i - 1], hits[i])
        ELSE kept[i - 1]
  IN kept[Len(hits)]
Permitted(k) == Len(Fresh(k)) < MaxPerWindow

\* Mutant: a hit that is denied is remembered as well.
HitRemembered(k) ==
  /\ buckets' = [buckets EXCEPT ![k] = Append(Fresh(k), now)]
  /\ passed' = IF Permitted(k) THEN [passed EXCEPT ![k] = Append(@, now)] ELSE passed
  /\ answer' = <<k, Permitted(k), now>>

Hit(k) ==
  /\ buckets' = [buckets EXCEPT ![k] = IF Permitted(k) THEN Append(Fresh(k), now) ELSE Fresh(k)]
  /\ passed' = IF Permitted(k) THEN [passed EXCEPT ![k] = Append(@, now)] ELSE passed
  /\ answer' = <<k, Permitted(k), now>>

\* An error that is not sent, for the limit or the lack of a channel, is only
\* logged, and its report is over at once.
Sends(k) == Permitted(k) /\ settings.configured

Report(k, fatal) ==
  reports' = IF Sends(k)
             THEN reports \cup {[stack |-> k, number |-> Len(passed[k]) + 1, fatal |-> fatal]}
             ELSE reports

\* Nothing comes between the end of a fatal report and the exit.
Error == up /\ (exitAt = 0 \/ now < exitAt) /\ errors < MaxErrors /\ errors' = errors + 1

UnhandledRejection(k) ==
  /\ Error /\ Hit(k) /\ Report(k, FALSE)
  /\ UNCHANGED <<now, up, settings, exitAt, starts>>

Earlier(s, t) == IF s # 0 /\ s < t THEN s ELSE t

UncaughtException(k) ==
  /\ Error /\ Hit(k) /\ Report(k, settings.fatal)
  /\ exitAt' = IF ~settings.fatal THEN exitAt
               ELSE Earlier(exitAt, IF Sends(k) THEN now + Deadline ELSE now)
  /\ UNCHANGED <<now, up, settings, starts>>

\* process.exit: reports still on their way are lost.
Exit ==
  /\ up' = FALSE /\ exitAt' = 0 /\ reports' = {}
  /\ buckets' = NoHits /\ passed' = NoHits /\ answer' = NoAnswer
  /\ UNCHANGED <<now, settings, errors, starts>>

\* A report is over, delivered or not.
Reported(r) ==
  /\ up /\ r \in reports
  /\ IF r.fatal THEN Exit
     ELSE /\ reports' = reports \ {r}
          /\ UNCHANGED <<now, up, settings, buckets, exitAt, passed, answer, errors, starts>>

DeadlinePasses == up /\ exitAt # 0 /\ now >= exitAt /\ Exit

Start ==
  /\ ~up /\ starts < MaxStarts /\ starts' = starts + 1
  /\ up' = TRUE
  /\ settings' \in [configured : BOOLEAN, fatal : BOOLEAN]
  /\ UNCHANGED <<now, buckets, reports, exitAt, passed, answer, errors>>

Tick ==
  /\ now < LastTime /\ now' = now + 1
  /\ exitAt = 0 \/ now < exitAt
  /\ UNCHANGED <<up, settings, buckets, reports, exitAt, passed, answer, errors, starts>>

Next ==
  \/ \E k \in Stacks : UnhandledRejection(k) \/ UncaughtException(k)
  \/ \E r \in reports : Reported(r)
  \/ DeadlinePasses \/ Start \/ Tick

Spec == Init /\ [][Next]_vars

-----------------------------------------------------------------------------
(* Properties.                                                             *)

(* The variables have their types.                                         *)
TypeOK ==
  /\ up \in BOOLEAN /\ settings \in [configured : BOOLEAN, fatal : BOOLEAN]
  /\ buckets \in [Stacks -> Seq(Nat)] /\ passed \in [Stacks -> Seq(Nat)]
  /\ \A r \in reports : r.stack \in Stacks /\ r.number \in Nat /\ r.fatal \in BOOLEAN
  /\ answer = NoAnswer \/ answer \in Stacks \X BOOLEAN \X Nat
  /\ {now, exitAt, errors, starts} \subseteq Nat

Limit == INSTANCE RateLimit WITH Keys <- Stacks

(* The limiter, which forgets the hits that have left the window, decides  *)
(* as one that remembers them all.  A hit leaves when it is as old as the  *)
(* window is long, which is when resetsAt says it does; the comment at the *)
(* class (`[now - windowMs, now]`) has it stay for that one moment.        *)
Limited == Limit!Spec

=============================================================================
