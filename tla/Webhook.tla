------------------------------ MODULE Webhook ------------------------------
(***************************************************************************)
(* POST /webhook/github: a signed request of a repository becomes a        *)
(* message on Discord, at most one per window and repository.  The limiter *)
(* is asked before anybody looks at what the request is about.             *)
(***************************************************************************)
EXTENDS Naturals, Sequences, FiniteSets

CONSTANTS
  Repos,
  WindowLength,
  LastTime,      \* bound: the clock stops there
  MaxRequests,   \* bound: requests
  MaxStarts      \* bound: starts of the process

WebhookAssumption ==
  WindowLength \in Nat /\ {LastTime, MaxRequests, MaxStarts} \subseteq Nat

VARIABLES
  now, up,
  channel,     \* a Discord channel is configured
  lastSeenAt,  \* the limiter: the last event of each repository it let pass
  deliveries,  \* messages on their way to Discord, each by repository and time
  responses,   \* the status codes that requests were answered with
  accepted,      \* history: the events this process let pass
  decision,      \* history: its last decision, and when
  requests, starts   \* counters of the bounds

vars == <<now, up, channel, lastSeenAt, deliveries, responses, accepted, decision, requests, starts>>

\* What a request turns out to be, in the order in which that is found out.
Kinds == {"unsigned", "garbled", "anonymous", "malformed", "ignored", "wanted"}

NoneSeen == [r \in {} |-> 0]
NoneAccepted == [r \in Repos |-> <<>>]
NoDecision == <<>>

Init ==
  /\ now = 0 /\ up = FALSE /\ channel = FALSE
  /\ lastSeenAt = NoneSeen /\ deliveries = {} /\ responses = {}
  /\ accepted = NoneAccepted /\ decision = NoDecision
  /\ requests = 0 /\ starts = 0

Respond(code) == responses' = responses \cup {code}

Request == up /\ requests < MaxRequests /\ requests' = requests + 1

\* A bad body or signature, no JSON, no event header.
Reject(kind) ==
  /\ Request /\ kind \in {"unsigned", "garbled"}
  /\ Respond(IF kind = "unsigned" THEN 401 ELSE 400)
  /\ UNCHANGED <<now, up, channel, lastSeenAt, deliveries, accepted, decision, starts>>

\* Without a repository the limiter is not asked, and the dispatcher declines.
Anonymous ==
  /\ Request /\ Respond(202)
  /\ UNCHANGED <<now, up, channel, lastSeenAt, deliveries, accepted, decision, starts>>

\* GitHubWebhookRateLimiter.check
Throttled(r) == r \in DOMAIN lastSeenAt /\ now < lastSeenAt[r] + WindowLength

Stamp(r) == lastSeenAt' = [s \in DOMAIN lastSeenAt \cup {r} |-> IF s = r THEN now ELSE lastSeenAt[s]]

Refuse(r) ==
  /\ Request /\ Throttled(r)
  /\ Respond(429)
  /\ decision' = <<r, FALSE, now>>
  /\ UNCHANGED <<now, up, channel, lastSeenAt, deliveries, accepted, starts>>

Accept(r, kind) ==
  /\ Request /\ ~Throttled(r)
  /\ Stamp(r)
  /\ accepted' = [accepted EXCEPT ![r] = Append(@, now)]
  /\ decision' = <<r, TRUE, now>>
  /\ \/ kind \in {"malformed", "ignored"} /\ Respond(202) /\ UNCHANGED deliveries
     \/ kind = "wanted" /\ ~channel /\ Respond(503) /\ UNCHANGED deliveries
     \/ kind = "wanted" /\ channel /\ deliveries' = deliveries \cup {<<r, now>>} /\ UNCHANGED responses
  /\ UNCHANGED <<now, up, channel, starts>>

\* deliver resolves or throws.
Delivered(d) ==
  /\ up /\ deliveries' = deliveries \ {d}
  /\ \E code \in {200, 502} : Respond(code)
  /\ UNCHANGED <<now, up, channel, lastSeenAt, accepted, decision, requests, starts>>

Start ==
  /\ ~up /\ starts < MaxStarts /\ starts' = starts + 1
  /\ up' = TRUE /\ channel' \in BOOLEAN
  /\ UNCHANGED <<now, lastSeenAt, deliveries, responses, accepted, decision, requests>>

Stop ==
  /\ up /\ up' = FALSE
  /\ lastSeenAt' = NoneSeen /\ deliveries' = {} /\ accepted' = NoneAccepted /\ decision' = NoDecision
  /\ UNCHANGED <<now, channel, responses, requests, starts>>

Tick ==
  /\ now < LastTime /\ now' = now + 1
  /\ UNCHANGED <<up, channel, lastSeenAt, deliveries, responses, accepted, decision, requests, starts>>

Next ==
  \/ \E kind \in Kinds : Reject(kind)
  \/ Anonymous
  \/ \E r \in Repos : Refuse(r) \/ \E kind \in {"malformed", "ignored", "wanted"} : Accept(r, kind)
  \/ \E d \in deliveries : Delivered(d)
  \/ Start \/ Stop \/ Tick

Spec == Init /\ [][Next]_vars

-----------------------------------------------------------------------------
(* Properties.                                                             *)

(* The variables have their types.                                         *)
TypeOK ==
  /\ up \in BOOLEAN /\ channel \in BOOLEAN
  /\ DOMAIN lastSeenAt \subseteq Repos /\ \A r \in DOMAIN lastSeenAt : lastSeenAt[r] \in 0 .. now
  /\ deliveries \subseteq Repos \X Nat
  /\ responses \subseteq {200, 202, 400, 401, 429, 502, 503}
  /\ accepted \in [Repos -> Seq(Nat)]
  /\ decision = NoDecision \/ decision \in Repos \X BOOLEAN \X Nat
  /\ {now, requests, starts} \subseteq Nat

Limit == INSTANCE RateLimit WITH Keys <- Repos, MaxPerWindow <- 1, passed <- accepted, answer <- decision

(* The limiter, which keeps one time per repository, decides as one that   *)
(* remembers every event and allows one per window.                        *)
Limited == Limit!Spec

=============================================================================
