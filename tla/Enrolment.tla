------------------------------ MODULE Enrolment -----------------------------
(***************************************************************************)
(* How a runner host gets its session tokens: internal/enrol, the enrol    *)
(* and session handlers and the middleware of internal/runnerapi, the      *)
(* agent's Credentials, and the table runner_hosts.  A signed request may  *)
(* arrive late, twice or never; the host's clock is off by a constant.     *)
(* One unit of time is two minutes.                                        *)
(***************************************************************************)
EXTENDS Integers, FiniteSets

CONSTANTS
  Host,          \* fingerprints
  HostSkew,      \* how far a host's clock may be from the control plane's
  MaxClockSkew,  \* the replay window
  SessionTTL,    \* how long a session token lasts
  RenewBefore,   \* what is left of a token when the agent replaces it
  MaxPending,    \* MaxPendingHosts
  MaxNonce,      \* bound on the requests that are signed
  MaxStarts,     \* bound on the control plane's starts
  MaxMinutes     \* bound on the clock

ASSUME EnrolmentAssumption ==
  /\ HostSkew \subseteq Int
  /\ {MaxClockSkew, SessionTTL, RenewBefore, MaxPending, MaxNonce, MaxStarts, MaxMinutes} \subseteq Nat
  /\ MaxClockSkew <= RenewBefore /\ RenewBefore < SessionTTL

VARIABLES
  hosts,     \* runner_hosts: the state of each fingerprint, "none" without a row
  enrolling, \* enrolments past the capacity check
  nonces,      \* Sessions.nonces: nonces, with the time they were checked at
  signed,    \* signed requests, any of which may arrive at any time, and again
  answers,   \* session tokens on their way to their runner
  cached,    \* Credentials.token: its expiry, 0 without one, and the key that signed it
  skew,      \* each host's clock minus the control plane's
  minute,    \* the control plane's clock
  signingKey,\* the key tokens are signed with: how often the control plane started
  honoured   \* requests served since the control plane started, and those served twice

enrolVars == <<hosts, enrolling, nonces, signed, answers, cached, skew, minute, signingKey, honoured>>

NoToken == [expires |-> 0, key |-> 0]

EnrolInit ==
  /\ hosts = [h \in Host |-> "none"]
  /\ enrolling = {} /\ nonces = {} /\ signed = {} /\ answers = {}
  /\ cached = [h \in Host |-> NoToken] /\ signingKey = 1
  /\ skew \in [Host -> HostSkew]
  /\ minute = SessionTTL
  /\ honoured = [once |-> {}, twice |-> {}]

HostClock(h) == minute + skew[h]

\* Credentials.Enrol and the first half of Token: a message with the host's time
\* and a nonce.
Sign(h, purpose) ==
  /\ Cardinality(signed) < MaxNonce
  /\ purpose = "session" => HostClock(h) + RenewBefore >= cached[h].expires
  /\ signed' = signed \union
       {[host |-> h, purpose |-> purpose, at |-> HostClock(h), nonce |-> Cardinality(signed)]}
  /\ UNCHANGED <<hosts, enrolling, nonces, answers, cached, skew, minute, signingKey, honoured>>

\* A slip to guard against: a nonce is forgotten when its request is as old
\* as the skew, and not when it can no longer be fresh.
EvictShort == {s \in nonces : minute - s.since <= MaxClockSkew}

\* CheckFreshness drops the nonces whose requests can no longer be fresh, then
\* records this one.
Evict == {s \in nonces : minute - s.since <= 2 * MaxClockSkew}

Fresh(m) ==
  /\ m.at - minute \in -MaxClockSkew .. MaxClockSkew
  /\ \A s \in Evict : s.msg # m
Honour(m) ==
  /\ Fresh(m)
  /\ nonces' = Evict \union {[msg |-> m, since |-> minute]}
  /\ honoured' = [once  |-> honoured.once \union {m},
                  twice |-> honoured.twice \union ({m} \intersect honoured.once)]

\* enrol: a host with a row is let through, a new one only while fewer than
\* MaxPending wait.
PendingHosts == {h \in Host : hosts[h] = "pending"}
HandleEnrol(m) ==
  /\ m.purpose = "enrol"
  /\ Honour(m)
  /\ IF hosts[m.host] # "none" \/ Cardinality(PendingHosts) < MaxPending
     THEN enrolling' = enrolling \union {m.host} ELSE UNCHANGED enrolling
  /\ UNCHANGED <<hosts, signed, answers, cached, skew, minute, signingKey>>

\* EnrolRunnerHost: a row that is there is left as it is.
EnrolRunnerHost(h) ==
  /\ h \in enrolling
  /\ enrolling' = enrolling \ {h}
  /\ hosts' = IF hosts[h] = "none" THEN [hosts EXCEPT ![h] = "pending"] ELSE hosts
  /\ UNCHANGED <<nonces, signed, answers, cached, skew, minute, signingKey, honoured>>

\* session: the row, the freshness and the signature, then the approval.
HandleSession(m) ==
  /\ m.purpose = "session"
  /\ hosts[m.host] # "none"
  /\ Honour(m)
  /\ answers' = IF hosts[m.host] = "approved"
                THEN answers \union {[host |-> m.host, expires |-> minute + SessionTTL,
                                      key |-> signingKey]}
                ELSE answers
  /\ UNCHANGED <<hosts, enrolling, signed, cached, skew, minute, signingKey>>

\* The second half of Token: the last answer to arrive is kept, whichever call
\* asked first.
StoreToken(a) ==
  /\ answers' = answers \ {a}
  /\ cached' = [cached EXCEPT ![a.host] = [expires |-> a.expires, key |-> a.key]]
  /\ UNCHANGED <<hosts, enrolling, nonces, signed, skew, minute, signingKey, honoured>>

LoseAnswer(a) ==
  /\ answers' = answers \ {a}
  /\ UNCHANGED <<hosts, enrolling, nonces, signed, cached, skew, minute, signingKey, honoured>>

\* A slip to guard against: a token is used until it expires.
TokenFreshLate(h) == HostClock(h) < cached[h].expires

\* A call with the cached token.  A token the middleware does not accept is
\* dropped, and the next call signs for a new one.
TokenFresh(h) == HostClock(h) + RenewBefore < cached[h].expires
Parses(h) == cached[h].key = signingKey /\ minute < cached[h].expires

CallRefused(h) ==
  /\ TokenFresh(h) /\ ~Parses(h)
  /\ cached' = [cached EXCEPT ![h] = NoToken]
  /\ UNCHANGED <<hosts, enrolling, nonces, signed, answers, skew, minute, signingKey, honoured>>

\* approveRunnerHost, revokeRunnerHost: any row, in any state.
SetRunnerHostState(h, state) ==
  /\ hosts[h] # "none" /\ hosts[h] # state
  /\ hosts' = [hosts EXCEPT ![h] = state]
  /\ UNCHANGED <<enrolling, nonces, signed, answers, cached, skew, minute, signingKey, honoured>>

EnrolTick ==
  /\ minute < MaxMinutes
  /\ minute' = minute + 1
  /\ UNCHANGED <<hosts, enrolling, nonces, signed, answers, cached, skew, signingKey, honoured>>

\* The control plane restarts: it forgets the nonces, and the key it signed
\* tokens with.
EnrolRestart ==
  /\ signingKey < MaxStarts
  /\ signingKey' = signingKey + 1
  /\ nonces' = {} /\ enrolling' = {}
  /\ honoured' = [honoured EXCEPT !.once = {}]
  /\ UNCHANGED <<hosts, signed, answers, cached, skew, minute>>

EnrolNext ==
  \/ \E h \in Host, purpose \in {"enrol", "session"} : Sign(h, purpose)
  \/ \E m \in signed : HandleEnrol(m)
  \/ \E h \in Host : EnrolRunnerHost(h)
  \/ \E m \in signed : HandleSession(m)
  \/ \E a \in answers : StoreToken(a)
  \/ \E a \in answers : LoseAnswer(a)
  \/ \E h \in Host : CallRefused(h)
  \/ \E h \in Host, state \in {"approved", "revoked"} : SetRunnerHostState(h, state)
  \/ EnrolTick
  \/ EnrolRestart

\* One signed request is served at most once, however often and however late it
\* arrives and whatever the host's clock says, as long as the control plane
\* keeps running: a nonce is forgotten only when its request is stale for good.
HonouredOnce == honoured.twice = {}

\* A token the agent still takes for fresh is one the control plane accepts,
\* unless it was signed before a restart: the margin the agent renews with
\* covers every clock that can have a session at all.
TokenAccepted ==
  \A h \in Host : TokenFresh(h) /\ cached[h].key = signingKey => Parses(h)
=============================================================================
