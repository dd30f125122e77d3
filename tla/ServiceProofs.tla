---------------------------- MODULE ServiceProofs ---------------------------
(***************************************************************************)
(* The services around the scheduler, for every value of their constants:  *)
(* any number of hosts, callers, artifacts and updates, and bounds as far  *)
(* away as one likes.                                                      *)
(***************************************************************************)
EXTENDS LogStore, Ingest, GitHubClient, Enrolment, Artifacts, ChecksReporter, IdTokens,
        CacheService, LoopLemmas, SequenceTheorems

-----------------------------------------------------------------------------
(***************************************************************************)
(* The tokens of the GitHub client.  A request on its way left with more   *)
(* than the refresh window on its token: from the cache because that is    *)
(* what the cache asks, from a mint because the mint itself took no longer *)
(* than the slowest exchange.                                              *)
(***************************************************************************)
Fields == {"at", "since", "tok", "attempt", "wake", "page"}

CallOK(call) ==
  /\ DOMAIN call = Fields
  /\ call.at \in {"minting", "sending"} =>
       /\ call.since \in Nat
       /\ call.since <= hubClock /\ hubClock - call.since <= SlowestCall
  /\ call.at = "sending" => call.tok \in Nat /\ call.since + RefreshWindow < call.tok

HubInv ==
  /\ hubClock \in Nat /\ tokenCache \in Nat
  /\ DOMAIN calls = Caller
  /\ \A c \in Caller : CallOK(calls[c])

\* A window that outlasts the slowest exchange is a token that outlives it.
LEMMA WindowOutlasts == HubInv => TokenOutlivesCall
  BY HubAssumption DEF HubInv, CallOK, TokenOutlivesCall

\* The first state: nobody calls.
LEMMA HubStart == HubInit => HubInv
  BY HubAssumption DEF HubInit, HubInv, CallOK, FirstAttempt, Fields

\* A step that writes one call and leaves the clock.
LEMMA OneCallWritten ==
  ASSUME HubInv, NEW c \in Caller, NEW call, CallOK(call),
         calls' = [calls EXCEPT ![c] = call], UNCHANGED hubClock, tokenCache' \in Nat
  PROVE  HubInv'
  BY DEF HubInv, CallOK

\* A call that has not got as far as an exchange.
LEMMA NoExchange ==
  ASSUME HubInv, NEW c \in Caller, NEW call, DOMAIN call = Fields,
         call.at \notin {"minting", "sending"},
         calls' = [calls EXCEPT ![c] = call], UNCHANGED <<hubClock, tokenCache>>
  PROVE  HubInv'
<1>1. CallOK(call) /\ tokenCache' \in Nat
  BY DEF CallOK, HubInv
<1> QED
  BY <1>1, OneCallWritten

\* A call that is over, and a call that begins.
LEMMA OverKeeps ==
  ASSUME HubInv, NEW c \in Caller, Over(c), UNCHANGED <<hubClock, tokenCache>>
  PROVE  HubInv'
<1>1. calls' = [calls EXCEPT ![c] = [FirstAttempt EXCEPT !.at = "over", !.page = 0]]
  BY DEF Over
<1>2. /\ DOMAIN [FirstAttempt EXCEPT !.at = "over", !.page = 0] = Fields
      /\ [FirstAttempt EXCEPT !.at = "over", !.page = 0].at = "over"
  BY DEF FirstAttempt, Fields
<1> QED
  BY <1>1, <1>2, NoExchange

\* A request goes out with a token that has more than the window left.
LEMMA SendingKeeps ==
  ASSUME HubInv, NEW c \in Caller, NEW tok \in Nat, hubClock + RefreshWindow < tok,
         Sending(c, tok), UNCHANGED hubClock, tokenCache' \in Nat
  PROVE  HubInv'
<1> DEFINE call == [calls[c] EXCEPT !.at = "sending", !.since = hubClock, !.tok = tok]
<1>1. calls' = [calls EXCEPT ![c] = call]
  BY DEF Sending, HubInv
<1>2. DOMAIN calls[c] = Fields
  BY DEF HubInv, CallOK
<1>3. DOMAIN call = Fields /\ call.at = "sending" /\ call.since = hubClock /\ call.tok = tok
  BY <1>2 DEF Fields
<1> HIDE DEF call
<1>4. CallOK(call)
  BY <1>3, HubAssumption DEF CallOK, HubInv
<1> QED
  BY <1>1, <1>4, OneCallWritten

LEMMA HubStep == HubInv /\ [HubNext]_hubVars => HubInv'
<1> SUFFICES ASSUME HubInv, [HubNext]_hubVars
             PROVE  HubInv'
  OBVIOUS
<1>1. CASE UNCHANGED hubVars
  BY <1>1 DEF hubVars, HubInv, CallOK
<1>2. CASE HubTick
  <2>1. hubClock' = hubClock + 1 /\ UNCHANGED <<tokenCache, calls>>
    BY <1>2 DEF HubTick
  <2>2. ASSUME NEW c \in Caller PROVE CallOK(calls[c])'
    <3>1. calls[c].at \in {"minting", "sending"} => hubClock - calls[c].since < SlowestCall
      BY <1>2 DEF HubTick
    <3> QED
      BY <2>1, <3>1, HubAssumption DEF HubInv, CallOK
  <2> QED
    BY <2>1, <2>2 DEF HubInv
<1>3. ASSUME NEW c \in Caller,
             \/ Call(c) \/ TakeToken(c) \/ KeepToken(c) \/ MintFails(c)
             \/ Succeed(c) \/ FailRetryably(c) \/ FailForGood(c) \/ Wake(c)
      PROVE  HubInv'
  <2>0. DOMAIN calls[c] = Fields /\ CallOK(calls[c]) /\ DOMAIN calls = Caller /\ hubClock \in Nat
    BY DEF HubInv, CallOK
  <2>1. CASE Call(c)
    <3>1. calls' = [calls EXCEPT ![c] = [FirstAttempt EXCEPT !.since = hubClock]]
      BY <2>1 DEF Call
    <3>2. /\ DOMAIN [FirstAttempt EXCEPT !.since = hubClock] = Fields
          /\ [FirstAttempt EXCEPT !.since = hubClock].at = "token"
      BY DEF FirstAttempt, Fields
    <3> QED
      BY <2>1, <3>1, <3>2, NoExchange DEF Call
  <2>2. CASE TakeToken(c)
    <3>1. UNCHANGED <<hubClock, tokenCache>>
      BY <2>2 DEF TakeToken
    <3>2. CASE CacheFresh
      BY <2>2, <3>1, <3>2, SendingKeeps DEF TakeToken, CacheFresh, HubInv
    <3>3. CASE ~CacheFresh
      <4> DEFINE call == [calls[c] EXCEPT !.at = "minting", !.since = hubClock]
      <4>1. calls' = [calls EXCEPT ![c] = call]
        BY <2>2, <3>3, <2>0 DEF TakeToken
      <4>2. DOMAIN call = Fields /\ call.at = "minting" /\ call.since = hubClock
        BY <2>0 DEF Fields
      <4> HIDE DEF call
      <4>3. CallOK(call)
        BY <4>2, <2>0, HubAssumption DEF CallOK
      <4> QED
        BY <4>1, <4>3, <3>1, OneCallWritten DEF HubInv
    <3> QED
      BY <3>2, <3>3
  <2>3. CASE KeepToken(c)
    <3>1. PICK minted \in calls[c].since .. hubClock :
            tokenCache' = minted + TokenLife /\ Sending(c, minted + TokenLife)
      BY <2>3 DEF KeepToken
    <3>2. /\ calls[c].at = "minting" /\ UNCHANGED hubClock
      BY <2>3 DEF KeepToken
    <3>3. minted + TokenLife \in Nat /\ hubClock + RefreshWindow < minted + TokenLife
      BY <2>0, <3>2, HubAssumption DEF CallOK
    <3> QED
      BY <3>1, <3>2, <3>3, SendingKeeps
  <2>5. CASE Succeed(c)
    <3>1. CASE Over(c)
      BY <2>5, <3>1, OverKeeps DEF Succeed
    <3>2. CASE calls' = [calls EXCEPT ![c] = [FirstAttempt EXCEPT !.page = calls[c].page + 1]]
      <4> DEFINE call == [FirstAttempt EXCEPT !.page = calls[c].page + 1]
      <4>1. DOMAIN call = Fields /\ call.at = "token"
        BY DEF FirstAttempt, Fields
      <4> HIDE DEF call
      <4> QED
        BY <2>5, <3>2, <4>1, NoExchange DEF Succeed, call
    <3> QED
      BY <2>5, <3>1, <3>2 DEF Succeed
  <2>4. ASSUME TryAgain(c), UNCHANGED <<hubClock, tokenCache>>
        PROVE  HubInv'
    <3>1. CASE Over(c)
      BY <2>4, <3>1, OverKeeps
    <3>2. ASSUME NEW named \in NamedWait,
                 calls' = [calls EXCEPT ![c].at = "asleep", ![c].tok = 0, ![c].attempt = @ + 1,
                             ![c].wake = hubClock + Backoff(calls[c].attempt, named)]
          PROVE  HubInv'
      <4> DEFINE wake == hubClock + Backoff(calls[c].attempt, named)
                 call == [calls[c] EXCEPT !.at = "asleep", !.tok = 0, !.attempt = calls[c].attempt + 1,
                                          !.wake = wake]
      <4> HIDE DEF wake
      <4>1. calls' = [calls EXCEPT ![c] = call]
        BY <3>2, <2>0 DEF wake, Fields
      <4>2. DOMAIN call = Fields /\ call.at = "asleep"
        BY <2>0 DEF Fields
      <4> HIDE DEF call
      <4> QED
        BY <2>4, <4>1, <4>2, NoExchange
    <3> QED
      BY <2>4, <3>1, <3>2 DEF TryAgain
  <2>6. CASE FailRetryably(c) \/ MintFails(c)
    BY <2>4, <2>6, OverKeeps DEF FailRetryably, MintFails
  <2>7. CASE FailForGood(c)
    BY <2>7, OverKeeps DEF FailForGood
  <2>8. CASE Wake(c)
    <3>1. calls' = [calls EXCEPT ![c] = [calls[c] EXCEPT !.at = "token"]]
      BY <2>8 DEF Wake
    <3>2. DOMAIN [calls[c] EXCEPT !.at = "token"] = Fields /\ [calls[c] EXCEPT !.at = "token"].at = "token"
      BY <2>0 DEF Fields
    <3> QED
      BY <2>8, <3>1, <3>2, NoExchange DEF Wake
  <2> QED
    BY <1>3, <2>1, <2>2, <2>3, <2>5, <2>6, <2>7, <2>8
<1> QED
  BY <1>1, <1>2, <1>3 DEF HubNext

\* No request is on its way with a token that has run out, however long the
\* retries, the pages and the mints before it took (app.go,
\* ScopedInstallationToken; client.go, Do).
THEOREM TokensOutliveCalls == HubInit /\ [][HubNext]_hubVars => []TokenOutlivesCall
  BY HubStart, HubStep, WindowOutlasts, PTL

-----------------------------------------------------------------------------
(***************************************************************************)
(* Enrolment.  A request that was served once is remembered by its nonce,  *)
(* or it is stale for good: a nonce goes only two windows after it came,   *)
(* and no request is served whose time lies more than one window ahead.    *)
(***************************************************************************)
Stale(m) == m.at < minute - MaxClockSkew
Remembered(m) == \E s \in nonces : s.msg = m

IsMessage(m) == m.host \in Host /\ m.at \in Int

ReplayInv ==
  /\ minute \in Nat
  /\ \A m \in signed \cup honoured.once : IsMessage(m)
  /\ DOMAIN honoured = {"once", "twice"}
  /\ \A s \in nonces : IsMessage(s.msg) /\ s.since \in Int /\ s.msg.at <= s.since + MaxClockSkew
  /\ \A m \in honoured.once : Stale(m) \/ Remembered(m)
  /\ HonouredOnce

\* A host whose clock is further behind than the window gets no session, and
\* the window is inside the margin the agent renews with.
Bounded(h) == skew[h] >= -MaxClockSkew

SessionInv ==
  /\ skew \in [Host -> HostSkew]
  /\ signingKey \in Nat \ {0}
  /\ \A m \in signed : m.at <= minute + skew[m.host]
  /\ \A a \in answers : /\ a.host \in Host /\ Bounded(a.host)
                        /\ a.expires \in Nat /\ a.key \in Nat
  /\ DOMAIN cached = Host
  /\ \A h \in Host : /\ cached[h].expires \in Nat /\ cached[h].key \in Nat
                     /\ cached[h].key = 0 \/ Bounded(h)

EnrolInv == ReplayInv /\ SessionInv

LEMMA EnrolNumbers ==
  /\ HostSkew \subseteq Int
  /\ MaxClockSkew \in Nat /\ SessionTTL \in Nat /\ RenewBefore \in Nat
  /\ MaxClockSkew <= RenewBefore /\ RenewBefore < SessionTTL
  BY EnrolmentAssumption

\* A token the agent takes for fresh is one the control plane accepts.
LEMMA FreshAccepted == EnrolInv => TokenAccepted
<1> SUFFICES ASSUME EnrolInv, NEW h \in Host, TokenFresh(h), cached[h].key = signingKey
             PROVE  Parses(h)
  BY DEF TokenAccepted
<1>1. Bounded(h) /\ skew[h] \in Int /\ minute \in Nat /\ cached[h].expires \in Nat
  BY EnrolNumbers DEF EnrolInv, SessionInv, ReplayInv
<1>2. minute + skew[h] + RenewBefore < cached[h].expires
  BY DEF TokenFresh, HostClock
<1> QED
  BY <1>1, <1>2, EnrolNumbers DEF Bounded, Parses

\* The empty registry.
LEMMA EnrolStart == EnrolInit => EnrolInv
<1> SUFFICES ASSUME EnrolInit PROVE ReplayInv /\ SessionInv
  BY DEF EnrolInv
<1>1. ReplayInv
  BY EnrolNumbers DEF EnrolInit, ReplayInv, HonouredOnce
<1>2. SessionInv
  BY EnrolNumbers DEF EnrolInit, SessionInv, NoToken
<1> QED
  BY <1>1, <1>2

\* Serving a request keeps what is remembered of those served before, and it
\* was not one of them.
LEMMA HonourKeeps ==
  ASSUME ReplayInv, NEW m \in signed, Honour(m), UNCHANGED <<signed, minute>>
  PROVE  ReplayInv'
<1>0. /\ IsMessage(m) /\ m.at \in Int /\ minute \in Nat
      /\ m.at - minute \in -MaxClockSkew .. MaxClockSkew
      /\ \A s \in Evict : s.msg # m
      /\ nonces' = Evict \cup {[msg |-> m, since |-> minute]}
      /\ honoured' = [once  |-> honoured.once \cup {m},
                      twice |-> honoured.twice \cup ({m} \cap honoured.once)]
  BY DEF ReplayInv, Honour, Fresh, IsMessage
<1>1. /\ m.at <= minute + MaxClockSkew /\ ~Stale(m)
  BY <1>0, EnrolNumbers DEF Stale
<1>2. ASSUME NEW o \in honoured.once, ~Stale(o)
      PROVE  \E s \in Evict : s.msg = o
  <2>1. PICK s \in nonces : s.msg = o
    BY <1>2 DEF ReplayInv, Remembered
  <2>2. /\ s.since \in Int /\ o.at \in Int /\ o.at <= s.since + MaxClockSkew
        /\ o.at >= minute - MaxClockSkew
    BY <2>1, <1>0, <1>2, EnrolNumbers DEF ReplayInv, IsMessage, Stale
  <2>3. minute - s.since <= 2 * MaxClockSkew
    BY <2>2, <1>0, EnrolNumbers
  <2> QED
    BY <2>1, <2>3 DEF Evict
<1>3. m \notin honoured.once
  BY <1>0, <1>1, <1>2
<1>4. \A s \in nonces' : IsMessage(s.msg) /\ s.since \in Int /\ s.msg.at <= s.since + MaxClockSkew
  BY <1>0, <1>1 DEF ReplayInv, Evict
<1>6. \A o \in honoured'.once : Stale(o)' \/ Remembered(o)'
  <2> SUFFICES ASSUME NEW o \in honoured'.once, ~Stale(o)
               PROVE  Remembered(o)'
    BY DEF Stale
  <2>1. CASE o = m
    <3>1. [msg |-> m, since |-> minute] \in nonces' /\ [msg |-> m, since |-> minute].msg = m
      BY <1>0
    <3> QED
      BY <2>1, <3>1 DEF Remembered
  <2>2. CASE o # m
    <3>1. o \in honoured.once
      BY <2>2, <1>0
    <3> QED
      BY <3>1, <1>2, <1>0 DEF Remembered
  <2> QED
    BY <2>1, <2>2
<1>7. HonouredOnce'
  BY <1>0, <1>3 DEF HonouredOnce, ReplayInv
<1>8. /\ \A o \in signed' \cup honoured'.once : IsMessage(o)
      /\ DOMAIN honoured' = {"once", "twice"} /\ minute' \in Nat
  BY <1>0 DEF ReplayInv
<1> QED
  BY <1>4, <1>6, <1>7, <1>8 DEF ReplayInv

LEMMA ReplayUntouched ==
  ASSUME ReplayInv, UNCHANGED <<nonces, minute, honoured>>, \A m \in signed' : IsMessage(m)
  PROVE  ReplayInv'
  BY DEF ReplayInv, Stale, Remembered, HonouredOnce

LEMMA SessionUntouched ==
  ASSUME SessionInv, UNCHANGED <<skew, signingKey, signed, answers, cached, minute>>
  PROVE  SessionInv'
  BY DEF SessionInv, Bounded

\* A token stored, or dropped.
LEMMA TokenStored ==
  ASSUME SessionInv, NEW h \in Host, NEW token, token.expires \in Nat, token.key \in Nat,
         token.key = 0 \/ Bounded(h), cached' = [cached EXCEPT ![h] = token],
         answers' \subseteq answers, UNCHANGED <<skew, signingKey, signed, minute>>
  PROVE  SessionInv'
  BY DEF SessionInv, Bounded

\* Every request, answer, restart and tick keeps the invariant.
LEMMA EnrolStep == EnrolInv /\ [EnrolNext]_enrolVars => EnrolInv'
<1> SUFFICES ASSUME EnrolInv, [EnrolNext]_enrolVars
             PROVE  ReplayInv' /\ SessionInv'
  BY DEF EnrolInv
<1>0. /\ ReplayInv /\ SessionInv
      /\ minute \in Nat /\ \A m \in signed : IsMessage(m)
      /\ \A h \in Host : skew[h] \in Int
      /\ signingKey \in Nat \ {0}
  BY EnrolNumbers DEF EnrolInv, ReplayInv, SessionInv
<1>1. CASE UNCHANGED enrolVars
  BY <1>0, <1>1, ReplayUntouched, SessionUntouched DEF enrolVars
<1>2. ASSUME NEW h \in Host, NEW purpose \in {"enrol", "session"}, Sign(h, purpose)
      PROVE  ReplayInv' /\ SessionInv'
  <2> DEFINE m == [host |-> h, purpose |-> purpose, at |-> HostClock(h), nonce |-> Cardinality(signed)]
  <2>1. m.host = h /\ m.at = minute + skew[h] /\ m.at \in Int
    BY <1>0 DEF HostClock
  <2>2. signed' = signed \cup {m}
    BY <1>2 DEF Sign
  <2>3. UNCHANGED <<nonces, minute, honoured, skew, signingKey, answers, cached>>
    BY <1>2 DEF Sign
  <2> HIDE DEF m
  <2>4. \A o \in signed' : IsMessage(o) /\ o.at <= minute + skew[o.host]
    BY <1>0, <2>1, <2>2 DEF IsMessage, SessionInv
  <2>5. ReplayInv'
    BY <1>0, <2>3, <2>4, ReplayUntouched
  <2>6. SessionInv'
    BY <1>0, <2>3, <2>4 DEF SessionInv, Bounded
  <2> QED
    BY <2>5, <2>6
<1>3. ASSUME NEW m \in signed, HandleEnrol(m)
      PROVE  ReplayInv' /\ SessionInv'
  BY <1>0, <1>3, HonourKeeps, SessionUntouched DEF HandleEnrol
<1>4. ASSUME NEW h \in Host, EnrolRunnerHost(h)
      PROVE  ReplayInv' /\ SessionInv'
  BY <1>0, <1>4, ReplayUntouched, SessionUntouched DEF EnrolRunnerHost
<1>5. ASSUME NEW m \in signed, HandleSession(m)
      PROVE  ReplayInv' /\ SessionInv'
  <2>1. ReplayInv'
    BY <1>0, <1>5, HonourKeeps DEF HandleSession
  <2>2. UNCHANGED <<skew, signingKey, signed, cached, minute>>
    BY <1>5 DEF HandleSession
  <2>3. m.host \in Host /\ m.at \in Int /\ m.at <= minute + skew[m.host] /\ skew[m.host] \in Int
    BY <1>0 DEF IsMessage, SessionInv
  <2>4. m.at - minute \in -MaxClockSkew .. MaxClockSkew
    BY <1>5 DEF HandleSession, Honour, Fresh
  <2>5. Bounded(m.host)
    BY <1>0, <2>3, <2>4, EnrolNumbers DEF Bounded
  <2> DEFINE a == [host |-> m.host, expires |-> minute + SessionTTL, key |-> signingKey]
  <2>6. a.host = m.host /\ a.expires \in Nat /\ a.key \in Nat
    BY <1>0, EnrolNumbers
  <2>7. answers' \subseteq answers \cup {a}
    BY <1>5 DEF HandleSession
  <2> HIDE DEF a
  <2>8. SessionInv'
    BY <1>0, <2>2, <2>3, <2>5, <2>6, <2>7 DEF SessionInv, Bounded
  <2> QED
    BY <2>1, <2>8
<1>6. ASSUME NEW a \in answers, StoreToken(a)
      PROVE  ReplayInv' /\ SessionInv'
  <2> DEFINE token == [expires |-> a.expires, key |-> a.key]
  <2>1. /\ a.host \in Host /\ Bounded(a.host)
        /\ token.expires \in Nat /\ token.key \in Nat
    BY <1>0 DEF SessionInv
  <2>2. /\ cached' = [cached EXCEPT ![a.host] = token]
        /\ answers' \subseteq answers
        /\ UNCHANGED <<skew, signingKey, signed, minute, nonces, honoured>>
    BY <1>6 DEF StoreToken
  <2> HIDE DEF token
  <2> QED
    BY <1>0, <2>1, <2>2, TokenStored, ReplayUntouched
<1>7. ASSUME NEW a \in answers, LoseAnswer(a)
      PROVE  ReplayInv' /\ SessionInv'
  <2>1. /\ answers' \subseteq answers
        /\ UNCHANGED <<skew, signingKey, signed, minute, nonces, honoured, cached>>
    BY <1>7 DEF LoseAnswer
  <2> QED
    BY <1>0, <2>1, ReplayUntouched DEF SessionInv, Bounded
<1>8. ASSUME NEW h \in Host, CallRefused(h)
      PROVE  ReplayInv' /\ SessionInv'
  <2>1. /\ cached' = [cached EXCEPT ![h] = NoToken] /\ answers' \subseteq answers
        /\ UNCHANGED <<skew, signingKey, signed, minute, nonces, honoured>>
    BY <1>8 DEF CallRefused
  <2>2. NoToken.expires \in Nat /\ NoToken.key \in Nat /\ NoToken.key = 0
    BY DEF NoToken
  <2> QED
    BY <1>0, <2>1, <2>2, TokenStored, ReplayUntouched
<1>9. ASSUME NEW h \in Host, NEW state \in {"approved", "revoked"}, SetRunnerHostState(h, state)
      PROVE  ReplayInv' /\ SessionInv'
  BY <1>0, <1>9, ReplayUntouched, SessionUntouched DEF SetRunnerHostState
<1>10. CASE EnrolTick
  <2>1. minute' = minute + 1
        /\ UNCHANGED <<nonces, signed, answers, cached, skew, signingKey, honoured>>
    BY <1>10 DEF EnrolTick
  <2>2. ReplayInv'
    <3>1. \A m \in honoured.once : Stale(m) => Stale(m)'
      BY <1>0, <2>1, EnrolNumbers DEF ReplayInv, IsMessage, Stale
    <3> QED
      BY <1>0, <2>1, <3>1 DEF ReplayInv, Remembered, HonouredOnce
  <2>3. SessionInv'
    <3>1. \A m \in signed : m.at <= minute' + skew[m.host]
      BY <1>0, <2>1 DEF SessionInv, IsMessage
    <3> QED
      BY <1>0, <2>1, <3>1 DEF SessionInv, Bounded
  <2> QED
    BY <2>2, <2>3
<1>11. CASE EnrolRestart
  <2>1. /\ signingKey' = signingKey + 1 /\ nonces' = {}
        /\ honoured' = [honoured EXCEPT !.once = {}]
        /\ UNCHANGED <<signed, answers, cached, skew, minute>>
    BY <1>11 DEF EnrolRestart
  <2>2. ReplayInv'
    <3>1. honoured'.once = {} /\ honoured'.twice = {} /\ DOMAIN honoured' = {"once", "twice"}
      BY <1>0, <2>1 DEF ReplayInv, HonouredOnce
    <3> QED
      BY <1>0, <2>1, <3>1 DEF ReplayInv, HonouredOnce
  <2>3. SessionInv'
    BY <1>0, <2>1 DEF SessionInv, Bounded
  <2> QED
    BY <2>2, <2>3
<1> QED
  BY <1>1, <1>2, <1>3, <1>4, <1>5, <1>6, <1>7, <1>8, <1>9, <1>10, <1>11 DEF EnrolNext

\* No signed request is served twice while the control plane runs, whatever the
\* hosts' clocks say (enrol.go, CheckFreshness).
THEOREM RequestsHonouredOnce == EnrolInit /\ [][EnrolNext]_enrolVars => []HonouredOnce
<1>1. EnrolInv => HonouredOnce
  BY DEF EnrolInv, ReplayInv
<1> QED
  BY <1>1, EnrolStart, EnrolStep, PTL

\* A session token that is fresh to the agent is good for the control plane that
\* signed it (credentials.go, Token; session.go, Parse).
THEOREM SessionTokensAccepted == EnrolInit /\ [][EnrolNext]_enrolVars => []TokenAccepted
  BY EnrolStart, EnrolStep, FreshAccepted, PTL

-----------------------------------------------------------------------------
(***************************************************************************)
(* Artifacts.  Whoever writes the object of an artifact writes what its    *)
(* job uploads, whole: a put of the blob does, and an assembly holds at    *)
(* every moment a beginning of the blocks it was sent, since a block that  *)
(* is gone ends it.  So a digest is one of the whole upload.               *)
(***************************************************************************)
Block == UNION {ToSet(what) : what \in Upload}

ArtRow == [name : ArtName, live : BOOLEAN, finalized : BOOLEAN, digest : Seq(Block), sends : Upload]
ListCall == [id : Nat, n : Int, at : {"read", "delete"}, got : Seq(Block)]
FinalCall == [id : Nat, at : {"digest", "record"}, digest : Seq(Block)]

Beginning(got, sends) == Len(got) <= Len(sends) /\ \A i \in 1..Len(got) : got[i] = sends[i]

RowsTyped ==
  /\ art \in Seq(ArtRow)
  /\ content \in Seq(Seq(Block)) /\ DOMAIN content = ArtIds
  /\ blocks \in Seq(SUBSET Block) /\ DOMAIN blocks = ArtIds
  /\ listsSent \in Nat

ListsOK == \A l \in lists : l \in ListCall /\ l.id \in ArtIds /\ Beginning(l.got, art[l.id].sends)

FinalsOK ==
  \A f \in finals : /\ f \in FinalCall /\ f.id \in ArtIds
                    /\ f.at = "record" => f.digest = art[f.id].sends

ArtInv ==
  /\ RowsTyped
  /\ \A id \in ArtIds : content[id] \in {NoContent, art[id].sends}
  /\ \A id \in ArtIds : art[id].finalized => art[id].digest = art[id].sends
  /\ ListsOK
  /\ FinalsOK

\* What is sent is a sequence of blocks.
LEMMA UploadsAreSequences == Upload \subseteq Seq(Block)
<1> SUFFICES ASSUME NEW what \in Upload PROVE what \in Seq(Block)
  OBVIOUS
<1>1. what \in Seq(ToSet(what)) /\ ToSet(what) \subseteq Block
  BY UploadAssumption DEF Block
<1> HIDE DEF Block
<1> QED
  BY <1>1

\* The invariant says what the runs check.
LEMMA IntactRows == ArtInv => FinalizedIntact
  BY DEF ArtInv, FinalizedIntact

\* No artifact.
LEMMA ArtStart == ArtInit => ArtInv
<1> SUFFICES ASSUME ArtInit PROVE ArtInv
  OBVIOUS
<1>1. art = <<>> /\ content = <<>> /\ blocks = <<>> /\ listsSent = 0 /\ lists = {} /\ finals = {}
  BY DEF ArtInit
<1>2. art \in Seq(ArtRow) /\ ArtIds = {}
  BY <1>1 DEF ArtIds
<1> QED
  BY <1>1, <1>2 DEF ArtInv, RowsTyped, ListsOK, FinalsOK, ArtIds

\* A beginning as long as the whole is the whole.
LEMMA WholeBeginning ==
  ASSUME NEW got \in Seq(Block), NEW sends \in Seq(Block), Beginning(got, sends),
         Len(got) = Len(sends)
  PROVE  got = sends
  BY DEF Beginning

\* One more block, the next of those sent.
LEMMA BlockRead ==
  ASSUME NEW got \in Seq(Block), NEW sends \in Seq(Block), Beginning(got, sends),
         Len(got) < Len(sends)
  PROVE  /\ Append(got, sends[Len(got) + 1]) \in Seq(Block)
         /\ Beginning(Append(got, sends[Len(got) + 1]), sends)
<1>1. sends[Len(got) + 1] \in Block
  OBVIOUS
<1> DEFINE b == sends[Len(got) + 1]
           more == Append(got, b)
<1>2. more \in Seq(Block) /\ Len(more) = Len(got) + 1
      /\ \A i \in 1..Len(got) + 1 : more[i] = IF i = Len(got) + 1 THEN b ELSE got[i]
  BY <1>1
<1> QED
  BY <1>2 DEF Beginning

\* What BY lists need of a row.
LEMMA RowFacts ==
  ASSUME ArtInv, NEW id \in ArtIds
  PROVE  /\ art[id] \in ArtRow /\ art[id].sends \in Upload /\ art[id].sends \in Seq(Block)
         /\ id \in Nat /\ NoContent \in Seq(Block)
<1>1. art[id] \in ArtRow /\ id \in Nat
  BY DEF ArtInv, RowsTyped, ArtIds
<1> QED
  BY <1>1, UploadsAreSequences DEF ArtRow, NoContent

\* The rows stay; an object is written whole or removed.
LEMMA ContentWritten ==
  ASSUME ArtInv, NEW id \in ArtIds, NEW what \in {NoContent, art[id].sends},
         content' = [content EXCEPT ![id] = what],
         UNCHANGED <<art, blocks, finals>>, ListsOK', listsSent' \in Nat
  PROVE  ArtInv'
<1>1. ArtIds' = ArtIds
  BY DEF ArtIds
<1>2. \A i \in ArtIds : content'[i] \in {NoContent, art[i].sends}
  BY DEF ArtInv, RowsTyped
<1>3. content' \in Seq(Seq(Block)) /\ DOMAIN content' = ArtIds
  BY RowFacts DEF ArtInv, RowsTyped
<1> QED
  BY <1>1, <1>2, <1>3 DEF ArtInv, RowsTyped, FinalsOK

\* Rows and objects stay; the calls under way move.
LEMMA CallsMove ==
  ASSUME ArtInv, UNCHANGED <<art, content>>, blocks' \in Seq(SUBSET Block),
         DOMAIN blocks' = ArtIds, ListsOK', FinalsOK',
         listsSent' \in Nat
  PROVE  ArtInv'
<1>1. ArtIds' = ArtIds
  BY DEF ArtIds
<1> QED
  BY <1>1 DEF ArtInv, RowsTyped

\* A row is finalized or expires; what its job sends is what it was.
LEMMA RowRewritten ==
  ASSUME ArtInv, NEW id \in ArtIds, NEW r \in ArtRow, r.sends = art[id].sends,
         r.finalized => r.digest = r.sends,
         art' = [art EXCEPT ![id] = r],
         \/ UNCHANGED content
         \/ content' = [content EXCEPT ![id] = NoContent],
         finals' \subseteq finals, UNCHANGED <<blocks, lists, listsSent>>
  PROVE  ArtInv'
<1>1. /\ art' \in Seq(ArtRow) /\ ArtIds' = ArtIds
      /\ \A i \in ArtIds : art'[i] = IF i = id THEN r ELSE art[i]
  BY DEF ArtInv, RowsTyped, ArtIds
<1>2. \A i \in ArtIds : art'[i].sends = art[i].sends
  BY <1>1
<1>3. ListsOK' /\ FinalsOK'
  BY <1>1, <1>2 DEF ArtInv, ListsOK, FinalsOK
<1>4. \A i \in ArtIds : content'[i] \in {NoContent, art'[i].sends}
  BY <1>2 DEF ArtInv, RowsTyped
<1>5. \A i \in ArtIds : art'[i].finalized => art'[i].digest = art'[i].sends
  BY <1>1 DEF ArtInv
<1>6. /\ content' \in Seq(Seq(Block)) /\ DOMAIN content' = ArtIds
      /\ UNCHANGED <<blocks, listsSent>>
  <2>1. NoContent \in Seq(Block) /\ content \in Seq(Seq(Block)) /\ DOMAIN content = ArtIds
    BY RowFacts DEF ArtInv, RowsTyped
  <2> DEFINE Contents == Seq(Block)
  <2>2. NoContent \in Contents /\ content \in Seq(Contents)
    BY <2>1
  <2> HIDE DEF Contents
  <2>3. CASE UNCHANGED content
    BY <2>1, <2>2, <2>3
  <2>4. CASE content' = [content EXCEPT ![id] = NoContent]
    <3>1. content' \in Seq(Contents)
      BY <2>1, <2>2, <2>4
    <3>2. DOMAIN content' = ArtIds
      BY <2>1, <2>4
    <3> QED
      BY <3>1, <3>2 DEF Contents
  <2> QED
    BY <2>3, <2>4 DEF Contents
<1> QED
  BY <1>1, <1>3, <1>4, <1>5, <1>6 DEF ArtInv, RowsTyped

\* A call of a list that goes on, with more of the blocks or to delete them.
LEMMA ListMoves ==
  ASSUME ArtInv, NEW l \in lists, NEW m \in ListCall, m.id = l.id,
         Beginning(m.got, art[l.id].sends), lists' \subseteq lists \cup {m}, UNCHANGED art
  PROVE  ListsOK'
  BY DEF ArtInv, ListsOK, ArtIds

\* A new row, reserved.
LEMMA CreateKeeps ==
  ASSUME ArtInv, NEW name \in ArtName, NEW what \in Upload, CreateArtifact(name, what)
  PROVE  ArtInv'
<1> DEFINE r == [name |-> name, live |-> TRUE, finalized |-> FALSE, digest |-> NoContent, sends |-> what]
<1>1. r \in ArtRow /\ r.finalized = FALSE
  <2>1. NoContent \in Seq(Block)
    BY DEF NoContent
  <2> QED
    BY <2>1 DEF ArtRow
<1>2. /\ art' = Append(art, r) /\ content' = Append(content, NoContent)
      /\ blocks' = Append(blocks, {}) /\ UNCHANGED <<lists, listsSent, finals>>
  BY DEF CreateArtifact
<1> HIDE DEF r
<1>3. /\ art' \in Seq(ArtRow) /\ Len(art') = Len(art) + 1
      /\ \A i \in 1..Len(art) : art'[i] = art[i]
      /\ art'[Len(art) + 1] = r
  BY <1>1, <1>2 DEF ArtInv, RowsTyped
<1>4. /\ ArtIds = 1..Len(art) /\ ArtIds' = 1..Len(art) + 1
  BY <1>3 DEF ArtIds, ArtInv, RowsTyped
<1>5. /\ DOMAIN content' = ArtIds' /\ DOMAIN blocks' = ArtIds'
      /\ \A i \in ArtIds : content'[i] = content[i]
      /\ content'[Len(art) + 1] = NoContent
  <2>1. Len(content) = Len(art) /\ Len(blocks) = Len(art)
    BY <1>4 DEF ArtInv, RowsTyped
  <2> QED
    BY <1>2, <1>3, <1>4, <2>1 DEF ArtInv, RowsTyped
<1>9. content' \in Seq(Seq(Block)) /\ blocks' \in Seq(SUBSET Block)
  <2>1. NoContent \in Seq(Block)
    BY DEF NoContent
  <2> QED
    BY <1>2, <2>1 DEF ArtInv, RowsTyped
<1>6. ListsOK' /\ FinalsOK'
  BY <1>2, <1>3, <1>4 DEF ArtInv, ListsOK, FinalsOK
<1>7. \A i \in ArtIds' : content'[i] \in {NoContent, art'[i].sends}
  BY <1>3, <1>4, <1>5 DEF ArtInv
<1>8. \A i \in ArtIds' : art'[i].finalized => art'[i].digest = art'[i].sends
  BY <1>1, <1>3, <1>4 DEF ArtInv
<1> QED
  BY <1>2, <1>3, <1>5, <1>6, <1>7, <1>8, <1>9 DEF ArtInv, RowsTyped

\* Every request, repeated and overlapping as it may be, keeps the invariant.
LEMMA ArtStep == ArtInv /\ [ArtNext]_artVars => ArtInv'
<1> SUFFICES ASSUME ArtInv, [ArtNext]_artVars
             PROVE  ArtInv'
  OBVIOUS
<1>0. /\ ListsOK /\ FinalsOK /\ listsSent \in Nat
      /\ DOMAIN content = ArtIds /\ DOMAIN blocks = ArtIds
      /\ blocks \in Seq(SUBSET Block)
  BY DEF ArtInv, RowsTyped
<1>1. CASE UNCHANGED artVars
  BY <1>1 DEF artVars, ArtInv, RowsTyped, ListsOK, FinalsOK, ArtIds
<1>2. ASSUME NEW name \in ArtName, NEW what \in Upload, CreateArtifact(name, what)
      PROVE  ArtInv'
  BY <1>2, CreateKeeps
<1>3. ASSUME NEW id \in ArtIds, NEW b, PutBlock(id, b)
      PROVE  ArtInv'
  <2>1. b \in Block
    BY <1>3, RowFacts DEF PutBlock, Block
  <2>2. blocks' = [blocks EXCEPT ![id] = blocks[id] \cup {b}]
        /\ UNCHANGED <<art, content, lists, listsSent, finals>>
    BY <1>3 DEF PutBlock
  <2>3. blocks' \in Seq(SUBSET Block) /\ DOMAIN blocks' = ArtIds
    <3> HIDE DEF Block
    <3> QED
      BY <1>0, <2>1, <2>2
  <2> QED
    BY <1>0, <2>2, <2>3, CallsMove DEF ListsOK, FinalsOK, ArtIds
<1>4. ASSUME NEW id \in ArtIds, PutBlob(id)
      PROVE  ArtInv'
  <2>1. ListsOK' /\ listsSent' \in Nat
    BY <1>0, <1>4 DEF PutBlob, ListsOK, ArtIds
  <2> QED
    BY <1>4, <2>1, ContentWritten DEF PutBlob
<1>5. ASSUME NEW id \in ArtIds, PutBlockList(id)
      PROVE  ArtInv'
  <2> DEFINE l == [id |-> id, n |-> listsSent', at |-> "read", got |-> <<>>]
  <2>1. listsSent' \in Nat
    BY <1>0, <1>5 DEF PutBlockList
  <2>2. l \in ListCall /\ l.id = id /\ l.got = <<>>
    BY <2>1, RowFacts DEF ListCall, NoContent
  <2>3. lists' = lists \cup {l} /\ UNCHANGED <<art, content, blocks, finals>>
    BY <1>5 DEF PutBlockList
  <2> HIDE DEF l
  <2>4. Beginning(l.got, art[id].sends)
    BY <2>2, RowFacts DEF Beginning
  <2>5. ListsOK'
    BY <1>0, <2>2, <2>3, <2>4 DEF ListsOK, ArtIds
  <2>6. FinalsOK'
    BY <1>0, <2>3 DEF FinalsOK, ArtIds
  <2> QED
    BY <1>0, <2>1, <2>3, <2>5, <2>6, CallsMove
<1>6. ASSUME NEW id \in ArtIds, RefuseBlockList(id)
      PROVE  ArtInv'
  BY <1>0, <1>6, CallsMove DEF RefuseBlockList, ListsOK, FinalsOK, ArtIds
<1>7. ASSUME NEW l \in lists, ReadBlock(l)
      PROVE  ArtInv'
  <2>1. l \in ListCall /\ l.id \in ArtIds /\ Beginning(l.got, art[l.id].sends)
        /\ Len(l.got) < Len(art[l.id].sends)
    BY <1>0, <1>7 DEF ListsOK, ReadBlock
  <2> DEFINE m == [l EXCEPT !.got = Append(l.got, NextBlock(l))]
  <2>2. /\ Append(l.got, NextBlock(l)) \in Seq(Block)
        /\ Beginning(Append(l.got, NextBlock(l)), art[l.id].sends)
    <3>1. l.got \in Seq(Block) /\ art[l.id].sends \in Seq(Block)
      BY <2>1, RowFacts DEF ListCall
    <3> QED
      BY <3>1, <2>1, BlockRead DEF NextBlock
  <2>3. m \in ListCall /\ m.id = l.id /\ m.got = Append(l.got, NextBlock(l))
    BY <2>1, <2>2 DEF ListCall
  <2>4. lists' \subseteq lists \cup {m} /\ UNCHANGED <<art, content, blocks, listsSent, finals>>
    BY <1>7 DEF ReadBlock, Concat
  <2> HIDE DEF m
  <2>5. ListsOK'
    BY <2>2, <2>3, <2>4, ListMoves
  <2> QED
    BY <1>0, <2>4, <2>5, CallsMove DEF FinalsOK, ArtIds
<1>8. ASSUME NEW l \in lists, PutAssembled(l)
      PROVE  ArtInv'
  <2>1. l \in ListCall /\ l.id \in ArtIds /\ Beginning(l.got, art[l.id].sends)
    BY <1>0 DEF ListsOK
  <2>2. l.got = art[l.id].sends
    <3>1. l.got \in Seq(Block) /\ art[l.id].sends \in Seq(Block)
      BY <2>1, RowFacts DEF ListCall
    <3>2. Len(l.got) = Len(art[l.id].sends)
      BY <1>8, <2>1 DEF PutAssembled, ListCall
    <3> QED
      BY <3>1, <3>2, <2>1, WholeBeginning
  <2> DEFINE m == [l EXCEPT !.at = "delete"]
  <2>3. m \in ListCall /\ m.id = l.id /\ m.got = l.got
    BY <2>1 DEF ListCall
  <2>4. /\ content' = [content EXCEPT ![l.id] = l.got]
        /\ lists' \subseteq lists \cup {m} /\ UNCHANGED <<art, blocks, listsSent, finals>>
    BY <1>8 DEF PutAssembled
  <2> HIDE DEF m
  <2>5. ListsOK'
    BY <2>1, <2>3, <2>4, ListMoves
  <2> QED
    BY <1>0, <2>1, <2>2, <2>4, <2>5, ContentWritten
<1>9. ASSUME NEW l \in lists, DeleteBlocks(l)
      PROVE  ArtInv'
  <2>1. l.id \in ArtIds
    BY <1>0 DEF ListsOK
  <2>2. /\ blocks' = [blocks EXCEPT ![l.id] = blocks[l.id] \ ToSet(art[l.id].sends)]
        /\ lists' \subseteq lists /\ UNCHANGED <<art, content, listsSent, finals>>
    BY <1>9 DEF DeleteBlocks
  <2>3. blocks' \in Seq(SUBSET Block) /\ DOMAIN blocks' = ArtIds
    BY <1>0, <2>1, <2>2
  <2> QED
    BY <1>0, <2>2, <2>3, CallsMove DEF ListsOK, FinalsOK, ArtIds
<1>10. ASSUME NEW id \in ArtIds, StartFinalize(id)
       PROVE  ArtInv'
  <2> DEFINE f == [id |-> id, at |-> "digest", digest |-> NoContent]
  <2>1. f \in FinalCall /\ f.id = id /\ f.at = "digest"
    BY RowFacts DEF FinalCall
  <2>2. finals' = finals \cup {f} /\ UNCHANGED <<art, content, blocks, lists, listsSent>>
    BY <1>10 DEF StartFinalize
  <2> HIDE DEF f
  <2> QED
    BY <1>0, <2>1, <2>2, CallsMove DEF ListsOK, FinalsOK, ArtIds
<1>11. ASSUME NEW f \in finals, DigestArtifact(f)
       PROVE  ArtInv'
  <2>1. f \in FinalCall /\ f.id \in ArtIds
    BY <1>0 DEF FinalsOK
  <2>2. UNCHANGED <<art, content, blocks, lists, listsSent>>
    BY <1>11 DEF DigestArtifact
  <2>3. CASE content[f.id] = art[f.id].sends
    <3> DEFINE g == [f EXCEPT !.at = "record", !.digest = content[f.id]]
    <3>1. g \in FinalCall /\ g.id = f.id /\ g.at = "record" /\ g.digest = art[f.id].sends
      BY <2>1, <2>3, RowFacts DEF FinalCall
    <3>2. finals' \subseteq finals \cup {g}
      BY <1>11 DEF DigestArtifact
    <3> HIDE DEF g
    <3> QED
      BY <1>0, <2>1, <2>2, <3>1, <3>2, CallsMove DEF ListsOK, FinalsOK, ArtIds
  <2>4. CASE content[f.id] # art[f.id].sends
    <3>1. finals' \subseteq finals
      BY <1>11, <2>4 DEF DigestArtifact
    <3> QED
      BY <1>0, <2>2, <3>1, CallsMove DEF ListsOK, FinalsOK, ArtIds
  <2> QED
    BY <2>3, <2>4
<1>12. ASSUME NEW f \in finals, RecordFinal(f)
       PROVE  ArtInv'
  <2>1. f.id \in ArtIds /\ f \in FinalCall /\ f.digest = art[f.id].sends
    BY <1>0, <1>12 DEF FinalsOK, RecordFinal
  <2>2. finals' \subseteq finals /\ UNCHANGED <<content, blocks, lists, listsSent>>
    BY <1>12 DEF RecordFinal
  <2>3. CASE HasRow(f.id)
    <3> DEFINE r == [art[f.id] EXCEPT !.finalized = TRUE, !.digest = f.digest]
    <3>1. r \in ArtRow /\ r.sends = art[f.id].sends /\ r.digest = r.sends
      BY <2>1, RowFacts DEF ArtRow
    <3>2. art' = [art EXCEPT ![f.id] = r]
      BY <1>12, <2>1, <2>3, RowFacts DEF RecordFinal, ArtInv, RowsTyped, ArtRow
    <3> HIDE DEF r
    <3> QED
      BY <2>1, <2>2, <3>1, <3>2, RowRewritten
  <2>4. CASE ~HasRow(f.id)
    <3>1. UNCHANGED art
      BY <1>12, <2>4 DEF RecordFinal
    <3> QED
      BY <1>0, <2>2, <3>1, CallsMove DEF ListsOK, FinalsOK, ArtIds
  <2> QED
    BY <2>3, <2>4
<1>13. ASSUME NEW name \in ArtName, DeleteArtifact(name)
       PROVE  ArtInv'
  <2>1. PICK id \in ArtIds : content' = [content EXCEPT ![id] = NoContent]
    BY <1>13 DEF DeleteArtifact, FindArtifact
  <2>2. UNCHANGED <<art, blocks, lists, listsSent, finals>>
    BY <1>13 DEF DeleteArtifact
  <2> QED
    BY <1>0, <2>1, <2>2, ContentWritten DEF ListsOK, ArtIds
<1>14. ASSUME NEW id \in ArtIds, ExpireArtifact(id)
       PROVE  ArtInv'
  <2> DEFINE r == [art[id] EXCEPT !.live = FALSE]
  <2>1. r \in ArtRow /\ r.sends = art[id].sends /\ (r.finalized => r.digest = r.sends)
    BY RowFacts DEF ArtRow, ArtInv
  <2>2. /\ art' = [art EXCEPT ![id] = r] /\ content' = [content EXCEPT ![id] = NoContent]
        /\ UNCHANGED <<blocks, lists, listsSent, finals>>
    BY <1>14 DEF ExpireArtifact
  <2> HIDE DEF r
  <2> QED
    BY <2>1, <2>2, RowRewritten
<1> QED
  BY <1>1, <1>2, <1>3, <1>4, <1>5, <1>6, <1>7, <1>8, <1>9, <1>10, <1>11, <1>12, <1>13, <1>14
     DEF ArtNext

\* A finalized artifact is what its row states the digest of and what the job
\* uploaded, or it is gone; no block list sent again, late or in part leaves a
\* shorter object (artifacts.go, finalizeArtifact; shim.go, putBlockList).
THEOREM FinalizedStaysIntact == ArtInit /\ [][ArtNext]_artVars => []FinalizedIntact
  BY ArtStart, ArtStep, IntactRows, PTL

-----------------------------------------------------------------------------
(***************************************************************************)
(* The check-run reporter.  What is pending is the newest update or        *)
(* nothing, and while nothing is pending the one flush that writes, if     *)
(* there is one, writes the newest.  The count of annotations sent is      *)
(* never beyond the list of an update that is still to be written, so      *)
(* every write goes on where the annotations on GitHub end.                *)
(***************************************************************************)
FlushCalls == [at : {"idle", "lock", "take", "write", "follow"}, force : BOOLEAN,
               update : Nat, tries : Int, from : Nat, sent : Nat]
CheckRuns == [update : Nat, anns : SUBSET Nat]

Holds(g)   == chkFlush[g].at \in {"take", "write", "follow"}
Writing(g) == chkFlush[g].at \in {"write", "follow"}

FlushOK(g) ==
  LET f == chkFlush[g] IN
  /\ f \in FlushCalls
  /\ chkLock = g <=> Holds(g)
  /\ ~Writing(g) => f.update = 0
  /\ Writing(g) => /\ f.update \in 1..chkReported
                   /\ chkAnnSent <= AnnCount[f.update]
                   /\ chkPending = 0 => f.update = chkReported
  /\ f.at = "follow" => /\ chkKnown # 0
                        /\ chkRemote[chkKnown].update = f.update
                        /\ f.from = chkAnnSent
                        /\ f.from <= f.sent /\ f.sent <= AnnCount[f.update]
                        /\ 1..f.sent \subseteq chkRemote[chkKnown].anns

RunsOK ==
  /\ chkReported \in 0..Final /\ chkPending \in {0, chkReported}
  /\ chkRemote \in Seq(CheckRuns) /\ chkKnown \in 0..Len(chkRemote)
  /\ chkAnnSent \in Nat
  /\ chkReported = 0 \/ chkKnown = 0 => chkAnnSent = 0
  /\ chkReported # 0 => chkAnnSent <= AnnCount[chkReported]
  /\ chkKnown # 0 => 1..chkAnnSent \subseteq chkRemote[chkKnown].anns

FlushesOK == DOMAIN chkFlush = Reporters /\ \A g \in Reporters : FlushOK(g)

ReporterInv == RunsOK /\ FlushesOK /\ NewestNotLost

\* The updates are numbered from 1, and no list is shorter than the one before.
LEMMA Lists ==
  /\ Final \in Nat /\ AnnChunk \in Nat \ {0}
  /\ \A u \in 1..Final : AnnCount[u] \in Nat
  /\ \A u, v \in 1..Final : u <= v => AnnCount[u] <= AnnCount[v]
  BY ReporterAssumption DEF Updates

\* No goroutine but the one that holds sendMu writes.
LEMMA OneHolder ==
  ASSUME ReporterInv, NEW g \in Reporters, NEW h \in Reporters, Holds(g), h # g
  PROVE  ~Holds(h) /\ ~Writing(h)
  BY DEF ReporterInv, FlushesOK, FlushOK, Holds, Writing

\* The other goroutine, which writes nothing, is left as it is.
LEMMA OtherFlush ==
  ASSUME ReporterInv, NEW g \in Reporters, NEW h \in Reporters, Holds(g), h # g,
         chkFlush'[h] = chkFlush[h], chkLock' \in {g, ""}
  PROVE  FlushOK(h)'
<1>1. ~Holds(h) /\ ~Writing(h)
  BY OneHolder
<1>2. ~Holds(h)' /\ ~Writing(h)' /\ chkFlush'[h].at # "follow"
  BY <1>1 DEF Holds, Writing
<1>3. chkFlush[h] \in FlushCalls /\ chkFlush[h].update = 0
  BY <1>1 DEF ReporterInv, FlushesOK, FlushOK
<1>4. chkLock' # h
  BY DEF Reporters
<1> QED
  BY <1>2, <1>3, <1>4 DEF FlushOK

\* The first state: nothing was reported.
LEMMA ReporterStart == ReporterInit => ReporterInv
<1> SUFFICES ASSUME ReporterInit PROVE ReporterInv
  OBVIOUS
<1>1. RunsOK
  <2>1. /\ chkReported = 0 /\ chkPending = 0 /\ chkKnown = 0 /\ chkAnnSent = 0
        /\ chkRemote = <<>>
    BY DEF ReporterInit
  <2>2. chkRemote \in Seq(CheckRuns) /\ chkKnown \in 0..Len(chkRemote)
    BY <2>1
  <2>3. chkReported \in 0..Final
    BY <2>1, Lists
  <2> QED
    BY <2>1, <2>2, <2>3 DEF RunsOK
<1>2. FlushesOK
  <2>1. DOMAIN chkFlush = Reporters /\ chkLock = ""
    BY DEF ReporterInit
  <2>2. ASSUME NEW g \in Reporters PROVE FlushOK(g)
    <3>1. chkFlush[g] = NoFlushJob /\ chkLock # g
      BY <2>1 DEF ReporterInit, Reporters
    <3>2. NoFlushJob \in FlushCalls /\ NoFlushJob.at = "idle" /\ NoFlushJob.update = 0
      BY DEF NoFlushJob, FlushCalls
    <3> QED
      BY <3>1, <3>2 DEF FlushOK, Holds, Writing
  <2> QED
    BY <2>1, <2>2 DEF FlushesOK
<1>3. NewestNotLost
  BY DEF ReporterInit, NewestNotLost
<1> QED
  BY <1>1, <1>2, <1>3 DEF ReporterInv

\* A flush that writes nothing is replaced by one that writes nothing.
LEMMA FlushTurns ==
  ASSUME ReporterInv, NEW g \in Reporters, NEW f \in FlushCalls, ~Writing(g), FlushIs(g, f),
         f.at \in {"idle", "lock", "take"}, f.update = 0,
         chkLock' = IF f.at = "take" THEN g ELSE IF chkLock = g THEN "" ELSE chkLock,
         f.at = "take" => chkLock \in {"", g},
         UNCHANGED <<chkReported, chkPending, chkKnown, chkAnnSent, chkRemote>>
  PROVE  ReporterInv'
<1>1. /\ chkFlush' = [chkFlush EXCEPT ![g] = f] /\ DOMAIN chkFlush = Reporters
      /\ chkFlush'[g] = f
  BY DEF FlushIs, ReporterInv, FlushesOK
<1>2. ~Writing(g)' /\ (Holds(g)' <=> f.at = "take")
  BY <1>1 DEF Writing, Holds
<1>3. FlushOK(g)'
  <2>1. chkLock' = g <=> f.at = "take"
    BY DEF Reporters
  <2> QED
    BY <1>1, <1>2, <2>1 DEF FlushOK
<1>4. ASSUME NEW h \in Reporters, h # g PROVE FlushOK(h)'
  <2>1. chkFlush'[h] = chkFlush[h] /\ (Holds(h)' <=> Holds(h)) /\ (Writing(h)' <=> Writing(h))
    BY <1>1, <1>4 DEF Holds, Writing
  <2>2. FlushOK(h) /\ (chkLock' = h <=> chkLock = h)
    BY <1>4 DEF ReporterInv, FlushesOK, Reporters
  <2> QED
    BY <2>1, <2>2 DEF FlushOK
<1>5. FlushesOK'
  BY <1>1, <1>3, <1>4 DEF FlushesOK
<1>6. RunsOK'
  BY DEF RunsOK, ReporterInv
<1>7. NewestNotLost'
  <2>1. \A u : u # 0 => (Written(u)' <=> Written(u))
    <3>1. \A h \in Reporters : h # g => chkFlush'[h] = chkFlush[h]
      BY <1>1
    <3>2. chkFlush[g].update = 0 /\ chkFlush'[g].update = 0
      BY <1>1 DEF ReporterInv, FlushesOK, FlushOK
    <3> QED
      BY <3>1, <3>2 DEF Written
  <2> QED
    BY <2>1 DEF NewestNotLost, ReporterInv
<1> QED
  BY <1>5, <1>6, <1>7 DEF ReporterInv

\* What the state says while goroutine g writes update u.
LEMMA WriterFacts ==
  ASSUME ReporterInv, NEW g \in Reporters, Writing(g)
  PROVE  /\ chkFlush[g] \in FlushCalls /\ Holds(g) /\ chkLock = g
         /\ chkReported \in 1..Final /\ chkFlush[g].update \in 1..chkReported
         /\ chkFlush[g].update \in 1..Final
         /\ chkAnnSent \in Nat /\ AnnCount[chkFlush[g].update] \in Nat
         /\ chkAnnSent <= AnnCount[chkFlush[g].update]
         /\ AnnCount[chkFlush[g].update] <= AnnCount[chkReported]
         /\ chkPending = 0 => chkFlush[g].update = chkReported
         /\ chkPending \in {0, chkReported}
         /\ chkRemote \in Seq(CheckRuns) /\ chkKnown \in 0..Len(chkRemote)
         /\ chkKnown = 0 => chkAnnSent = 0
         /\ chkKnown # 0 => 1..chkAnnSent \subseteq chkRemote[chkKnown].anns
<1>1. FlushOK(g) /\ RunsOK
  BY DEF ReporterInv, FlushesOK
<1>2. /\ chkFlush[g].update \in 1..chkReported /\ chkReported \in 0..Final
  BY <1>1 DEF FlushOK, RunsOK
<1>3. chkReported \in 1..Final /\ chkFlush[g].update \in 1..Final /\ chkFlush[g].update <= chkReported
  BY <1>2, Lists
<1> QED
  BY <1>1, <1>2, <1>3, Lists DEF FlushOK, RunsOK, Holds, Writing

\* A step of the goroutine that writes, which leaves what was reported: it is
\* enough to look at its own flush and at the check run on GitHub.
LEMMA WriterStep ==
  ASSUME ReporterInv, NEW g \in Reporters, Writing(g), NEW f, FlushIs(g, f),
         chkLock' \in {g, ""}, FlushOK(g)', UNCHANGED chkReported, RunsOK', NewestNotLost'
  PROVE  ReporterInv'
<1>1. /\ DOMAIN chkFlush' = Reporters
      /\ \A h \in Reporters : h # g => chkFlush'[h] = chkFlush[h]
  BY DEF FlushIs, ReporterInv, FlushesOK
<1>2. \A h \in Reporters : FlushOK(h)'
  BY <1>1, OtherFlush, WriterFacts
<1> QED
  BY <1>1, <1>2 DEF ReporterInv, FlushesOK

\* A chunk ends inside the list, and not before it begins.
LEMMA ChunkInside ==
  ASSUME NEW u \in 1..Final, NEW from \in Nat, from <= AnnCount[u]
  PROVE  /\ ChunkEnd(from, u) \in Nat /\ from <= ChunkEnd(from, u)
         /\ ChunkEnd(from, u) <= AnnCount[u]
  BY Lists DEF ChunkEnd

\* A write goes on where the annotations on GitHub end.
LEMMA GoesOn ==
  ASSUME NEW u \in 1..Final, chkAnnSent \in Nat, chkAnnSent <= AnnCount[u]
  PROVE  AnnFrom(u) = chkAnnSent
  BY DEF AnnFrom

\* What GitHub has after a request with the annotations from..to of update u:
\* nothing of what it had is gone, and a check run that is known is at update u.
LEMMA AfterRequest ==
  ASSUME NEW u \in Nat, NEW from \in Nat, NEW to \in Nat, from <= to,
         chkRemote \in Seq(CheckRuns), chkKnown \in 0..Len(chkRemote)
  PROVE  /\ RemoteAfter(u, from, to) \in Seq(CheckRuns)
         /\ chkKnown = 0 =>
              /\ Len(RemoteAfter(u, from, to)) = Len(chkRemote) + 1
              /\ RemoteAfter(u, from, to)[Len(chkRemote) + 1].update = u
              /\ from = 0 => 1..to \subseteq RemoteAfter(u, from, to)[Len(chkRemote) + 1].anns
         /\ chkKnown # 0 =>
              /\ Len(RemoteAfter(u, from, to)) = Len(chkRemote)
              /\ RemoteAfter(u, from, to)[chkKnown].update = u
              /\ chkRemote[chkKnown].anns \subseteq RemoteAfter(u, from, to)[chkKnown].anns
              /\ 1..from \subseteq chkRemote[chkKnown].anns =>
                   1..to \subseteq RemoteAfter(u, from, to)[chkKnown].anns
<1> DEFINE more == {a \in 1..to : a > from}
           empty == [update |-> 0, anns |-> {}]
<1>1. more \in SUBSET Nat /\ (from = 0 => 1..to \subseteq more)
      /\ (\A A : 1..from \subseteq A => 1..to \subseteq A \cup more)
  OBVIOUS
<1>2. \A run \in CheckRuns : /\ Shown(run, u, from, to) \in CheckRuns
                             /\ Shown(run, u, from, to).update = u
                             /\ Shown(run, u, from, to).anns = run.anns \cup more
  BY <1>1 DEF Shown, CheckRuns
<1>3. empty \in CheckRuns
  BY DEF CheckRuns
<1> HIDE DEF more
<1>4. CASE chkKnown = 0
  <2>1. RemoteAfter(u, from, to) = Append(chkRemote, Shown(empty, u, from, to))
    BY <1>4 DEF RemoteAfter
  <2> HIDE DEF empty
  <2> DEFINE s == Shown(empty, u, from, to)
  <2>2. s \in CheckRuns /\ s.update = u /\ more \subseteq s.anns
    BY <1>2, <1>3
  <2> HIDE DEF s
  <2>3. /\ Append(chkRemote, s) \in Seq(CheckRuns)
        /\ Len(Append(chkRemote, s)) = Len(chkRemote) + 1
        /\ Append(chkRemote, s)[Len(chkRemote) + 1] = s
    BY <2>2
  <2> QED
    BY <1>1, <1>4, <2>1, <2>2, <2>3 DEF s
<1>5. CASE chkKnown # 0
  <2>1. chkKnown \in 1..Len(chkRemote) /\ chkRemote[chkKnown] \in CheckRuns
    BY <1>5
  <2> DEFINE s == Shown(chkRemote[chkKnown], u, from, to)
  <2>2. RemoteAfter(u, from, to) = [chkRemote EXCEPT ![chkKnown] = s]
    BY <1>5 DEF RemoteAfter
  <2>3. s \in CheckRuns /\ s.update = u /\ s.anns = chkRemote[chkKnown].anns \cup more
    BY <1>2, <2>1
  <2> HIDE DEF s
  <2>4. /\ [chkRemote EXCEPT ![chkKnown] = s] \in Seq(CheckRuns)
        /\ Len([chkRemote EXCEPT ![chkKnown] = s]) = Len(chkRemote)
        /\ [chkRemote EXCEPT ![chkKnown] = s][chkKnown] = s
    BY <2>1, <2>3
  <2> QED
    BY <1>1, <1>5, <2>2, <2>3, <2>4
<1> QED
  BY <1>4, <1>5

\* A failed write is tried again, or the update is put back and the lock let go.
LEMMA RetryKeeps ==
  ASSUME ReporterInv, NEW g \in Reporters, Writing(g), Retry(g),
         UNCHANGED chkReported, NEW u, u = chkFlush[g].update,
         chkAnnSent' \in Nat, chkAnnSent' <= AnnCount[u],
         chkRemote' \in Seq(CheckRuns), chkKnown' \in 0..Len(chkRemote'),
         chkKnown' = 0 => chkAnnSent' = 0,
         chkKnown' # 0 => 1..chkAnnSent' \subseteq chkRemote'[chkKnown'].anns
  PROVE  ReporterInv'
<1> DEFINE f == chkFlush[g]
<1>0. /\ f \in FlushCalls /\ chkLock = g /\ chkReported \in 1..Final
      /\ u \in 1..chkReported /\ u = f.update
      /\ chkPending = 0 => u = chkReported
      /\ chkPending \in {0, chkReported}
      /\ AnnCount[u] <= AnnCount[chkReported] /\ AnnCount[u] \in Nat /\ AnnCount[chkReported] \in Nat
      /\ g # ""
  BY WriterFacts, Lists DEF Reporters
<1>1. DOMAIN chkFlush = Reporters
  BY DEF ReporterInv, FlushesOK
<1>2. chkPending' \in {0, chkReported} => RunsOK'
  <2>1. chkAnnSent' <= AnnCount[chkReported]
    <3>1. \A a, b, c \in Nat : a <= b /\ b <= c => a <= c
      OBVIOUS
    <3> QED
      BY <1>0, <3>1
  <2>2. chkReported' \in 0..Final /\ chkReported' # 0
    <3>1. \A n \in 1..Final : n \in 0..Final /\ n # 0
      BY Lists
    <3>2. chkReported' \in 1..Final
      BY <1>0
    <3> QED
      BY <3>1, <3>2
  <2> QED
    BY <2>1, <2>2 DEF RunsOK
<1>3. CASE f.tries > 1 /\ FlushIs(g, [f EXCEPT !.at = "write", !.tries = f.tries - 1])
           /\ UNCHANGED <<chkPending, chkLock>>
  <2> DEFINE left == f.tries - 1
             h == [f EXCEPT !.at = "write", !.tries = left]
  <2>0. left \in Int
    <3>1. f.tries \in Int
      BY <1>0 DEF FlushCalls
    <3> QED
      BY <3>1
  <2> HIDE DEF left
  <2>1. h \in FlushCalls /\ h.at = "write" /\ h.update = u
    BY <1>0, <2>0 DEF FlushCalls
  <2>2. FlushIs(g, h) /\ chkFlush' = [chkFlush EXCEPT ![g] = h]
    BY <1>3 DEF FlushIs, left
  <2> HIDE DEF h
  <2>3. chkFlush'[g] = h
    BY <2>2, <1>1
  <2>4. FlushOK(g)'
    BY <2>1, <2>3, <1>0, <1>3 DEF FlushOK, Holds, Writing
  <2>5. NewestNotLost'
    <3>1. u = chkReported => Written(u)'
      BY <2>1, <2>3 DEF Written
    <3> QED
      BY <3>1, <1>0, <1>3 DEF NewestNotLost
  <2> QED
    BY <1>0, <1>2, <1>3, <2>2, <2>4, <2>5, WriterStep
<1>4. CASE ~(f.tries > 1) /\ PutBack(u) /\ FlushIs(g, NoFlushJob) /\ chkLock' = ""
  <2>1. NoFlushJob \in FlushCalls /\ NoFlushJob.at = "idle" /\ NoFlushJob.update = 0
    BY DEF NoFlushJob, FlushCalls
  <2>2. chkFlush'[g] = NoFlushJob
    BY <1>1, <1>4 DEF FlushIs
  <2>3. FlushOK(g)'
    BY <2>1, <2>2, <1>0, <1>4 DEF FlushOK, Holds, Writing
  <2>4. chkPending' = chkReported
    BY <1>0, <1>4 DEF PutBack
  <2>5. NewestNotLost'
    BY <2>4 DEF NewestNotLost
  <2> QED
    BY <1>0, <1>2, <1>4, <2>3, <2>4, <2>5, WriterStep
<1> QED
  BY <1>3, <1>4 DEF Retry

\* The head of a write arrives.
LEMMA HeadKeeps ==
  ASSUME ReporterInv, NEW g \in Reporters, WriteHead(g)
  PROVE  ReporterInv'
<1> DEFINE f == chkFlush[g]
           u == f.update
           from == AnnFrom(u)
           to == ChunkEnd(from, u)
<1>0. f.at = "write" /\ Writing(g) /\ f \in FlushCalls /\ DOMAIN chkFlush = Reporters
  BY WriterFacts DEF WriteHead, Writing, ReporterInv, FlushesOK
<1>1. from = chkAnnSent /\ u \in 1..Final /\ u \in Nat /\ from \in Nat /\ from <= AnnCount[u]
  BY <1>0, WriterFacts, GoesOn
<1> HIDE DEF u, from
<1>2. to \in Nat /\ from <= to /\ to <= AnnCount[u]
  BY <1>1, ChunkInside
<1> HIDE DEF to
<1>3. /\ chkRemote' = RemoteAfter(u, from, to)
      /\ chkKnown' = IF chkKnown = 0 THEN Len(chkRemote) + 1 ELSE chkKnown
      /\ FlushIs(g, [f EXCEPT !.at = "follow", !.from = from, !.sent = to])
      /\ UNCHANGED <<chkReported, chkPending, chkAnnSent, chkLock>>
  BY DEF WriteHead, u, from, to
<1>4. /\ chkRemote \in Seq(CheckRuns) /\ chkKnown \in 0..Len(chkRemote)
      /\ chkKnown = 0 => from = 0
      /\ chkKnown # 0 => 1..from \subseteq chkRemote[chkKnown].anns
  BY <1>0, <1>1, WriterFacts
<1>5. /\ chkRemote' \in Seq(CheckRuns) /\ chkKnown' \in 1..Len(chkRemote')
      /\ chkRemote'[chkKnown'].update = u
      /\ 1..to \subseteq chkRemote'[chkKnown'].anns
  <2> DEFINE R == RemoteAfter(u, from, to)
  <2>0. /\ R \in Seq(CheckRuns)
        /\ chkKnown = 0 => /\ Len(R) = Len(chkRemote) + 1 /\ R[Len(chkRemote) + 1].update = u
                           /\ 1..to \subseteq R[Len(chkRemote) + 1].anns
        /\ chkKnown # 0 => /\ Len(R) = Len(chkRemote) /\ R[chkKnown].update = u
                           /\ 1..to \subseteq R[chkKnown].anns
    BY <1>1, <1>2, <1>4, AfterRequest
  <2> HIDE DEF R
  <2>3. chkRemote' = R /\ Len(chkRemote) \in Nat
    BY <1>3, <1>4 DEF R
  <2>1. CASE chkKnown = 0
    <3>1. chkKnown' = Len(chkRemote) + 1 /\ chkKnown' \in 1..Len(R)
      BY <2>0, <2>1, <2>3, <1>3
    <3> QED
      BY <2>0, <2>1, <2>3, <3>1
  <2>2. CASE chkKnown # 0
    BY <2>0, <2>2, <2>3, <1>3, <1>4
  <2> QED
    BY <2>1, <2>2
<1>6. 1..chkAnnSent \subseteq chkRemote'[chkKnown'].anns
  BY <1>1, <1>2, <1>5
<1>7. RunsOK'
  BY <1>0, <1>3, <1>5, <1>6 DEF RunsOK, ReporterInv
<1> DEFINE h == [f EXCEPT !.at = "follow", !.from = from, !.sent = to]
<1>8. h \in FlushCalls /\ h.at = "follow" /\ h.from = from /\ h.sent = to /\ h.update = u
  BY <1>0, <1>1, <1>2 DEF FlushCalls, u
<1>9. chkFlush'[g] = h
  BY <1>0, <1>3 DEF FlushIs
<1> HIDE DEF h
<1>10. FlushOK(g)'
  <2>1. FlushOK(g)
    BY DEF ReporterInv, FlushesOK
  <2>2. /\ u \in 1..chkReported /\ chkAnnSent <= AnnCount[u]
        /\ chkPending = 0 => u = chkReported
        /\ chkLock = g
    BY <1>0, WriterFacts DEF u
  <2>3. Holds(g)' /\ Writing(g)'
    BY <1>8, <1>9 DEF Holds, Writing
  <2> QED
    BY <1>1, <1>2, <1>3, <1>5, <1>8, <1>9, <2>2, <2>3 DEF FlushOK
<1>11. NewestNotLost'
  <2>1. chkPending = 0 => u = chkReported
    BY <1>0, WriterFacts DEF u
  <2>2. chkFlush'[g].update = u
    BY <1>8, <1>9
  <2>3. chkPending \in {0, chkReported}
    BY DEF ReporterInv, RunsOK
  <2> QED
    BY <1>3, <2>1, <2>2, <2>3 DEF NewestNotLost, Written
<1> QED
  BY <1>0, <1>3, <1>7, <1>10, <1>11, WriterFacts, WriterStep DEF h

\* What a flush that follows up says of the check run on GitHub.
LEMMA FollowFacts ==
  ASSUME ReporterInv, NEW g \in Reporters, chkFlush[g].at = "follow"
  PROVE  /\ Writing(g) /\ chkKnown \in 1..Len(chkRemote)
         /\ chkRemote[chkKnown] \in CheckRuns
         /\ chkRemote[chkKnown].update = chkFlush[g].update
         /\ chkFlush[g].from = chkAnnSent /\ chkFlush[g].sent \in Nat
         /\ chkAnnSent <= chkFlush[g].sent
         /\ chkFlush[g].sent <= AnnCount[chkFlush[g].update]
         /\ 1..chkFlush[g].sent \subseteq chkRemote[chkKnown].anns
         /\ chkAnnSent + SentSoFar(chkFlush[g]) = chkFlush[g].sent
<1>1. Writing(g)
  BY DEF Writing
<1>2. FlushOK(g) /\ chkFlush[g] \in FlushCalls
  BY DEF ReporterInv, FlushesOK, FlushOK
<1>3. chkFlush[g].sent \in Nat /\ chkFlush[g].from \in Nat /\ chkFlush[g].from = chkAnnSent
  BY <1>2 DEF FlushCalls, FlushOK
<1>4. chkKnown \in 1..Len(chkRemote) /\ chkRemote[chkKnown] \in CheckRuns
  <2>1. chkRemote \in Seq(CheckRuns) /\ chkKnown \in 0..Len(chkRemote) /\ chkKnown # 0
    BY <1>1, <1>2, WriterFacts DEF FlushOK
  <2> QED
    BY <2>1
<1>5. chkAnnSent + SentSoFar(chkFlush[g]) = chkFlush[g].sent
  BY <1>3 DEF SentSoFar
<1> QED
  BY <1>1, <1>2, <1>3, <1>4, <1>5 DEF FlushOK

\* A follow-up arrives: the annotations go on where they ended.
LEMMA FollowKeeps ==
  ASSUME ReporterInv, NEW g \in Reporters, WriteFollow(g)
  PROVE  ReporterInv'
<1> DEFINE f == chkFlush[g]
<1>0. f.at = "follow" /\ DOMAIN chkFlush = Reporters
  BY DEF WriteFollow, ReporterInv, FlushesOK
<1>1. PICK u, sent, to : u = f.update /\ sent = f.sent /\ to = ChunkEnd(sent, u)
  OBVIOUS
<1>2. /\ f \in FlushCalls /\ Writing(g) /\ Holds(g) /\ chkLock = g
      /\ u \in 1..chkReported /\ u \in 1..Final /\ u \in Nat /\ chkReported \in 1..Final
      /\ chkAnnSent \in Nat /\ chkAnnSent <= AnnCount[u]
      /\ chkPending = 0 => u = chkReported
      /\ chkRemote \in Seq(CheckRuns) /\ chkKnown \in 1..Len(chkRemote)
      /\ chkRemote[chkKnown].update = u
      /\ f.from = chkAnnSent /\ sent \in Nat /\ chkAnnSent <= sent /\ sent <= AnnCount[u]
      /\ 1..sent \subseteq chkRemote[chkKnown].anns
  BY <1>0, <1>1, FollowFacts, WriterFacts
<1>3. to \in Nat /\ sent <= to /\ to <= AnnCount[u]
  BY <1>1, <1>2, ChunkInside
<1>4. /\ chkRemote' = RemoteAfter(u, sent, to)
      /\ FlushIs(g, [f EXCEPT !.sent = to])
      /\ UNCHANGED <<chkReported, chkPending, chkKnown, chkAnnSent, chkLock>>
  BY <1>1, <1>2 DEF WriteFollow
<1>5. /\ chkRemote' \in Seq(CheckRuns) /\ chkKnown' \in 1..Len(chkRemote')
      /\ chkRemote'[chkKnown'].update = u
      /\ 1..to \subseteq chkRemote'[chkKnown'].anns
  <2> DEFINE R == RemoteAfter(u, sent, to)
  <2>0. chkKnown \in 0..Len(chkRemote) /\ chkKnown # 0
    BY <1>2
  <2>1. /\ R \in Seq(CheckRuns) /\ Len(R) = Len(chkRemote) /\ R[chkKnown].update = u
        /\ 1..to \subseteq R[chkKnown].anns
    BY <2>0, <1>2, <1>3, AfterRequest
  <2> HIDE DEF R
  <2>2. chkRemote' = R
    BY <1>4 DEF R
  <2> QED
    BY <1>2, <1>4, <2>1, <2>2
<1>6. 1..chkAnnSent \subseteq chkRemote'[chkKnown'].anns
  BY <1>2, <1>3, <1>5
<1>7. RunsOK'
  BY <1>2, <1>4, <1>5, <1>6 DEF RunsOK, ReporterInv
<1>8. chkFlush'[g] = [f EXCEPT !.sent = to]
  BY <1>0, <1>4 DEF FlushIs
<1> DEFINE h == [f EXCEPT !.sent = to]
<1>9. h \in FlushCalls /\ h.at = "follow" /\ h.from = chkAnnSent /\ h.sent = to /\ h.update = u
  BY <1>0, <1>1, <1>2, <1>3 DEF FlushCalls
<1> HIDE DEF h
<1>10. chkFlush'[g] = h /\ chkAnnSent <= to /\ Holds(g)' /\ Writing(g)'
  BY <1>2, <1>3, <1>8, <1>9 DEF h, Holds, Writing
<1>11. FlushOK(g)'
  BY <1>2, <1>3, <1>4, <1>5, <1>9, <1>10 DEF FlushOK
<1>12. NewestNotLost'
  <2>1. chkPending \in {0, chkReported}
    BY DEF ReporterInv, RunsOK
  <2> QED
    BY <2>1, <1>2, <1>4, <1>9, <1>10 DEF NewestNotLost, Written
<1> QED
  BY <1>2, <1>4, <1>7, <1>11, <1>12, WriterStep

\* A request of a write fails; it may have been done all the same.
LEMMA HeadFailsKeeps ==
  ASSUME ReporterInv, NEW g \in Reporters, WriteHeadFails(g)
  PROVE  ReporterInv'
<1> DEFINE f == chkFlush[g]
<1>0. f.at = "write" /\ Writing(g) /\ Retry(g) /\ UNCHANGED <<chkReported, chkKnown, chkAnnSent>>
  BY DEF WriteHeadFails, Writing
<1>1. PICK u, to : u = f.update /\ to = ChunkEnd(AnnFrom(u), u)
  OBVIOUS
<1>2. /\ u \in 1..Final /\ u \in Nat
      /\ chkAnnSent \in Nat /\ chkAnnSent <= AnnCount[u]
      /\ chkRemote \in Seq(CheckRuns) /\ chkKnown \in 0..Len(chkRemote)
      /\ chkKnown = 0 => chkAnnSent = 0
      /\ chkKnown # 0 => 1..chkAnnSent \subseteq chkRemote[chkKnown].anns
  BY <1>0, <1>1, WriterFacts
<1>3. AnnFrom(u) = chkAnnSent /\ to \in Nat /\ chkAnnSent <= to
  BY <1>1, <1>2, GoesOn, ChunkInside
<1>4. chkRemote' = chkRemote \/ chkRemote' = RemoteAfter(u, chkAnnSent, to)
  BY <1>1, <1>3 DEF WriteHeadFails
<1>5. /\ chkRemote' \in Seq(CheckRuns) /\ chkKnown' \in 0..Len(chkRemote')
      /\ chkKnown' # 0 => 1..chkAnnSent \subseteq chkRemote'[chkKnown'].anns
  <2> DEFINE R == RemoteAfter(u, chkAnnSent, to)
  <2>1. /\ R \in Seq(CheckRuns)
        /\ chkKnown = 0 => Len(R) = Len(chkRemote) + 1
        /\ chkKnown # 0 => /\ Len(R) = Len(chkRemote)
                           /\ chkRemote[chkKnown].anns \subseteq R[chkKnown].anns
    BY <1>2, <1>3, AfterRequest
  <2> HIDE DEF R
  <2>2. chkRemote' = chkRemote \/ chkRemote' = R
    BY <1>4 DEF R
  <2> QED
    BY <1>0, <1>2, <2>1, <2>2
<1> QED
  BY <1>0, <1>1, <1>2, <1>5, RetryKeeps

LEMMA FollowFailsKeeps ==
  ASSUME ReporterInv, NEW g \in Reporters, WriteFollowFails(g)
  PROVE  ReporterInv'
<1> DEFINE f == chkFlush[g]
<1>0. f.at = "follow" /\ Retry(g) /\ UNCHANGED <<chkReported, chkKnown>>
  BY DEF WriteFollowFails
<1>1. PICK u, sent, to : u = f.update /\ sent = f.sent /\ to = ChunkEnd(sent, u)
  OBVIOUS
<1>2. /\ Writing(g) /\ u \in 1..Final /\ u \in Nat
      /\ chkRemote \in Seq(CheckRuns) /\ chkKnown \in 1..Len(chkRemote)
      /\ chkRemote[chkKnown].update = u
      /\ sent \in Nat /\ sent <= AnnCount[u]
      /\ 1..sent \subseteq chkRemote[chkKnown].anns
      /\ chkAnnSent' = sent
  BY <1>0, <1>1, FollowFacts, WriterFacts DEF WriteFollowFails
<1>3. to \in Nat /\ sent <= to
  BY <1>1, <1>2, ChunkInside
<1>4. chkRemote' = chkRemote \/ chkRemote' = RemoteAfter(u, sent, to)
  BY <1>1, <1>2 DEF WriteFollowFails
<1>5. /\ chkRemote' \in Seq(CheckRuns) /\ chkKnown' \in 1..Len(chkRemote')
      /\ 1..sent \subseteq chkRemote'[chkKnown'].anns
  <2> DEFINE R == RemoteAfter(u, sent, to)
  <2>0. chkKnown \in 0..Len(chkRemote) /\ chkKnown # 0
    BY <1>2
  <2>1. /\ R \in Seq(CheckRuns) /\ Len(R) = Len(chkRemote)
        /\ chkRemote[chkKnown].anns \subseteq R[chkKnown].anns
    BY <2>0, <1>2, <1>3, AfterRequest
  <2> HIDE DEF R
  <2>2. chkRemote' = chkRemote \/ chkRemote' = R
    BY <1>4 DEF R
  <2> QED
    BY <1>0, <1>2, <2>1, <2>2
<1> QED
  BY <1>0, <1>1, <1>2, <1>5, RetryKeeps

\* The last chunk is there: the lock goes, and what was written is whole.
LEMMA DoneKeeps ==
  ASSUME ReporterInv, NEW g \in Reporters, WriteDone(g)
  PROVE  ReporterInv'
<1> DEFINE f == chkFlush[g]
<1>0. /\ f.at = "follow" /\ f.sent = AnnCount[f.update]
      /\ FlushIs(g, NoFlushJob) /\ chkLock' = ""
      /\ UNCHANGED <<chkReported, chkPending, chkKnown, chkRemote>>
  BY DEF WriteDone
<1>1. PICK u, sent : u = f.update /\ sent = f.sent
  OBVIOUS
<1>2. /\ Writing(g) /\ u \in 1..Final /\ u \in Nat
      /\ chkReported \in 1..Final /\ chkPending \in {0, chkReported}
      /\ chkPending = 0 => u = chkReported
      /\ AnnCount[u] \in Nat /\ AnnCount[u] <= AnnCount[chkReported]
      /\ chkRemote \in Seq(CheckRuns) /\ chkKnown \in 1..Len(chkRemote)
      /\ chkRemote[chkKnown].update = u
      /\ sent \in Nat /\ sent = AnnCount[u]
      /\ 1..sent \subseteq chkRemote[chkKnown].anns
      /\ chkAnnSent' = sent
  <2>1. Writing(g)
    BY <1>0 DEF Writing
  <2>2. chkAnnSent' = chkAnnSent + SentSoFar(f)
    BY DEF WriteDone
  <2>3. /\ u \in 1..Final /\ chkReported \in 1..Final /\ chkPending \in {0, chkReported}
        /\ chkPending = 0 => u = chkReported
        /\ AnnCount[u] \in Nat /\ AnnCount[u] <= AnnCount[chkReported]
        /\ chkRemote \in Seq(CheckRuns)
    BY <1>1, <2>1, WriterFacts
  <2>4. /\ chkKnown \in 1..Len(chkRemote) /\ chkRemote[chkKnown].update = u
        /\ sent \in Nat /\ 1..sent \subseteq chkRemote[chkKnown].anns
        /\ chkAnnSent' = sent
    BY <1>0, <1>1, <2>2, FollowFacts
  <2>5. u \in Nat
    BY <2>3, Lists
  <2>6. sent = AnnCount[u]
    BY <1>0, <1>1
  <2> QED
    BY <2>1, <2>3, <2>4, <2>5, <2>6
<1>3. RunsOK'
  <2>1. chkReported' \in 0..Final /\ chkReported' # 0 /\ chkKnown' # 0 /\ chkKnown' \in 0..Len(chkRemote')
    <3>1. \A n \in 1..Final : n \in 0..Final /\ n # 0
      BY Lists
    <3>2. \A n \in 1..Len(chkRemote) : n # 0 /\ n \in 0..Len(chkRemote)
      BY <1>2
    <3> QED
      BY <1>0, <1>2, <3>1, <3>2
  <2> QED
    BY <1>0, <1>2, <2>1 DEF RunsOK
<1>4. NewestNotLost'
  <2>1. CASE chkPending = 0
    <3>0. \A n \in 1..Len(chkRemote) : n # 0
      OBVIOUS
    <3>1. chkKnown' # 0 /\ chkRemote'[chkKnown'].update = chkReported'
      BY <1>0, <1>2, <2>1, <3>0
    <3>2. 1..AnnCount[chkReported'] \subseteq chkRemote'[chkKnown'].anns
      BY <1>0, <1>2, <2>1
    <3> QED
      BY <3>1, <3>2 DEF NewestNotLost
  <2>2. CASE chkPending = chkReported
    BY <1>0, <2>2 DEF NewestNotLost
  <2> QED
    BY <1>2, <2>1, <2>2
<1>5. FlushOK(g)'
  <2>1. chkFlush'[g] = NoFlushJob
    BY <1>0 DEF FlushIs, ReporterInv, FlushesOK
  <2>2. NoFlushJob \in FlushCalls /\ NoFlushJob.at = "idle" /\ NoFlushJob.update = 0
    BY DEF NoFlushJob, FlushCalls
  <2>3. chkLock' # g
    BY <1>0 DEF Reporters
  <2> QED
    BY <2>1, <2>2, <2>3 DEF FlushOK, Holds, Writing
<1> QED
  BY <1>0, <1>2, <1>3, <1>4, <1>5, WriterStep

\* A flush takes the pending update: with it, it is the one that writes.
LEMMA TakeKeeps ==
  ASSUME ReporterInv, NEW g \in Reporters, FlushPending(g)
  PROVE  ReporterInv'
<1> DEFINE f == chkFlush[g]
<1>0. /\ f.at = "take" /\ f \in FlushCalls /\ f.update = 0 /\ Holds(g) /\ ~Writing(g) /\ chkLock = g
      /\ DOMAIN chkFlush = Reporters /\ RunsOK
      /\ chkPending' = 0 /\ UNCHANGED <<chkReported, chkKnown, chkAnnSent, chkRemote>>
  BY DEF FlushPending, ReporterInv, FlushesOK, FlushOK, Holds, Writing
<1>1. CASE chkPending = 0
  <2>1. NoFlushJob \in FlushCalls /\ NoFlushJob.at = "idle" /\ NoFlushJob.update = 0
    BY DEF NoFlushJob, FlushCalls
  <2>2. FlushIs(g, NoFlushJob) /\ chkLock' = "" /\ UNCHANGED chkPending
    BY <1>1 DEF FlushPending
  <2> QED
    BY <1>0, <2>1, <2>2, FlushTurns
<1>2. CASE chkPending # 0
  <2>1. chkPending = chkReported /\ chkReported \in 1..Final /\ chkReported \in Nat
    BY <1>0, <1>2, Lists DEF RunsOK
  <2>2. PICK tries : tries = IF f.force /\ chkPending = Final THEN FinalAttempts ELSE 1
    OBVIOUS
  <2>3. tries \in Int
    BY <2>2, ReporterAssumption
  <2> DEFINE h == [f EXCEPT !.at = "write", !.update = chkReported, !.tries = tries]
  <2>4. h \in FlushCalls /\ h.at = "write" /\ h.update = chkReported
    BY <1>0, <2>1, <2>3 DEF FlushCalls
  <2>5. FlushIs(g, h) /\ UNCHANGED chkLock
    BY <1>2, <2>1, <2>2 DEF FlushPending
  <2> HIDE DEF h
  <2>6. /\ chkFlush'[g] = h /\ DOMAIN chkFlush' = Reporters
        /\ \A k \in Reporters : k # g => chkFlush'[k] = chkFlush[k]
    BY <1>0, <2>5 DEF FlushIs
  <2>7. FlushOK(g)'
    <3>1. chkReported \in 1..chkReported
      BY <2>1, Lists
    <3>2. chkAnnSent <= AnnCount[chkReported]
      BY <1>0, <2>1 DEF RunsOK
    <3> QED
      BY <1>0, <2>4, <2>5, <2>6, <3>1, <3>2 DEF FlushOK, Holds, Writing
  <2>8. \A k \in Reporters : k # g => FlushOK(k)'
    BY <1>0, <2>5, <2>6, OtherFlush
  <2>9. RunsOK'
    BY <1>0 DEF RunsOK
  <2>10. NewestNotLost'
    BY <1>0, <2>4, <2>6 DEF NewestNotLost, Written
  <2> QED
    BY <2>6, <2>7, <2>8, <2>9, <2>10 DEF ReporterInv, FlushesOK
<1> QED
  BY <1>1, <1>2

\* A flush that comes to the lock, by force or not.
AtLock(f) == f \in FlushCalls /\ f.at = "lock" /\ f.update = 0

LEMMA ComesToLock ==
  /\ AtLock([NoFlushJob EXCEPT !.at = "lock"])
  /\ AtLock([NoFlushJob EXCEPT !.at = "lock", !.force = TRUE])
  /\ \A force \in BOOLEAN : AtLock([NoFlushJob EXCEPT !.at = "lock", !.force = force])
<1>1. NoFlushJob \in FlushCalls /\ NoFlushJob.update = 0
  BY DEF NoFlushJob, FlushCalls
<1>2. AtLock([NoFlushJob EXCEPT !.at = "lock"])
  BY <1>1 DEF AtLock, FlushCalls
<1>3. AtLock([NoFlushJob EXCEPT !.at = "lock", !.force = TRUE])
  BY <1>1 DEF AtLock, FlushCalls
<1>4. ASSUME NEW force \in BOOLEAN PROVE AtLock([NoFlushJob EXCEPT !.at = "lock", !.force = force])
  BY <1>1 DEF AtLock, FlushCalls
<1> QED
  BY <1>2, <1>3, <1>4

\* A report: it is pending, and whoever writes writes an older one now.
LEMMA ReportKeeps ==
  ASSUME ReporterInv, Report
  PROVE  ReporterInv'
<1>0. /\ chkFlush["caller"].at = "idle" /\ "caller" \in Reporters /\ RunsOK
      /\ chkReported' = chkReported + 1 /\ chkPending' = chkReported + 1
      /\ UNCHANGED <<chkKnown, chkAnnSent, chkLock, chkRemote>>
      /\ chkReported \in Nat /\ chkReported + 1 \in 1..Final
  <2>1. chkReported \in 0..Final /\ chkReported < Final
    BY DEF Report, ReporterInv, RunsOK
  <2> QED
    BY <2>1, Lists DEF Report, Reporters, ReporterInv
<1>1. RunsOK'
  <2>1. chkAnnSent <= AnnCount[chkReported + 1]
    <3>1. CASE chkReported = 0
      BY <1>0, <3>1, Lists DEF RunsOK
    <3>2. CASE chkReported # 0
      <4>1. chkReported \in 1..Final /\ chkReported <= chkReported + 1
        BY <1>0, <3>2, Lists
      <4>2. AnnCount[chkReported] <= AnnCount[chkReported + 1]
        BY <1>0, <4>1, Lists
      <4>3. chkAnnSent <= AnnCount[chkReported] /\ chkAnnSent \in Nat
            /\ AnnCount[chkReported] \in Nat /\ AnnCount[chkReported + 1] \in Nat
        BY <1>0, <3>2, <4>1, Lists DEF RunsOK
      <4> QED
        BY <4>2, <4>3
    <3> QED
      BY <3>1, <3>2
  <2>2. chkReported' \in 0..Final
    BY <1>0
  <2>3. chkReported' = 0 \/ chkKnown' = 0 => chkAnnSent' = 0
    BY <1>0 DEF RunsOK
  <2> QED
    BY <1>0, <2>1, <2>2, <2>3 DEF RunsOK
<1>2. DOMAIN chkFlush' = Reporters /\ \A h \in Reporters : h # "caller" => chkFlush'[h] = chkFlush[h]
  BY <1>0 DEF Report, FlushIs, ReporterInv, FlushesOK
<1>3. PICK f \in FlushCalls : chkFlush'["caller"] = f /\ f.at \in {"idle", "lock"} /\ f.update = 0
  <2>1. /\ chkFlush["caller"] \in FlushCalls /\ chkFlush["caller"].update = 0
        /\ DOMAIN chkFlush = Reporters
    BY <1>0 DEF ReporterInv, FlushesOK, FlushOK, Writing
  <2>2. CASE UNCHANGED chkFlush
    BY <1>0, <2>1, <2>2
  <2>3. CASE \E h : AtLock(h) /\ FlushIs("caller", h)
    BY <1>0, <2>1, <2>3 DEF FlushIs, AtLock
  <2> QED
    BY <2>2, <2>3, ComesToLock DEF Report
<1>4. FlushOK("caller")'
  <2>1. chkLock # "caller"
    BY <1>0 DEF ReporterInv, FlushesOK, FlushOK, Holds
  <2> QED
    BY <1>0, <1>3, <2>1 DEF FlushOK, Holds, Writing
<1>5. ASSUME NEW h \in Reporters, h # "caller" PROVE FlushOK(h)'
  <2>1. chkFlush'[h] = chkFlush[h] /\ (Holds(h)' <=> Holds(h)) /\ (Writing(h)' <=> Writing(h))
    BY <1>2, <1>5 DEF Holds, Writing
  <2>2. FlushOK(h)
    BY DEF ReporterInv, FlushesOK
  <2>3. \A u \in 1..chkReported : u \in 1..chkReported'
    BY <1>0
  <2>4. chkPending' # 0
    BY <1>0
  <2> QED
    BY <1>0, <2>1, <2>2, <2>3, <2>4 DEF FlushOK
<1>6. NewestNotLost'
  BY <1>0 DEF NewestNotLost
<1> QED
  BY <1>1, <1>2, <1>4, <1>5, <1>6 DEF ReporterInv, FlushesOK

\* Every report, tick, answer and failure keeps the invariant.
LEMMA ReporterStep == ReporterInv /\ [ReporterNext]_chkVars => ReporterInv'
<1> SUFFICES ASSUME ReporterInv, [ReporterNext]_chkVars
             PROVE  ReporterInv'
  OBVIOUS
<1>1. ASSUME UNCHANGED <<chkReported, chkPending, chkKnown, chkAnnSent, chkLock, chkFlush, chkRemote>>
      PROVE  ReporterInv'
  BY <1>1 DEF ReporterInv, RunsOK, FlushesOK, FlushOK, NewestNotLost, Written, Holds, Writing
<1>2. CASE UNCHANGED chkVars
  BY <1>1, <1>2 DEF chkVars
<1>3. CASE IntervalOver
  BY <1>1, <1>3 DEF IntervalOver
<1>4. CASE Report
  BY <1>4, ReportKeeps
<1>5. ASSUME NEW force \in BOOLEAN, FlushDue(force)
      PROVE  ReporterInv'
  <2>1. /\ "ticker" \in Reporters /\ ~Writing("ticker") /\ chkLock # "ticker"
    BY <1>5 DEF FlushDue, Reporters, Writing, ReporterInv, FlushesOK, FlushOK, Holds
  <2> DEFINE h == [NoFlushJob EXCEPT !.at = "lock", !.force = force]
  <2>2. h \in FlushCalls /\ h.at = "lock" /\ h.update = 0
    BY ComesToLock DEF AtLock
  <2>3. FlushIs("ticker", h)
        /\ UNCHANGED <<chkReported, chkPending, chkKnown, chkAnnSent, chkLock, chkRemote>>
    BY <1>5 DEF FlushDue
  <2> HIDE DEF h
  <2> QED
    BY <2>1, <2>2, <2>3, FlushTurns
<1>6. ASSUME NEW g \in Reporters, FlushSkips(g)
      PROVE  ReporterInv'
  <2>1. ~Writing(g) /\ chkLock # g
    BY <1>6 DEF FlushSkips, Writing, ReporterInv, FlushesOK, FlushOK, Holds
  <2>2. NoFlushJob \in FlushCalls /\ NoFlushJob.at = "idle" /\ NoFlushJob.update = 0
    BY DEF NoFlushJob, FlushCalls
  <2> QED
    BY <1>6, <2>1, <2>2, FlushTurns DEF FlushSkips
<1>7. ASSUME NEW g \in Reporters, FlushLock(g)
      PROVE  ReporterInv'
  <2>1. ~Writing(g) /\ chkFlush[g] \in FlushCalls /\ chkFlush[g].update = 0
    BY <1>7 DEF FlushLock, Writing, ReporterInv, FlushesOK, FlushOK, Holds
  <2> DEFINE h == [chkFlush[g] EXCEPT !.at = "take"]
  <2>2. h \in FlushCalls /\ h.at = "take" /\ h.update = 0
    BY <2>1 DEF FlushCalls
  <2>3. FlushIs(g, h) /\ chkLock = "" /\ chkLock' = g
        /\ UNCHANGED <<chkReported, chkPending, chkKnown, chkAnnSent, chkRemote>>
    BY <1>7 DEF FlushLock
  <2> HIDE DEF h
  <2> QED
    BY <2>1, <2>2, <2>3, FlushTurns
<1>8. ASSUME NEW g \in Reporters,
             \/ FlushPending(g) \/ WriteHead(g) \/ WriteHeadFails(g)
             \/ WriteFollow(g) \/ WriteFollowFails(g) \/ WriteDone(g)
      PROVE  ReporterInv'
  BY <1>8, TakeKeeps, HeadKeeps, HeadFailsKeeps, FollowKeeps, FollowFailsKeeps, DoneKeeps
<1> QED
  BY <1>2, <1>3, <1>4, <1>5, <1>6, <1>7, <1>8 DEF ReporterNext

\* The newest update of a check run is on GitHub with all its annotations, or
\* it is pending, or it is being written: no failure, slow write or newer
\* report leaves an older one in its place (checks.go, flushJob and write).
THEOREM NewestUpdateKept == ReporterInit /\ [][ReporterNext]_chkVars => []NewestNotLost
<1>1. ReporterInv => NewestNotLost
  BY DEF ReporterInv
<1> QED
  BY <1>1, ReporterStart, ReporterStep, PTL

-----------------------------------------------------------------------------
(***************************************************************************)
(* The keyring.  The key of every token that a start could find again is   *)
(* in the ring, and in the file if it was ever saved, either not retired   *)
(* or retired so late that the token ends before it is dropped.  A token   *)
(* is dated before it is signed, so that one signed at the last moment     *)
(* still ends within its time to live.  A start goes back to the file: it  *)
(* must hold, unretired, every saved key that signs.                       *)
(***************************************************************************)
Key == [kid : Nat, retired : Nat]
IdToken == [kid : Nat, exp : Nat]
JobToken == [attempt : Nat, exp : Nat]
Ask == [at : {"none", "verified", "known", "dated"}, tok : JobToken, iat : Nat]

RingTyped ==
  /\ ring \in SUBSET Key /\ keyFile \in SUBSET Key /\ savedKids \in SUBSET Nat
  /\ rotations \in Nat /\ tokenClock \in Nat \ {0} /\ jobAttempt \in Nat
  /\ jobToken \in JobToken /\ asks \in [Asker -> Ask] /\ idTokens \in SUBSET IdToken

\* No kid is one that the next rotation will make.
KidsKnown ==
  /\ \A e \in ring \cup keyFile : e.kid < rotations + 2
  /\ \A k \in savedKids : k < rotations + 2
  /\ \A t \in idTokens : t.kid < rotations + 2
  /\ Kids(keyFile) \subseteq savedKids

Outlives(e, t) ==
  e.retired = 0 \/ (t.exp <= e.retired + IdTokenTTL /\ tokenClock <= e.retired + IdTokenTTL)

HasKey(keys, t) == \E e \in keys : e.kid = t.kid /\ Outlives(e, t)

TokensKeyed ==
  /\ \A t \in idTokens : t.exp <= tokenClock + IdTokenTTL
  /\ \A t \in idTokens : t.kid \in Kids(ring) \cup savedKids => HasKey(ring, t)
  /\ \A t \in idTokens : t.kid \in savedKids => HasKey(keyFile, t)

SignersSaved ==
  /\ \E e \in ring : e.retired = 0
  /\ \E e \in keyFile : e.retired = 0
  /\ \A e \in ring : e.retired = 0 /\ e.kid \in savedKids =>
       \E d \in keyFile : d.kid = e.kid /\ d.retired = 0

IdInv ==
  /\ RingTyped /\ KidsKnown /\ TokensKeyed /\ SignersSaved
  /\ \A a \in Asker : asks[a].iat <= tokenClock

\* The active key is a key of the ring that is not retired.
LEMMA ActiveKey ==
  ASSUME IdInv
  PROVE  \E e \in ring : e.retired = 0 /\ e.kid = Active
<1> DEFINE Below(e) == rotations + 2 - e.kid
           Steps == {Below(e) : e \in Unretired}
<1>1. \A e \in Unretired : e \in Key /\ Below(e) \in Nat
  BY DEF IdInv, RingTyped, KidsKnown, Unretired, Key
<1>2. Unretired # {}
  BY DEF IdInv, SignersSaved, Unretired
<1>3. PICK n \in Steps : \A m \in Steps : n <= m
  <2>1. Steps \subseteq Nat /\ Steps # {}
    BY <1>1, <1>2
  <2> HIDE DEF Steps
  <2> QED
    BY <2>1, LeastNatural
<1>4. PICK e \in Unretired : n = Below(e)
  BY <1>3
<1>5. ASSUME NEW d \in Unretired PROVE d.kid <= e.kid
  <2>1. Below(e) <= Below(d)
    BY <1>3, <1>4
  <2>2. d.kid \in Nat /\ e.kid \in Nat /\ rotations \in Nat
    BY <1>1 DEF Key, IdInv, RingTyped
  <2> QED
    BY <2>1, <2>2
<1> DEFINE a == CHOOSE a \in Unretired : \A d \in Unretired : d.kid <= a.kid
<1>6. a \in Unretired
  BY <1>4, <1>5
<1>7. a.kid = Active
  BY DEF Active
<1> QED
  BY <1>6, <1>7 DEF Unretired

\* What a rotation leaves of a key of the ring.
LEMMA KeyKept ==
  ASSUME IdInv, NEW e \in ring, NEW t \in idTokens, e.kid = t.kid, Outlives(e, t)
  PROVE  HasKey(Rotated, t)
<1>1. e \in Key /\ t \in IdToken /\ tokenClock \in Nat \ {0} /\ IdTokenTTL \in Nat
  BY IdTokensAssumption DEF IdInv, RingTyped
<1>2. CASE e.kid = Active
  <2> DEFINE d == [e EXCEPT !.retired = tokenClock]
  <2>1. d.kid = e.kid /\ d.retired = tokenClock
    BY <1>1 DEF Key
  <2>2. d \in RetiredNow
    BY <1>2 DEF RetiredNow
  <2>3. t.exp <= tokenClock + IdTokenTTL
    BY DEF IdInv, TokensKeyed
  <2> HIDE DEF d
  <2>4. Usable(d)
    BY <1>1, <2>1 DEF Usable
  <2>5. Outlives(d, t)
    BY <1>1, <2>1, <2>3 DEF Outlives
  <2> QED
    BY <2>1, <2>2, <2>4, <2>5 DEF Rotated, HasKey
<1>3. CASE e.kid # Active
  <2>1. e \in RetiredNow
    BY <1>3 DEF RetiredNow
  <2>2. Usable(e)
    BY <1>1 DEF Usable, Outlives, Key
  <2> QED
    BY <2>1, <2>2 DEF Rotated, HasKey
<1> QED
  BY <1>2, <1>3

\* A rotation's keys: those of the ring and a new one.
LEMMA RotatedKeys ==
  ASSUME IdInv
  PROVE  /\ Rotated \in SUBSET Key
         /\ NewKey \in Rotated /\ NewKey.retired = 0 /\ NewKey.kid = rotations + 2
         /\ \A e \in Rotated : e.kid \in Kids(ring) \/ e = NewKey
         /\ \A e \in Rotated : e.retired = 0 => e \in ring \/ e = NewKey
<1>1. ring \in SUBSET Key /\ tokenClock \in Nat \ {0} /\ rotations \in Nat
  BY DEF IdInv, RingTyped
<1>2. \A e \in ring : /\ [e EXCEPT !.retired = tokenClock] \in Key
                      /\ [e EXCEPT !.retired = tokenClock].kid = e.kid
                      /\ [e EXCEPT !.retired = tokenClock].retired = tokenClock
  BY <1>1 DEF Key
<1>3. ASSUME NEW e \in RetiredNow
      PROVE  e \in Key /\ e.kid \in Kids(ring) /\ (e.retired = 0 => e \in ring)
  <2>1. PICK d \in ring : e = IF d.kid = Active THEN [d EXCEPT !.retired = tokenClock] ELSE d
    BY DEF RetiredNow
  <2>2. CASE d.kid = Active
    BY <1>1, <1>2, <2>1, <2>2 DEF Kids
  <2>3. CASE d.kid # Active
    BY <1>1, <2>1, <2>3 DEF Kids
  <2> QED
    BY <2>2, <2>3
<1>4. NewKey \in Key /\ NewKey.retired = 0 /\ NewKey.kid = rotations + 2
  BY <1>1 DEF NewKey, Key
<1> QED
  BY <1>3, <1>4 DEF Rotated

LEMMA RotateKeeps ==
  ASSUME IdInv, Rotate
  PROVE  IdInv'
<1>1. /\ ring' = Rotated /\ rotations' = rotations + 1
      /\ UNCHANGED <<tokenClock, jobAttempt, jobToken, asks, idTokens>>
  BY DEF Rotate
<1>2. /\ ring \in SUBSET Key /\ keyFile \in SUBSET Key /\ savedKids \in SUBSET Nat
      /\ rotations \in Nat /\ idTokens \in SUBSET IdToken
  BY DEF IdInv, RingTyped
<1>3. \/ keyFile' = Rotated /\ savedKids' = savedKids \cup Kids(Rotated)
      \/ keyFile' = keyFile /\ savedKids' = savedKids
  BY <1>1 DEF Rotate, SaveKeys
<1>4. Kids(Rotated) \in SUBSET Nat
  BY RotatedKeys DEF Kids, Key
<1>5. RingTyped'
  <2>1. Rotated \in SUBSET Key
    BY RotatedKeys
  <2>2. keyFile' \in SUBSET Key
    BY <1>2, <1>3, <2>1
  <2>3. savedKids' \in SUBSET Nat
    BY <1>2, <1>3, <1>4
  <2>4. rotations' \in Nat
    BY <1>1, <1>2
  <2> QED
    BY <1>1, <2>1, <2>2, <2>3, <2>4 DEF IdInv, RingTyped
<1>6. \A n \in Nat : n < rotations + 2 => n < rotations' + 2
  BY <1>1, <1>2
<1>7. rotations + 2 < rotations' + 2 /\ rotations + 2 \in Nat
  BY <1>1, <1>2
<1>8. \A e \in Rotated : e.kid \in Nat /\ e.kid < rotations' + 2
  <2>1. \A k \in Kids(ring) : k \in Nat /\ k < rotations + 2
    BY <1>2 DEF IdInv, KidsKnown, Kids, Key
  <2> QED
    BY <1>6, <1>7, <2>1, RotatedKeys
<1>9. \A e \in keyFile : e.kid \in Nat /\ e.kid < rotations' + 2
  BY <1>2, <1>6 DEF IdInv, KidsKnown, Key
<1>10. \A k \in savedKids : k < rotations' + 2
  BY <1>2, <1>6 DEF IdInv, KidsKnown
<1>11. \A t \in idTokens : t.kid < rotations' + 2
  BY <1>2, <1>6 DEF IdInv, KidsKnown, IdToken
<1>12. KidsKnown'
  <2>1. \A k \in Kids(Rotated) : k < rotations' + 2
    BY <1>8 DEF Kids
  <2>2. \A e \in ring' \cup keyFile' : e.kid < rotations' + 2
    BY <1>1, <1>3, <1>8, <1>9
  <2>3. \A k \in savedKids' : k < rotations' + 2
    BY <1>3, <1>10, <2>1
  <2>4. Kids(keyFile)' \subseteq savedKids'
    BY <1>3 DEF IdInv, KidsKnown, Kids
  <2> QED
    BY <1>1, <1>11, <2>2, <2>3, <2>4 DEF KidsKnown
<1>13. ASSUME NEW t \in idTokens, t.kid \in Kids(Rotated) \cup savedKids
       PROVE  HasKey(Rotated, t)
  <2>1. t.kid # rotations + 2
    BY <1>2 DEF IdInv, KidsKnown, IdToken
  <2>2. t.kid \in Kids(ring) \cup savedKids
    BY <1>13, <2>1, RotatedKeys DEF Kids
  <2>3. PICK e \in ring : e.kid = t.kid /\ Outlives(e, t)
    BY <2>2 DEF IdInv, TokensKeyed, HasKey
  <2> QED
    BY <2>3, KeyKept
<1>14. TokensKeyed'
  <2>2. \A t \in idTokens : t.exp <= tokenClock' + IdTokenTTL
    BY <1>1 DEF IdInv, TokensKeyed
  <2>3. \A t \in idTokens : t.kid \in Kids(ring)' \cup savedKids' => HasKey(ring, t)'
    BY <1>1, <1>3, <1>13 DEF HasKey, Outlives, Kids
  <2>4. \A t \in idTokens : t.kid \in savedKids' => HasKey(keyFile, t)'
    <3>1. CASE keyFile' = Rotated /\ savedKids' = savedKids \cup Kids(Rotated)
      BY <1>1, <1>13, <3>1 DEF HasKey, Outlives
    <3>2. CASE keyFile' = keyFile /\ savedKids' = savedKids
      BY <1>1, <3>2 DEF IdInv, TokensKeyed, HasKey, Outlives
    <3> QED
      BY <1>3, <3>1, <3>2
  <2> QED
    BY <1>1, <2>2, <2>3, <2>4 DEF TokensKeyed
<1>15. SignersSaved'
  <2>1. \E e \in ring' : e.retired = 0
    BY <1>1, RotatedKeys
  <2>2. CASE keyFile' = Rotated
    BY <1>1, <2>1, <2>2 DEF SignersSaved
  <2>3. CASE keyFile' = keyFile /\ savedKids' = savedKids
    <3>1. \A e \in Rotated : e.retired = 0 /\ e.kid \in savedKids => e \in ring
      <4>1. rotations + 2 \notin savedKids
        BY <1>2 DEF IdInv, KidsKnown
      <4> QED
        BY <4>1, RotatedKeys
    <3> QED
      BY <1>1, <2>1, <2>3, <3>1 DEF IdInv, SignersSaved
  <2> QED
    BY <1>3, <2>2, <2>3
<1>16. \A a \in Asker : asks'[a].iat <= tokenClock'
  BY <1>1 DEF IdInv
<1> QED
  BY <1>5, <1>12, <1>14, <1>15, <1>16 DEF IdInv

LEMMA RestartKeeps ==
  ASSUME IdInv, RestartKeyring
  PROVE  IdInv'
<1>1. /\ ring' = keyFile /\ asks' = [a \in Asker |-> NoAsk]
      /\ UNCHANGED <<keyFile, savedKids, rotations, tokenClock, jobAttempt, jobToken, idTokens>>
  BY DEF RestartKeyring
<1>2. NoAsk \in Ask /\ NoAsk.iat = 0
  BY DEF NoAsk, Ask, JobToken
<1>3. RingTyped'
  BY <1>1, <1>2 DEF IdInv, RingTyped
<1>4. KidsKnown'
  BY <1>1 DEF IdInv, KidsKnown, Kids
<1>5. TokensKeyed'
  <2>1. Kids(keyFile) \subseteq savedKids
    BY DEF IdInv, KidsKnown
  <2>2. \A t \in idTokens : t.kid \in savedKids => HasKey(keyFile, t)
    BY DEF IdInv, TokensKeyed
  <2>3. Kids(ring)' \cup savedKids' = savedKids
    BY <1>1, <2>1 DEF Kids
  <2>4. \A t \in idTokens : (HasKey(keyFile, t) => HasKey(ring, t)' /\ HasKey(keyFile, t)')
    BY <1>1 DEF HasKey, Outlives
  <2> QED
    BY <1>1, <2>2, <2>3, <2>4 DEF IdInv, TokensKeyed
<1>6. SignersSaved'
  BY <1>1 DEF IdInv, SignersSaved
<1>7. \A a \in Asker : asks'[a].iat <= tokenClock'
  <2>1. 0 <= tokenClock
    BY DEF IdInv, RingTyped
  <2> QED
    BY <1>1, <1>2, <2>1
<1> QED
  BY <1>3, <1>4, <1>5, <1>6, <1>7 DEF IdInv

LEMMA TickKeeps ==
  ASSUME IdInv, TokenTick
  PROVE  IdInv'
<1>1. /\ tokenClock' = tokenClock + 1 /\ idTokens' = {t \in idTokens : t.exp > tokenClock}
      /\ UNCHANGED <<ring, keyFile, savedKids, rotations, jobAttempt, jobToken, asks>>
  BY DEF TokenTick
<1>2. /\ tokenClock \in Nat \ {0} /\ idTokens \in SUBSET IdToken /\ IdTokenTTL \in Nat
      /\ ring \in SUBSET Key /\ keyFile \in SUBSET Key /\ asks \in [Asker -> Ask]
  BY IdTokensAssumption DEF IdInv, RingTyped
<1>3. RingTyped'
  BY <1>1, <1>2 DEF IdInv, RingTyped
<1>4. KidsKnown'
  BY <1>1 DEF IdInv, KidsKnown, Kids
<1>5. ASSUME NEW t \in idTokens', NEW keys \in SUBSET Key, HasKey(keys, t)
      PROVE  \E e \in keys : e.kid = t.kid /\ Outlives(e, t)'
  <2>1. PICK e \in keys : e.kid = t.kid /\ Outlives(e, t)
    BY <1>5 DEF HasKey
  <2>2. t \in IdToken /\ t.exp > tokenClock /\ e \in Key
    BY <1>1, <1>2
  <2>3. t.exp <= e.retired + IdTokenTTL => tokenClock + 1 <= e.retired + IdTokenTTL
    BY <1>2, <2>2 DEF IdToken, Key
  <2> QED
    BY <1>1, <2>1, <2>3 DEF Outlives
<1>6. TokensKeyed'
  <2>1. \A t \in idTokens' : t.exp <= tokenClock' + IdTokenTTL
    BY <1>1, <1>2 DEF IdInv, TokensKeyed, IdToken
  <2>2. \A t \in idTokens' : HasKey(ring, t) => HasKey(ring, t)'
    BY <1>1, <1>2, <1>5 DEF HasKey
  <2>3. \A t \in idTokens' : HasKey(keyFile, t) => HasKey(keyFile, t)'
    BY <1>1, <1>2, <1>5 DEF HasKey
  <2>4. Kids(ring)' = Kids(ring) /\ savedKids' = savedKids /\ idTokens' \subseteq idTokens
    BY <1>1 DEF Kids
  <2> QED
    BY <2>1, <2>2, <2>3, <2>4 DEF IdInv, TokensKeyed
<1>7. SignersSaved'
  BY <1>1 DEF IdInv, SignersSaved
<1>8. \A a \in Asker : asks'[a].iat <= tokenClock'
  <2>1. ASSUME NEW a \in Asker PROVE asks[a].iat <= tokenClock + 1
    <3>1. asks[a].iat \in Nat /\ asks[a].iat <= tokenClock
      BY <1>2 DEF IdInv, Ask
    <3> QED
      BY <1>2, <3>1
  <2> QED
    BY <1>1, <2>1
<1> QED
  BY <1>3, <1>4, <1>6, <1>7, <1>8 DEF IdInv

LEMMA SignKeeps ==
  ASSUME IdInv, NEW a \in Asker, SignToken(a)
  PROVE  IdInv'
<1> DEFINE t == [kid |-> Active, exp |-> asks[a].iat + IdTokenTTL]
<1>1. /\ idTokens' = idTokens \cup {t} /\ asks' = [asks EXCEPT ![a] = NoAsk]
      /\ UNCHANGED <<ring, keyFile, savedKids, rotations, tokenClock, jobAttempt, jobToken>>
  BY DEF SignToken
<1>2. /\ tokenClock \in Nat \ {0} /\ IdTokenTTL \in Nat /\ asks \in [Asker -> Ask]
      /\ ring \in SUBSET Key /\ idTokens \in SUBSET IdToken
  BY IdTokensAssumption DEF IdInv, RingTyped
<1>3. PICK e \in ring : e.retired = 0 /\ e.kid = Active
  BY ActiveKey
<1>4. asks[a].iat \in Nat /\ asks[a].iat <= tokenClock
  BY <1>2 DEF IdInv, Ask
<1>5. t \in IdToken /\ t.kid = e.kid /\ t.exp <= tokenClock + IdTokenTTL
  BY <1>2, <1>3, <1>4 DEF IdToken, Key
<1> HIDE DEF t
<1>6. NoAsk \in Ask /\ NoAsk.iat = 0
  BY DEF NoAsk, Ask, JobToken
<1>7. RingTyped'
  <2>1. asks' \in [Asker -> Ask]
    BY <1>1, <1>2, <1>6
  <2> QED
    BY <1>1, <1>2, <1>5, <2>1 DEF IdInv, RingTyped
<1>8. KidsKnown'
  BY <1>1, <1>3, <1>5 DEF IdInv, KidsKnown, Kids
<1>9. TokensKeyed'
  <2>1. HasKey(ring, t)
    BY <1>3, <1>5 DEF HasKey, Outlives
  <2>2. t.kid \in savedKids => HasKey(keyFile, t)
    BY <1>3, <1>5 DEF IdInv, SignersSaved, HasKey, Outlives
  <2>3. \A u : /\ HasKey(ring, u) => HasKey(ring, u)'
               /\ HasKey(keyFile, u) => HasKey(keyFile, u)'
    BY <1>1 DEF HasKey, Outlives
  <2>4. Kids(ring)' = Kids(ring) /\ savedKids' = savedKids /\ tokenClock' = tokenClock
    BY <1>1 DEF Kids
  <2> QED
    BY <1>1, <1>5, <2>1, <2>2, <2>3, <2>4 DEF IdInv, TokensKeyed
<1>10. SignersSaved'
  BY <1>1 DEF IdInv, SignersSaved
<1>11. \A b \in Asker : asks'[b].iat <= tokenClock'
  BY <1>1, <1>2, <1>6 DEF IdInv
<1> QED
  BY <1>7, <1>8, <1>9, <1>10, <1>11 DEF IdInv

\* A step that leaves the keys, the clock and the tokens alone.
LEMMA RingRests ==
  ASSUME IdInv,
         UNCHANGED <<ring, keyFile, savedKids, rotations, tokenClock, idTokens>>,
         jobAttempt' \in Nat, jobToken' \in JobToken, asks' \in [Asker -> Ask],
         \A a \in Asker : asks'[a].iat <= tokenClock
  PROVE  IdInv'
<1>1. RingTyped'
  BY DEF IdInv, RingTyped
<1>2. KidsKnown'
  BY DEF IdInv, KidsKnown, Kids
<1>3. TokensKeyed'
  BY DEF IdInv, TokensKeyed, HasKey, Outlives, Kids
<1>4. SignersSaved'
  BY DEF IdInv, SignersSaved
<1> QED
  BY <1>1, <1>2, <1>3, <1>4 DEF IdInv

LEMMA IdStep == IdInv /\ [TokenNext]_tokenVars => IdInv'
<1> SUFFICES ASSUME IdInv, [TokenNext]_tokenVars PROVE IdInv'
  OBVIOUS
<1>a. /\ jobAttempt \in Nat /\ jobToken \in JobToken /\ asks \in [Asker -> Ask]
      /\ tokenClock \in Nat \ {0} /\ JobTokenTTL \in Nat
      /\ \A a \in Asker : asks[a].iat <= tokenClock
  BY IdTokensAssumption DEF IdInv, RingTyped
<1>b. NoAsk \in Ask /\ NoAsk.iat = 0 /\ 0 <= tokenClock
  BY <1>a DEF NoAsk, Ask, JobToken
<1>c. ASSUME NEW a \in Asker, NEW new \in Ask, new.iat <= tokenClock,
             asks' = [asks EXCEPT ![a] = new],
             UNCHANGED <<ring, keyFile, savedKids, rotations, tokenClock, idTokens, jobAttempt, jobToken>>
      PROVE  IdInv'
  BY <1>a, <1>c, RingRests
<1>1. CASE Rotate
  BY <1>1, RotateKeeps
<1>2. CASE RestartKeyring
  BY <1>2, RestartKeeps
<1>3. CASE TokenTick
  BY <1>3, TickKeeps
<1>4. CASE MintJob
  BY <1>4, <1>a, RingRests DEF MintJob, LookupJob, JobToken
<1>5. CASE RetryJob
  BY <1>5, <1>a, RingRests DEF RetryJob
<1>6. ASSUME NEW a \in Asker, Verify(a) PROVE IdInv'
  <2> DEFINE new == [asks[a] EXCEPT !.at = "verified", !.tok = jobToken]
  <2>1. new \in Ask /\ new.iat = asks[a].iat
    BY <1>a DEF Ask
  <2>2. asks' = [asks EXCEPT ![a] = new]
    BY <1>6 DEF Verify
  <2> HIDE DEF new
  <2> QED
    BY <1>6, <1>a, <1>c, <2>1, <2>2 DEF Verify
<1>7. ASSUME NEW a \in Asker, LookupSubject(a) PROVE IdInv'
  <2> DEFINE new == [asks[a] EXCEPT !.at = "known"]
  <2>1. new \in Ask /\ new.iat = asks[a].iat
    BY <1>a DEF Ask
  <2>2. asks' = [asks EXCEPT ![a] = new] \/ asks' = [asks EXCEPT ![a] = NoAsk]
    BY <1>7 DEF LookupSubject
  <2> HIDE DEF new
  <2> QED
    BY <1>7, <1>a, <1>b, <1>c, <2>1, <2>2 DEF LookupSubject
<1>8. ASSUME NEW a \in Asker, DateToken(a) PROVE IdInv'
  <2> DEFINE new == [asks[a] EXCEPT !.at = "dated", !.iat = tokenClock]
  <2>1. new \in Ask /\ new.iat = tokenClock
    BY <1>a DEF Ask
  <2>2. asks' = [asks EXCEPT ![a] = new]
    BY <1>8 DEF DateToken
  <2> HIDE DEF new
  <2>3. new.iat <= tokenClock
    BY <1>a, <2>1
  <2>4. UNCHANGED <<ring, keyFile, savedKids, rotations, tokenClock, idTokens, jobAttempt, jobToken>>
    BY <1>8 DEF DateToken
  <2> QED
    BY <1>c, <2>1, <2>2, <2>3, <2>4
<1>9. ASSUME NEW a \in Asker, SignToken(a) PROVE IdInv'
  BY <1>9, SignKeeps
<1>10. CASE UNCHANGED tokenVars
  BY <1>10, <1>a, RingRests DEF tokenVars
<1> QED
  BY <1>1, <1>2, <1>3, <1>4, <1>5, <1>6, <1>7, <1>8, <1>9, <1>10 DEF TokenNext

LEMMA IdStart == TokenInit => IdInv
<1> SUFFICES ASSUME TokenInit PROVE IdInv
  OBVIOUS
<1>1. [kid |-> 1, retired |-> 0] \in Key /\ NoAsk \in Ask /\ NoAsk.iat = 0 /\ NoAsk.tok \in JobToken
  BY DEF Key, NoAsk, Ask, JobToken
<1>2. RingTyped
  BY <1>1 DEF TokenInit, RingTyped
<1>3. KidsKnown
  BY DEF TokenInit, KidsKnown, Kids
<1>4. TokensKeyed
  BY DEF TokenInit, TokensKeyed
<1>5. SignersSaved
  BY DEF TokenInit, SignersSaved
<1>6. \A a \in Asker : asks[a].iat <= tokenClock
  <2>1. \A a \in Asker : asks[a] = NoAsk
    BY DEF TokenInit
  <2>2. tokenClock = 1 /\ 0 <= 1
    BY DEF TokenInit
  <2> QED
    BY <1>1, <2>1, <2>2
<1> QED
  BY <1>2, <1>3, <1>4, <1>5, <1>6 DEF IdInv

\* An ID token signed with a key that was ever saved can be verified until it
\* expires, whatever rotations, failed saves and starts come in between.
THEOREM IdTokensServed == TokenInit /\ [][TokenNext]_tokenVars => []IdTokensVerify
<1>1. ASSUME IdInv PROVE IdTokensVerify
  <2>1. ASSUME NEW t \in idTokens, t.kid \in savedKids PROVE t.kid \in JWKS
    <3>1. PICK e \in ring : e.kid = t.kid /\ Outlives(e, t)
      BY <1>1, <2>1 DEF IdInv, TokensKeyed, HasKey
    <3>2. e \in Key /\ tokenClock \in Nat /\ IdTokenTTL \in Nat
      BY <1>1, IdTokensAssumption DEF IdInv, RingTyped
    <3>3. Usable(e)
      BY <3>1, <3>2 DEF Outlives, Usable, Key
    <3> QED
      BY <3>1, <3>3 DEF JWKS, Kids
  <2> QED
    BY <2>1 DEF IdTokensVerify
<1> QED
  BY <1>1, IdStart, IdStep, PTL

-----------------------------------------------------------------------------
(***************************************************************************)
(* The archives of the cache.  Until an upload is done every byte it has   *)
(* recorded is under the entry's key, or in a part that stands for its     *)
(* range; the commit therefore finds either a gap, an overlap, bytes too   *)
(* many, or the archive.  After it nothing writes the key but an eviction, *)
(* which takes the row away first.                                         *)
(***************************************************************************)
ChunkRange == Nat \X (Nat \ {0})
CacheRow == [key : CacheKey, ref : STRING, size : Int, finalized : BOOLEAN, used : Nat, live : BOOLEAN]
CacheUpload == [open : BOOLEAN, ranges : Seq(ChunkRange), written : Nat, done : BOOLEAN]
CacheCommit == [at : {"none", "upload", "abort", "finalize", "evict", "delete"},
                declared : Int, size : Int, evicts : SUBSET Nat]

CacheRowsTyped ==
  /\ row \in Seq(CacheRow) /\ up \in Seq(CacheUpload) /\ commit \in Seq(CacheCommit)
  /\ object \in Seq(SUBSET Nat) /\ parts \in Seq(SUBSET ChunkRange)
  /\ Len(up) = Len(row) /\ Len(commit) = Len(row) /\ Len(object) = Len(row) /\ Len(parts) = Len(row)
  /\ cacheClock \in Nat

\* What was sent, and what is stored, ends somewhere.
Ends(u, o) == \E b \in Nat : o \union Covered(u) \subseteq 0 .. b

\* Every byte recorded is under the key, or in a part that stands for its range.
Kept(apart, u, o, p) ==
  IF apart
  THEN p \subseteq ToSet(u.ranges) /\ \A r \in ToSet(u.ranges) : \E q \in p : q[1] = r[1]
  ELSE Covered(u) \subseteq o

\* Where the commit of one entry stands, and what the entry has by then.
EntryOK(apart, r, u, o, p, c) ==
  /\ Ends(u, o)
  /\ ~u.done => Kept(apart, u, o, p)
  /\ u.open => c.at = "none" /\ ~u.done
  /\ c.at \in {"upload", "abort"} => ~u.done
  /\ c.at = "finalize" => u.done /\ ~r.finalized /\ o = 0 .. c.size - 1
  /\ r.finalized => u.done
  /\ ~r.live => r.finalized
  /\ r.live /\ r.finalized => o = 0 .. r.size - 1

EntriesOK == \A id \in Entries : EntryOK(staging, row[id], up[id], object[id], parts[id], commit[id])
EvictedGone == \A id \in Entries : \A e \in commit[id].evicts : e \in Entries /\ ~Live(e)

ArchiveInv == CacheRowsTyped /\ EntriesOK /\ EvictedGone

\* A bounded set of naturals that is not empty has a greatest member.
LEMMA GreatestNatural ==
  ASSUME NEW S, NEW b \in Nat, S \subseteq 0 .. b, S # {}
  PROVE  Max(S) \in S /\ \A m \in S : m <= Max(S)
<1> DEFINE Uppers == {n \in Nat : \A m \in S : m <= n}
<1>1. b \in Uppers
  OBVIOUS
<1>2. PICK n \in Uppers : \A m \in Uppers : n <= m
  <2>1. Uppers \subseteq Nat /\ Uppers # {}
    BY <1>1
  <2> HIDE DEF Uppers
  <2> QED
    BY <2>1, LeastNatural
<1>3. n \in S
  <2> SUFFICES ASSUME n \notin S PROVE FALSE
    OBVIOUS
  <2>1. PICK s \in S : TRUE
    OBVIOUS
  <2>2. s \in Nat /\ s <= n /\ s # n
    BY <1>2, <2>1
  <2>3. n - 1 \in Nat
    BY <1>2, <2>2
  <2>4. \A m \in S : m <= n - 1
    <3> SUFFICES ASSUME NEW m \in S PROVE m <= n - 1
      OBVIOUS
    <3>1. m \in Nat /\ m <= n /\ m # n
      BY <1>2
    <3> QED
      BY <3>1, <1>2
  <2>5. n - 1 \in Uppers
    BY <2>3, <2>4
  <2> QED
    BY <2>5, <1>2
<1>4. \A m \in S : n >= m
  BY <1>2
<1>5. Max(S) \in S /\ \A m \in S : Max(S) >= m
  BY <1>3, <1>4 DEF Max
<1> QED
  BY <1>5

\* The bytes of one more range.
LEMMA CoveredAppend ==
  ASSUME NEW u \in CacheUpload, NEW v \in CacheUpload, NEW w \in ChunkRange,
         v.ranges = Append(u.ranges, w)
  PROVE  /\ ToSet(v.ranges) = ToSet(u.ranges) \union {w}
         /\ Covered(v) = Covered(u) \union Bytes(w)
<1> DEFINE s == u.ranges
           t == v.ranges
<1>1. s \in Seq(ChunkRange) /\ t \in Seq(ChunkRange) /\ t = Append(s, w)
  BY DEF CacheUpload
<1> HIDE DEF s, t
<1>2. ToSet(t) = ToSet(s) \union {w}
  <2>1. ASSUME NEW x \in ToSet(t) PROVE x \in ToSet(s) \union {w}
    BY <1>1, <2>1 DEF ToSet
  <2>2. ASSUME NEW x \in ToSet(s) PROVE x \in ToSet(t)
    <3>1. PICK i \in 1..Len(s) : x = s[i]
      BY <1>1, <2>2 DEF ToSet
    <3>2. i \in DOMAIN t /\ t[i] = s[i]
      BY <1>1, <3>1
    <3> QED
      BY <3>1, <3>2 DEF ToSet
  <2>3. w \in ToSet(t)
    <3>1. Len(t) \in DOMAIN t /\ t[Len(t)] = w
      BY <1>1
    <3> QED
      BY <3>1 DEF ToSet
  <2> QED
    BY <2>1, <2>2, <2>3
<1>3. Covered(v) = UNION {Bytes(r) : r \in ToSet(s) \union {w}} /\ Covered(u) = UNION {Bytes(r) : r \in ToSet(s)}
  BY <1>2 DEF Covered, s, t
<1> QED
  BY <1>2, <1>3 DEF s, t

\* A range has its first byte, and none below it.
LEMMA BytesOf ==
  ASSUME NEW w \in ChunkRange
  PROVE  /\ w[1] \in Nat /\ w[2] \in Nat \ {0}
         /\ w[1] \in Bytes(w)
         /\ Bytes(w) \subseteq 0 .. (w[1] + w[2])
  BY DEF ChunkRange, Bytes

\* What a commit lets through is the archive, whole.
LEMMA CommitWhole ==
  ASSUME NEW u \in CacheUpload, NEW o \in SUBSET Nat, NEW p \in SUBSET ChunkRange,
         Ends(u, o), Kept(staging, u, o, p), u.ranges # <<>>, Coverage(u) # -1,
         ~staging => Max(o) + 1 = Coverage(u)
  PROVE  /\ Coverage(u) \in Int
         /\ IF staging THEN UNION {Bytes(q) : q \in p} = 0 .. Coverage(u) - 1
                       ELSE o = 0 .. Coverage(u) - 1
<1>1. PICK b \in Nat : o \union Covered(u) \subseteq 0 .. b
  BY DEF Ends
<1>2. /\ NoOverlap(u) /\ Covered(u) = 0 .. Coverage(u) - 1
      /\ Coverage(u) = Max(Covered(u)) + 1
  BY DEF Coverage
<1> DEFINE s == u.ranges
<1>3. s \in Seq(ChunkRange) /\ s # <<>>
  BY DEF CacheUpload
<1>4. 1 \in DOMAIN s
  BY <1>3
<1>5. \A i \in DOMAIN s : s[i] \in ChunkRange /\ s[i] \in ToSet(s)
  BY <1>3 DEF ToSet
<1>6. \A r \in ToSet(s) : Bytes(r) \subseteq Covered(u)
  BY DEF Covered
<1>7. Covered(u) # {}
  BY <1>4, <1>5, <1>6, BytesOf
<1>8. Max(Covered(u)) \in Nat
  BY <1>1, <1>7, GreatestNatural
<1>9. CASE staging
  <2>1. p \subseteq ToSet(s) /\ \A r \in ToSet(s) : \E q \in p : q[1] = r[1]
    BY <1>9 DEF Kept
  <2>2. ASSUME NEW r \in ToSet(s) PROVE r \in p
    <3>1. PICK q \in p : q[1] = r[1]
      BY <2>1
    <3>2. PICK i \in DOMAIN s : r = s[i]
      BY DEF ToSet
    <3>3. PICK j \in DOMAIN s : q = s[j]
      BY <2>1 DEF ToSet
    <3>4. r[1] \in Bytes(r) /\ q[1] \in Bytes(q)
      BY <3>2, <3>3, <1>5, BytesOf
    <3>5. i = j
      BY <3>1, <3>2, <3>3, <3>4, <1>2 DEF NoOverlap
    <3> QED
      BY <3>2, <3>3, <3>5
  <2>3. p = ToSet(s)
    BY <2>1, <2>2
  <2>4. UNION {Bytes(q) : q \in p} = Covered(u)
    BY <2>3 DEF Covered
  <2>5. Coverage(u) \in Int
    BY <1>2, <1>8
  <2> QED
    BY <2>4, <2>5, <1>2, <1>9
<1>10. CASE ~staging
  <2>1. Covered(u) \subseteq o /\ o # {} /\ o \subseteq 0 .. b
    BY <1>10, <1>1, <1>7 DEF Kept
  <2>2. Max(o) \in o /\ \A m \in o : m <= Max(o)
    BY <2>1, GreatestNatural
  <2>3. Max(o) \in Nat /\ Max(o) = Max(Covered(u))
    <3>1. Max(o) \in Nat
      BY <2>2
    <3>2. Max(o) + 1 = Max(Covered(u)) + 1
      BY <1>2, <1>10
    <3> QED
      BY <3>1, <3>2, <1>8
  <2>4. ASSUME NEW m \in o PROVE m \in 0 .. Coverage(u) - 1
    BY <2>2, <2>3, <1>2, <1>8
  <2>5. Coverage(u) \in Int
    BY <1>2, <1>8
  <2>6. o = 0 .. Coverage(u) - 1
    BY <2>4, <2>1, <1>2
  <2> QED
    BY <2>5, <2>6, <1>10
<1> QED
  BY <1>9, <1>10

\* What the types say of one entry.
LEMMA EntryTyped ==
  ASSUME CacheRowsTyped, NEW id \in Entries
  PROVE  /\ row[id] \in CacheRow /\ up[id] \in CacheUpload /\ commit[id] \in CacheCommit
         /\ object[id] \in SUBSET Nat /\ parts[id] \in SUBSET ChunkRange
         /\ id \in DOMAIN up /\ id \in DOMAIN commit /\ id \in DOMAIN object /\ id \in DOMAIN parts
         /\ id \in Nat \ {0} /\ id <= Len(row)
<1> DEFINE n == Len(row)
<1>1. n \in Nat /\ DOMAIN row = 1..n /\ DOMAIN up = 1..n /\ DOMAIN commit = 1..n
      /\ DOMAIN object = 1..n /\ DOMAIN parts = 1..n
  BY DEF CacheRowsTyped
<1>2. id \in 1..n
  BY <1>1 DEF Entries
<1> HIDE DEF n
<1>3. id \in Nat \ {0} /\ id <= n
  BY <1>1, <1>2
<1> QED
  BY <1>1, <1>2, <1>3 DEF CacheRowsTyped, n

\* A step that changes one entry keeps the others as they are.
LEMMA OneEntry ==
  ASSUME ArchiveInv, CacheRowsTyped', NEW id \in Entries, Entries' = Entries, UNCHANGED staging,
         \A j \in Entries : j # id => /\ row'[j] = row[j] /\ up'[j] = up[j] /\ object'[j] = object[j]
                                      /\ parts'[j] = parts[j] /\ commit'[j] = commit[j],
         EntryOK(staging, row'[id], up'[id], object'[id], parts'[id], commit'[id]),
         \A j \in Entries : row'[j].live = row[j].live,
         commit'[id].evicts \subseteq commit[id].evicts
  PROVE  ArchiveInv'
<1>1. EntriesOK'
  BY DEF ArchiveInv, EntriesOK
<1>2. EvictedGone'
  BY DEF ArchiveInv, EvictedGone, Live
<1> QED
  BY <1>1, <1>2 DEF ArchiveInv

LEMMA ReserveKeeps ==
  ASSUME CacheAssumption, ArchiveInv, NEW t \in CacheToken, NEW k \in CacheKey, HandleReserve(t, k)
  PROVE  ArchiveInv'
<1> DEFINE r == [key |-> k, ref |-> t.ref, size |-> 0, finalized |-> FALSE,
                 used |-> cacheClock, live |-> TRUE]
           u == [NoUpload EXCEPT !.open = TRUE]
           n == Len(row)
<1>1. /\ row' = Append(row, r) /\ up' = Append(up, u) /\ object' = Append(object, {})
      /\ parts' = Append(parts, {}) /\ commit' = Append(commit, NoCommit)
      /\ UNCHANGED <<cacheClock, staging>>
  BY DEF HandleReserve
<1>2. r \in CacheRow /\ r.live /\ ~r.finalized
  BY DEF CacheAssumption, CacheRow, ArchiveInv, CacheRowsTyped
<1>3. u \in CacheUpload /\ u.ranges = <<>> /\ ~u.done
  <2>1. <<>> \in Seq(ChunkRange)
    OBVIOUS
  <2>2. NoUpload \in CacheUpload /\ NoUpload.ranges = <<>> /\ ~NoUpload.done
    BY <2>1 DEF NoUpload, CacheUpload
  <2> QED
    BY <2>2 DEF CacheUpload
<1>4. NoCommit \in CacheCommit /\ NoCommit.at = "none" /\ NoCommit.evicts = {}
  BY DEF NoCommit, CacheCommit
<1> HIDE DEF r, u
<1>5. CacheRowsTyped'
  BY <1>1, <1>2, <1>3, <1>4 DEF ArchiveInv, CacheRowsTyped
<1>6. /\ n \in Nat /\ DOMAIN row = 1..n /\ DOMAIN row' = 1..(n + 1)
      /\ row'[n + 1] = r /\ up'[n + 1] = u /\ object'[n + 1] = {} /\ parts'[n + 1] = {}
      /\ commit'[n + 1] = NoCommit
  BY <1>1 DEF ArchiveInv, CacheRowsTyped
<1>7. \A j \in 1..n : /\ row'[j] = row[j] /\ up'[j] = up[j] /\ object'[j] = object[j]
                      /\ parts'[j] = parts[j] /\ commit'[j] = commit[j]
  BY <1>1 DEF ArchiveInv, CacheRowsTyped
<1> HIDE DEF n
<1>8. EntryOK(staging, r, u, {}, {}, NoCommit)
  <2>1. ToSet(u.ranges) = {}
    BY <1>3 DEF ToSet
  <2>2. Covered(u) = {}
    BY <2>1 DEF Covered
  <2>3. Ends(u, {})
    BY <2>2 DEF Ends
  <2>4. Kept(staging, u, {}, {})
    BY <2>1, <2>2 DEF Kept
  <2> QED
    BY <2>3, <2>4, <1>2, <1>3, <1>4 DEF EntryOK
<1>9. \A j \in 1..(n + 1) : j \in 1..n \/ j = n + 1
  BY <1>6
<1>10. \A j \in 1..n : j \in 1..(n + 1)
  BY <1>6
<1>11. EntriesOK'
  BY <1>1, <1>6, <1>7, <1>8, <1>9 DEF ArchiveInv, EntriesOK, Entries
<1>12. EvictedGone'
  BY <1>4, <1>6, <1>7, <1>9, <1>10 DEF ArchiveInv, EvictedGone, Entries, Live
<1> QED
  BY <1>5, <1>11, <1>12 DEF ArchiveInv

LEMMA UpdatedKeeps ==
  ASSUME NEW A, NEW s \in Seq(A), NEW id \in DOMAIN s, NEW x \in A
  PROVE  /\ [s EXCEPT ![id] = x] \in Seq(A)
         /\ Len([s EXCEPT ![id] = x]) = Len(s)
         /\ [s EXCEPT ![id] = x][id] = x
         /\ \A j \in DOMAIN s : j # id => [s EXCEPT ![id] = x][j] = s[j]
<1>1. DOMAIN s = 1..Len(s) /\ Len(s) \in Nat
  OBVIOUS
<1> QED
  BY <1>1

\* A step on one entry that writes whole new values in its sequences.
LEMMA EntryStep ==
  ASSUME ArchiveInv, NEW id \in Entries, UNCHANGED staging,
         NEW r \in CacheRow, NEW u \in CacheUpload, NEW o \in SUBSET Nat,
         NEW p \in SUBSET ChunkRange, NEW c \in CacheCommit,
         row' = [row EXCEPT ![id] = r], up' = [up EXCEPT ![id] = u],
         object' = [object EXCEPT ![id] = o], parts' = [parts EXCEPT ![id] = p],
         commit' = [commit EXCEPT ![id] = c],
         cacheClock' \in Nat,
         r.live = row[id].live, c.evicts \subseteq commit[id].evicts,
         EntryOK(staging, r, u, o, p, c)
  PROVE  ArchiveInv'
<1> USE DEF Entries
<1>1. CacheRowsTyped /\ CacheRowsTyped
  BY DEF ArchiveInv
<1>2. id \in DOMAIN up /\ id \in DOMAIN commit /\ id \in DOMAIN object /\ id \in DOMAIN parts
  BY <1>1, EntryTyped
<1>3. DOMAIN row = 1..Len(row) /\ DOMAIN up = DOMAIN row /\ DOMAIN commit = DOMAIN row
      /\ DOMAIN object = DOMAIN row /\ DOMAIN parts = DOMAIN row
  BY <1>1 DEF CacheRowsTyped
<1>4. /\ row' \in Seq(CacheRow) /\ Len(row') = Len(row) /\ row'[id] = r
      /\ \A j \in Entries : j # id => row'[j] = row[j]
  BY <1>1, UpdatedKeeps DEF CacheRowsTyped
<1>5. /\ up' \in Seq(CacheUpload) /\ Len(up') = Len(up) /\ up'[id] = u
      /\ \A j \in Entries : j # id => up'[j] = up[j]
  BY <1>1, <1>2, <1>3, UpdatedKeeps DEF CacheRowsTyped
<1>6. /\ commit' \in Seq(CacheCommit) /\ Len(commit') = Len(commit) /\ commit'[id] = c
      /\ \A j \in Entries : j # id => commit'[j] = commit[j]
  BY <1>1, <1>2, <1>3, UpdatedKeeps DEF CacheRowsTyped
<1>7. /\ object' \in Seq(SUBSET Nat) /\ Len(object') = Len(object) /\ object'[id] = o
      /\ \A j \in Entries : j # id => object'[j] = object[j]
  BY <1>1, <1>2, <1>3, UpdatedKeeps DEF CacheRowsTyped
<1>8. /\ parts' \in Seq(SUBSET ChunkRange) /\ Len(parts') = Len(parts) /\ parts'[id] = p
      /\ \A j \in Entries : j # id => parts'[j] = parts[j]
  BY <1>1, <1>2, <1>3, UpdatedKeeps DEF CacheRowsTyped
<1>9. CacheRowsTyped'
  BY <1>1, <1>4, <1>5, <1>6, <1>7, <1>8 DEF CacheRowsTyped
<1>10. Entries' = Entries
  BY <1>4, <1>1, <1>9 DEF CacheRowsTyped
<1>11. \A j \in Entries : row'[j].live = row[j].live
  BY <1>4
<1> HIDE DEF Entries
<1> QED
  BY <1>4, <1>5, <1>6, <1>7, <1>8, <1>9, <1>10, <1>11, OneEntry

\* A sequence is the same as itself with one of its members written again.
LEMMA SameWritten ==
  ASSUME NEW A, NEW s \in Seq(A), NEW id \in DOMAIN s
  PROVE  s = [s EXCEPT ![id] = s[id]]
  OBVIOUS
LEMMA SameEntry ==
  ASSUME CacheRowsTyped, NEW id \in Entries
  PROVE  /\ row = [row EXCEPT ![id] = row[id]] /\ up = [up EXCEPT ![id] = up[id]]
         /\ object = [object EXCEPT ![id] = object[id]] /\ parts = [parts EXCEPT ![id] = parts[id]]
         /\ commit = [commit EXCEPT ![id] = commit[id]]
<1>1. row = [row EXCEPT ![id] = row[id]]
  BY SameWritten DEF CacheRowsTyped, Entries
<1>2. id \in DOMAIN up /\ id \in DOMAIN commit /\ id \in DOMAIN object /\ id \in DOMAIN parts
  BY EntryTyped
<1> QED
  BY <1>1, <1>2, SameWritten DEF CacheRowsTyped

\* What the limit lets through of a chunk is a chunk, with the same offset.
LEMMA ClipTyped ==
  ASSUME CacheAssumption, NEW u \in CacheUpload, NEW c \in Chunk
  PROVE  Clip(u, c) \in ChunkRange
<1> DEFINE left == Max({MaxEntryBytes - u.written, 0})
           got == Min({c[2], left + 1})
<1>1. MaxEntryBytes - u.written \in Int /\ c[1] \in Nat /\ c[2] \in Nat \ {0}
  BY DEF CacheAssumption, CacheUpload
<1>2. left \in Nat
  <2> DEFINE d == MaxEntryBytes - u.written
             m == IF d >= 0 THEN d ELSE 0
  <2>1. m \in {d, 0} /\ \A y \in {d, 0} : m >= y
    BY <1>1
  <2> HIDE DEF m
  <2>2. Max({d, 0}) \in {d, 0} /\ \A y \in {d, 0} : Max({d, 0}) >= y
    BY <2>1 DEF Max
  <2> QED
    BY <2>2, <1>1
<1>3. got \in Nat \ {0}
  <2> DEFINE d == c[2]
             e == left + 1
             m == IF d <= e THEN d ELSE e
  <2>0. d \in Nat \ {0} /\ e \in Nat \ {0}
    BY <1>1, <1>2
  <2> HIDE DEF d, e
  <2>1. m \in {d, e} /\ \A y \in {d, e} : m <= y
    BY <2>0
  <2> HIDE DEF m
  <2>2. Min({d, e}) \in {d, e}
    BY <2>1 DEF Min
  <2>3. Min({d, e}) \in Nat \ {0}
    BY <2>2, <2>0
  <2> QED
    BY <2>3 DEF d, e
<1> QED
  BY <1>1, <1>3 DEF Clip, ChunkRange

\* One more chunk, in place or in a part of its own.
LEMMA ChunkKeeps ==
  ASSUME NEW u \in CacheUpload, NEW o \in SUBSET Nat, NEW p \in SUBSET ChunkRange, NEW w \in ChunkRange,
         NEW v \in CacheUpload, v.ranges = Append(u.ranges, w),
         Ends(u, o), Kept(staging, u, o, p)
  PROVE  LET q == IF staging THEN {x \in p : x[1] # w[1]} \union {w} ELSE p
             n == IF staging THEN o ELSE o \union Bytes(w)
         IN  q \in SUBSET ChunkRange /\ n \in SUBSET Nat /\ Ends(v, n) /\ Kept(staging, v, n, q)
<1> DEFINE q == IF staging THEN {x \in p : x[1] # w[1]} \union {w} ELSE p
           n == IF staging THEN o ELSE o \union Bytes(w)
<1>1. /\ ToSet(v.ranges) = ToSet(u.ranges) \union {w}
      /\ Covered(v) = Covered(u) \union Bytes(w)
  BY CoveredAppend
<1>2. w[1] \in Nat /\ w[2] \in Nat /\ Bytes(w) \subseteq 0 .. (w[1] + w[2])
  BY BytesOf
<1>3. q \in SUBSET ChunkRange /\ n \in SUBSET Nat /\ n \subseteq o \union Bytes(w)
  <2>1. 0 .. (w[1] + w[2]) \subseteq Nat
    BY <1>2
  <2>2. Bytes(w) \subseteq Nat
    BY <2>1, <1>2
  <2>3. n \subseteq Nat /\ n \subseteq o \union Bytes(w)
    BY <2>2
  <2>4. q \subseteq ChunkRange
    OBVIOUS
  <2> QED
    BY <2>3, <2>4
<1>4. Ends(v, n)
  <2>1. PICK b \in Nat : o \union Covered(u) \subseteq 0 .. b
    BY DEF Ends
  <2> DEFINE e == b + w[1] + w[2]
  <2>2. e \in Nat /\ b <= e /\ w[1] + w[2] <= e
    BY <2>1, <1>2
  <2>3. 0 .. b \subseteq 0 .. e /\ 0 .. (w[1] + w[2]) \subseteq 0 .. e
    BY <2>1, <2>2, <1>2
  <2> HIDE DEF e, n
  <2>4. n \union Covered(v) \subseteq 0 .. e
    BY <2>1, <2>3, <1>1, <1>2, <1>3
  <2> QED
    BY <2>2, <2>4 DEF Ends
<1>5. Kept(staging, v, n, q)
  <2>1. CASE staging
    <3>1. q = {x \in p : x[1] # w[1]} \union {w} /\ p \subseteq ToSet(u.ranges)
          /\ \A r \in ToSet(u.ranges) : \E x \in p : x[1] = r[1]
      BY <2>1 DEF Kept
    <3>2. ASSUME NEW r \in ToSet(v.ranges) PROVE \E x \in q : x[1] = r[1]
      <4>1. CASE r[1] = w[1]
        BY <4>1, <3>1
      <4>2. CASE r[1] # w[1]
        <5>1. r \in ToSet(u.ranges)
          BY <4>2, <1>1
        <5>2. PICK x \in p : x[1] = r[1]
          BY <5>1, <3>1
        <5> QED
          BY <5>2, <4>2, <3>1
      <4> QED
        BY <4>1, <4>2
    <3>3. q \subseteq ToSet(v.ranges)
      BY <3>1, <1>1
    <3> HIDE DEF q, n
    <3> QED
      BY <3>2, <3>3, <2>1 DEF Kept
  <2>2. CASE ~staging
    BY <2>2, <1>1 DEF Kept
  <2> QED
    BY <2>1, <2>2
<1> QED
  BY <1>3, <1>4, <1>5
\* A chunk written, a write that fails on its way, and a chunk that comes after
\* the commit.
LEMMA WriteKeeps ==
  ASSUME CacheAssumption, ArchiveInv, NEW id \in Entries, NEW c \in Chunk, WritePatch(id, c)
  PROVE  ArchiveInv'
<1> DEFINE w == Clip(up[id], c)
           u == up[id]
           o == object[id]
           p == parts[id]
           v == [u EXCEPT !.ranges = Append(u.ranges, w), !.written = u.written + w[2]]
           q == IF staging THEN {x \in p : x[1] # w[1]} \union {w} ELSE p
           n == IF staging THEN o ELSE o \union Bytes(w)
<1>1. CacheRowsTyped /\ EntryOK(staging, row[id], u, o, p, commit[id])
  BY DEF ArchiveInv, EntriesOK
<1>2. /\ row[id] \in CacheRow /\ u \in CacheUpload /\ commit[id] \in CacheCommit
      /\ o \in SUBSET Nat /\ p \in SUBSET ChunkRange
  BY <1>1, EntryTyped
<1>3. /\ row = [row EXCEPT ![id] = row[id]] /\ up = [up EXCEPT ![id] = up[id]]
      /\ object = [object EXCEPT ![id] = object[id]] /\ parts = [parts EXCEPT ![id] = parts[id]]
      /\ commit = [commit EXCEPT ![id] = commit[id]]
  BY <1>1, SameEntry
<1>4. w \in ChunkRange
  BY <1>2, ClipTyped
<1>5. row' = row /\ commit' = commit /\ cacheClock' \in Nat /\ UNCHANGED staging
  BY <1>1 DEF WritePatch, CacheRowsTyped
<1>6. CASE up[id].done /\ UNCHANGED <<up, object, parts, faults>>
  <2>1. up' = up /\ object' = object /\ parts' = parts
    BY <1>6
  <2> HIDE DEF u, o, p
  <2> QED
    BY <2>1, <1>5 DEF ArchiveInv, CacheRowsTyped, EntriesOK, EvictedGone, Entries, Live
<1>7. CASE /\ ~up[id].done
           /\ up' = [up EXCEPT ![id].ranges = Append(@, w), ![id].written = @ + w[2]]
           /\ IF staging
              THEN parts' = [parts EXCEPT ![id] = {x \in @ : x[1] # w[1]} \union {w}]
                   /\ UNCHANGED object
              ELSE object' = [object EXCEPT ![id] = @ \union Bytes(w)] /\ UNCHANGED parts
  <2>1. up' = [up EXCEPT ![id] = v]
    BY <1>7
  <2>2. object' = [object EXCEPT ![id] = n] /\ parts' = [parts EXCEPT ![id] = q]
    BY <1>7, <1>3
  <2>3. w[2] \in Nat /\ u.written \in Nat /\ u.ranges \in Seq(ChunkRange)
    BY <1>2, <1>4, BytesOf DEF CacheUpload
  <2>4. u.written + w[2] \in Nat /\ Append(u.ranges, w) \in Seq(ChunkRange)
    BY <2>3, <1>4
  <2>5. v \in CacheUpload /\ v.ranges = Append(u.ranges, w) /\ v.open = u.open /\ v.done = u.done
    BY <1>2, <2>4 DEF CacheUpload
  <2>6. Ends(u, o) /\ Kept(staging, u, o, p) /\ ~u.done
    BY <1>1, <1>7 DEF EntryOK
  <2> HIDE DEF v, w, u, o, p
  <2>7. q \in SUBSET ChunkRange /\ n \in SUBSET Nat /\ Ends(v, n) /\ Kept(staging, v, n, q)
    BY <2>5, <2>6, <1>2, <1>4, ChunkKeeps
  <2> HIDE DEF q, n
  <2>8. EntryOK(staging, row[id], v, n, q, commit[id])
    BY <1>1, <2>5, <2>6, <2>7 DEF EntryOK
  <2>9. row' = [row EXCEPT ![id] = row[id]] /\ commit' = [commit EXCEPT ![id] = commit[id]]
    BY <1>3, <1>5
  <2> QED
    BY <1>2, <1>5, <2>1, <2>2, <2>5, <2>7, <2>8, <2>9, EntryStep
<1>8. CASE /\ ~up[id].done /\ ~staging
           /\ object' = [object EXCEPT ![id] = @ \union {w[1]}]
           /\ UNCHANGED <<up, parts>>
  <2> DEFINE m == o \union {w[1]}
  <2>1. object' = [object EXCEPT ![id] = m] /\ up' = up /\ parts' = parts
    BY <1>8
  <2>2. w[1] \in Nat
    BY <1>4, BytesOf
  <2>3. Ends(u, o) /\ Kept(staging, u, o, p) /\ ~u.done
    BY <1>1, <1>8 DEF EntryOK
  <2>4. m \in SUBSET Nat
    BY <2>2, <1>2
  <2> HIDE DEF w, u, o, p, v, q, n
  <2>5. Ends(u, m)
    <3>1. PICK b \in Nat : o \union Covered(u) \subseteq 0 .. b
      BY <2>3 DEF Ends
    <3> DEFINE e == b + w[1]
    <3>2. e \in Nat /\ 0 .. b \subseteq 0 .. e /\ w[1] \in 0 .. e
      BY <3>1, <2>2
    <3> HIDE DEF e
    <3>3. m \union Covered(u) \subseteq 0 .. e
      BY <3>1, <3>2
    <3> QED
      BY <3>2, <3>3 DEF Ends
  <2>6. Kept(staging, u, m, p)
    BY <2>3, <1>8 DEF Kept
  <2> HIDE DEF m
  <2>7. EntryOK(staging, row[id], u, m, p, commit[id])
    BY <1>1, <2>3, <2>5, <2>6 DEF EntryOK
  <2>8. /\ row' = [row EXCEPT ![id] = row[id]] /\ commit' = [commit EXCEPT ![id] = commit[id]]
        /\ up' = [up EXCEPT ![id] = u] /\ parts' = [parts EXCEPT ![id] = p]
    BY <1>3, <1>5, <2>1 DEF u, p
  <2> QED
    <3>1. row[id].live = row[id].live /\ commit[id].evicts \subseteq commit[id].evicts
      OBVIOUS
    <3>2. object' = [object EXCEPT ![id] = m]
      BY <2>1
    <3> QED
      BY <1>2, <1>5, <2>4, <2>7, <2>8, <3>1, <3>2, EntryStep
<1> QED
  BY <1>6, <1>7, <1>8 DEF WritePatch, WriteRange
\* What every step on one entry starts from.
LEMMA EntryFacts ==
  ASSUME ArchiveInv, NEW id \in Entries
  PROVE  /\ EntryOK(staging, row[id], up[id], object[id], parts[id], commit[id])
         /\ row[id] \in CacheRow /\ up[id] \in CacheUpload /\ commit[id] \in CacheCommit
         /\ object[id] \in SUBSET Nat /\ parts[id] \in SUBSET ChunkRange
         /\ row = [row EXCEPT ![id] = row[id]] /\ up = [up EXCEPT ![id] = up[id]]
         /\ object = [object EXCEPT ![id] = object[id]] /\ parts = [parts EXCEPT ![id] = parts[id]]
         /\ commit = [commit EXCEPT ![id] = commit[id]]
         /\ cacheClock \in Nat
<1>1. CacheRowsTyped
  BY DEF ArchiveInv
<1>2. EntryOK(staging, row[id], up[id], object[id], parts[id], commit[id])
  BY DEF ArchiveInv, EntriesOK
<1> QED
  BY <1>1, <1>2, EntryTyped, SameEntry DEF CacheRowsTyped

\* NoCommit is a commit that evicts nothing.
LEMMA NoCommitTyped ==
  NoCommit \in CacheCommit /\ NoCommit.at = "none" /\ NoCommit.evicts = {}
  BY DEF NoCommit, CacheCommit

LEMMA CommitKeeps ==
  ASSUME CacheAssumption, ArchiveInv, NEW t \in CacheToken, NEW id \in Entries,
         NEW size \in DeclaredSize, HandleCommit(t, id, size)
  PROVE  ArchiveInv'
<1> DEFINE u == [up[id] EXCEPT !.open = FALSE]
           c == [NoCommit EXCEPT !.at = "upload", !.declared = size]
<1>1. size \in Int
  BY DEF CacheAssumption
<1>2. /\ up' = [up EXCEPT ![id] = u] /\ commit' = [commit EXCEPT ![id] = c]
      /\ row' = row /\ object' = object /\ parts' = parts
      /\ UNCHANGED staging /\ cacheClock' = cacheClock /\ up[id].open
  BY DEF HandleCommit
<1>3. /\ u \in CacheUpload /\ u.ranges = up[id].ranges /\ ~u.open /\ u.done = up[id].done
  BY EntryFacts DEF CacheUpload
<1>4. c \in CacheCommit /\ c.at = "upload" /\ c.evicts = {}
  BY <1>1, NoCommitTyped DEF CacheCommit
<1> HIDE DEF u, c
<1>5. EntryOK(staging, row[id], u, object[id], parts[id], c)
  <2>1. EntryOK(staging, row[id], up[id], object[id], parts[id], commit[id])
    BY EntryFacts
  <2>2. Covered(u) = Covered(up[id])
    BY <1>3 DEF Covered
  <2>3. Ends(u, object[id])
    BY <2>1, <2>2 DEF EntryOK, Ends
  <2>4. ~u.done /\ Kept(staging, u, object[id], parts[id])
    BY <2>1, <2>2, <1>2, <1>3 DEF EntryOK, Kept
  <2> QED
    BY <2>1, <2>3, <2>4, <1>2, <1>3, <1>4 DEF EntryOK
<1>6. row' = [row EXCEPT ![id] = row[id]]
  BY <1>2, EntryFacts
<1>7. object' = [object EXCEPT ![id] = object[id]]
  BY <1>2, EntryFacts
<1>8. parts' = [parts EXCEPT ![id] = parts[id]]
  BY <1>2, EntryFacts
<1>9. /\ row[id] \in CacheRow /\ object[id] \in SUBSET Nat /\ parts[id] \in SUBSET ChunkRange
      /\ cacheClock' \in Nat /\ UNCHANGED staging
      /\ row[id].live = row[id].live /\ c.evicts \subseteq commit[id].evicts
  BY <1>2, <1>4, EntryFacts
<1>10. up' = [up EXCEPT ![id] = u] /\ commit' = [commit EXCEPT ![id] = c]
  BY <1>2
<1> QED
  BY <1>3, <1>4, <1>5, <1>6, <1>7, <1>8, <1>9, <1>10, EntryStep

\* An upload that commits holds the archive, whole; one that does not is aborted.
LEMMA StoresKeeps ==
  ASSUME ArchiveInv, NEW id \in Entries, CommitStores(id)
  PROVE  ArchiveInv'
<1> DEFINE u == up[id]
           v == [u EXCEPT !.done = TRUE]
           o == IF staging THEN UNION {Bytes(x) : x \in parts[id]} ELSE object[id]
           p == IF staging THEN {} ELSE parts[id]
           c == [commit[id] EXCEPT !.at = "finalize", !.size = Coverage(up[id])]
           d == [commit[id] EXCEPT !.at = "abort"]
<1>0. row' = row /\ UNCHANGED staging /\ cacheClock' = cacheClock /\ commit[id].at = "upload"
  BY DEF CommitStores
<1>1. row' = [row EXCEPT ![id] = row[id]]
  BY <1>0, EntryFacts
<1>2. row[id] \in CacheRow /\ cacheClock' \in Nat /\ UNCHANGED staging /\ row[id].live = row[id].live
  BY <1>0, EntryFacts
<1>3. EntryOK(staging, row[id], u, object[id], parts[id], commit[id])
  BY EntryFacts
<1>4. ~u.done /\ ~u.open /\ Ends(u, object[id]) /\ Kept(staging, u, object[id], parts[id])
      /\ ~row[id].finalized
  BY <1>0, <1>3 DEF EntryOK
<1>5. CASE Committable(id) /\ CommitUpload(id)
           /\ commit' = [commit EXCEPT ![id].at = "finalize", ![id].size = Coverage(up[id])]
  <2>1. u.ranges # <<>> /\ Coverage(u) # -1 /\ (~staging => Max(object[id]) + 1 = Coverage(u))
    BY <1>5 DEF Committable
  <2>2. /\ up' = [up EXCEPT ![id] = v] /\ commit' = [commit EXCEPT ![id] = c]
    BY <1>5 DEF CommitUpload
  <2>3. object' = [object EXCEPT ![id] = o] /\ parts' = [parts EXCEPT ![id] = p]
    BY <1>5, EntryFacts DEF CommitUpload
  <2>4. u \in CacheUpload /\ object[id] \in SUBSET Nat /\ parts[id] \in SUBSET ChunkRange
        /\ commit[id] \in CacheCommit
    BY EntryFacts
  <2>5. v \in CacheUpload /\ v.done /\ v.open = u.open /\ v.ranges = u.ranges
    BY <2>4 DEF CacheUpload
  <2> HIDE DEF u
  <2>6. Coverage(u) \in Int /\ o = 0 .. Coverage(u) - 1
    BY <2>1, <2>4, <1>4, CommitWhole
  <2>7. c \in CacheCommit /\ c.at = "finalize" /\ c.size = Coverage(u) /\ c.evicts = commit[id].evicts
    BY <2>4, <2>6 DEF CacheCommit, u
  <2>8. p \in SUBSET ChunkRange
    BY <2>4
  <2> HIDE DEF v, o, p, c
  <2>9. o \in SUBSET Nat
    BY <2>6
  <2>10. Ends(v, o)
    <3>1. PICK b \in Nat : object[id] \union Covered(u) \subseteq 0 .. b
      BY <1>4 DEF Ends
    <3>2. Covered(v) = Covered(u)
      BY <2>5 DEF Covered
    <3>3. Covered(u) = o
      BY <2>1, <2>6 DEF Coverage
    <3> QED
      BY <3>1, <3>2, <3>3 DEF Ends
  <2>11. EntryOK(staging, row[id], v, o, p, c)
    BY <1>3, <1>4, <2>5, <2>6, <2>7, <2>10 DEF EntryOK
  <2>12. c.evicts \subseteq commit[id].evicts
    BY <2>7
  <2>13. v \in CacheUpload /\ c \in CacheCommit
    BY <2>5, <2>7
  <2> QED
    BY <1>1, <1>2, <2>2, <2>3, <2>8, <2>9, <2>11, <2>12, <2>13, EntryStep
<1>6. CASE commit' = [commit EXCEPT ![id].at = "abort"] /\ UNCHANGED <<up, object, parts>>
  <2>1. commit' = [commit EXCEPT ![id] = d]
    BY <1>6
  <2>2. d \in CacheCommit /\ d.at = "abort" /\ d.evicts = commit[id].evicts
    BY EntryFacts DEF CacheCommit
  <2> HIDE DEF u, v, o, p, c, d
  <2>3. EntryOK(staging, row[id], u, object[id], parts[id], d)
    BY <1>3, <1>4, <2>2 DEF EntryOK
  <2>4. up' = [up EXCEPT ![id] = u]
    BY <1>6, EntryFacts DEF u
  <2>5. object' = [object EXCEPT ![id] = object[id]]
    BY <1>6, EntryFacts
  <2>6. parts' = [parts EXCEPT ![id] = parts[id]]
    BY <1>6, EntryFacts
  <2>7. u \in CacheUpload /\ object[id] \in SUBSET Nat /\ parts[id] \in SUBSET ChunkRange /\ d \in CacheCommit
        /\ d.evicts \subseteq commit[id].evicts
    BY <2>2, EntryFacts DEF u
  <2> QED
    BY <1>1, <1>2, <2>1, <2>3, <2>4, <2>5, <2>6, <2>7, EntryStep
<1> QED
  BY <1>5, <1>6 DEF CommitStores
LEMMA AbortKeeps ==
  ASSUME ArchiveInv, NEW id \in Entries, CommitAborts(id)
  PROVE  ArchiveInv'
<1> DEFINE u == up[id]
           v == [u EXCEPT !.done = TRUE, !.ranges = <<>>]
           o == IF staging \/ up[id].ranges = <<>> THEN object[id] ELSE {}
<1>1. /\ row' = row /\ UNCHANGED staging /\ cacheClock' = cacheClock /\ commit[id].at = "abort"
      /\ up' = [up EXCEPT ![id] = v] /\ parts' = [parts EXCEPT ![id] = {}]
      /\ commit' = [commit EXCEPT ![id] = NoCommit]
  BY DEF CommitAborts, AbortUpload
<1>2. object' = [object EXCEPT ![id] = o]
  BY EntryFacts DEF CommitAborts, AbortUpload
<1>3. EntryOK(staging, row[id], u, object[id], parts[id], commit[id])
  BY EntryFacts
<1>4. <<>> \in Seq(ChunkRange)
  OBVIOUS
<1>5. u \in CacheUpload /\ object[id] \in SUBSET Nat /\ row[id] \in CacheRow
  BY EntryFacts
<1>6. v \in CacheUpload /\ v.done /\ v.open = u.open /\ v.ranges = <<>>
  BY <1>4, <1>5 DEF CacheUpload
<1>7. o \in SUBSET Nat /\ o \subseteq object[id]
  BY <1>5
<1> HIDE DEF u, v, o
<1>8. ~u.done /\ ~u.open /\ ~row[id].finalized /\ row[id].live
  BY <1>1, <1>3 DEF EntryOK
<1>9. Ends(v, o)
  <2>1. PICK b \in Nat : object[id] \subseteq 0 .. b
    BY <1>3 DEF EntryOK, Ends
  <2>2. ToSet(v.ranges) = {}
    BY <1>6 DEF ToSet
  <2>3. Covered(v) = {}
    BY <2>2 DEF Covered
  <2> QED
    BY <2>1, <2>3, <1>7 DEF Ends
<1>10. EntryOK(staging, row[id], v, o, {}, NoCommit)
  BY <1>6, <1>8, <1>9, NoCommitTyped DEF EntryOK
<1>11. row' = [row EXCEPT ![id] = row[id]]
  BY <1>1, EntryFacts
<1>12. cacheClock' \in Nat /\ UNCHANGED staging /\ row[id].live = row[id].live
       /\ NoCommit.evicts \subseteq commit[id].evicts /\ {} \in SUBSET ChunkRange
  BY <1>1, EntryFacts, NoCommitTyped
<1>13. up' = [up EXCEPT ![id] = v] /\ parts' = [parts EXCEPT ![id] = {}]
       /\ commit' = [commit EXCEPT ![id] = NoCommit]
  BY <1>1
<1> QED
  BY <1>2, <1>5, <1>6, <1>7, <1>10, <1>11, <1>12, <1>13, NoCommitTyped, EntryStep

LEMMA FinalizeKeeps ==
  ASSUME ArchiveInv, NEW id \in Entries, FinalizeCache(id)
  PROVE  ArchiveInv'
<1> DEFINE r == [row[id] EXCEPT !.size = commit[id].size, !.finalized = TRUE]
           c == [commit[id] EXCEPT !.at = "evict"]
<1>1. /\ UNCHANGED <<up, object, parts, staging>> /\ cacheClock' = cacheClock
      /\ commit[id].at = "finalize"
  BY DEF FinalizeCache
<1>2. /\ up' = [up EXCEPT ![id] = up[id]] /\ object' = [object EXCEPT ![id] = object[id]]
      /\ parts' = [parts EXCEPT ![id] = parts[id]]
  BY <1>1, EntryFacts
<1>3. EntryOK(staging, row[id], up[id], object[id], parts[id], commit[id])
  BY EntryFacts
<1>4. /\ row[id] \in CacheRow /\ up[id] \in CacheUpload /\ commit[id] \in CacheCommit
      /\ object[id] \in SUBSET Nat /\ parts[id] \in SUBSET ChunkRange
      /\ cacheClock' \in Nat /\ UNCHANGED staging
  BY <1>1, EntryFacts
<1>5. up[id].done /\ ~row[id].finalized /\ object[id] = 0 .. commit[id].size - 1
      /\ row[id].live /\ ~up[id].open /\ Ends(up[id], object[id])
  BY <1>1, <1>3 DEF EntryOK
<1>6. CASE /\ row' = [row EXCEPT ![id].size = commit[id].size, ![id].finalized = TRUE]
           /\ commit' = [commit EXCEPT ![id].at = "evict"]
  <2>1. row' = [row EXCEPT ![id] = r] /\ commit' = [commit EXCEPT ![id] = c]
    BY <1>6
  <2>2. r \in CacheRow /\ r.live = row[id].live /\ r.size = commit[id].size /\ r.finalized
    BY <1>4 DEF CacheRow, CacheCommit
  <2>3. c \in CacheCommit /\ c.at = "evict" /\ c.evicts = commit[id].evicts
    BY <1>4 DEF CacheCommit
  <2> HIDE DEF r, c
  <2>4. EntryOK(staging, r, up[id], object[id], parts[id], c)
    BY <1>5, <2>2, <2>3 DEF EntryOK
  <2>5. c.evicts \subseteq commit[id].evicts
    BY <2>3
  <2> QED
    BY <1>2, <1>4, <2>1, <2>2, <2>3, <2>4, <2>5, EntryStep
<1>7. CASE commit' = [commit EXCEPT ![id] = NoCommit] /\ UNCHANGED row
  <2> HIDE DEF r, c
  <2>1. EntryOK(staging, row[id], up[id], object[id], parts[id], NoCommit)
    BY <1>5, NoCommitTyped DEF EntryOK
  <2>2. row' = [row EXCEPT ![id] = row[id]]
    BY <1>7, EntryFacts
  <2>3. row[id].live = row[id].live /\ NoCommit.evicts \subseteq commit[id].evicts
    BY NoCommitTyped
  <2>4. commit' = [commit EXCEPT ![id] = NoCommit]
    BY <1>7
  <2> QED
    BY <1>2, <1>4, <2>1, <2>2, <2>3, <2>4, NoCommitTyped, EntryStep
<1> QED
  BY <1>6, <1>7 DEF FinalizeCache

\* The rows that go are of stored entries, and those of the others stay.
LEMMA EvictRowsKeeps ==
  ASSUME ArchiveInv, NEW id \in Entries, EvictRows(id)
  PROVE  ArchiveInv'
<1>1. /\ UNCHANGED <<up, object, parts, staging>> /\ cacheClock' = cacheClock
      /\ commit[id].at = "evict"
  BY DEF EvictRows
<1>2. EntryOK(staging, row[id], up[id], object[id], parts[id], commit[id])
  BY EntryFacts
<1>3. CASE /\ row' = [j \in Entries |-> IF j \in EvictCaches THEN [row[j] EXCEPT !.live = FALSE]
                                                             ELSE row[j]]
           /\ commit' = [commit EXCEPT ![id].at = "delete", ![id].evicts = EvictCaches]
  <2> DEFINE gone == EvictCaches
             c == [commit[id] EXCEPT !.at = "delete", !.evicts = gone]
  <2>1. gone \subseteq Entries /\ \A j \in gone : Live(j) /\ row[j].finalized
    BY DEF EvictCaches, Stored
  <2>2. row' = [j \in Entries |-> IF j \in gone THEN [row[j] EXCEPT !.live = FALSE] ELSE row[j]]
    BY <1>3
  <2>3. commit' = [commit EXCEPT ![id] = c]
    BY <1>3
  <2> HIDE DEF gone
  <2>4. CacheRowsTyped /\ Len(row) \in Nat /\ Entries = 1..Len(row) /\ Entries = DOMAIN commit
    BY DEF ArchiveInv, CacheRowsTyped, Entries
  <2>5. \A j \in Entries : row[j] \in CacheRow
    BY <2>4, EntryTyped
  <2>6. \A j \in Entries : /\ row'[j] \in CacheRow
                           /\ row'[j].finalized = row[j].finalized /\ row'[j].size = row[j].size
                           /\ row'[j].live = (row[j].live /\ j \notin gone)
    <3> SUFFICES ASSUME NEW j \in Entries
                 PROVE  /\ row'[j] \in CacheRow
                        /\ row'[j].finalized = row[j].finalized /\ row'[j].size = row[j].size
                        /\ row'[j].live = (row[j].live /\ j \notin gone)
      OBVIOUS
    <3>1. row[j] \in CacheRow
      BY <2>5
    <3>2. CASE j \in gone
      <4>1. row'[j] = [row[j] EXCEPT !.live = FALSE]
        BY <2>2, <3>2
      <4> QED
        BY <3>1, <3>2, <4>1 DEF CacheRow
    <3>3. CASE j \notin gone
      <4>1. row'[j] = row[j]
        BY <2>2, <3>3
      <4>2. row[j].live \in BOOLEAN
        BY <3>1 DEF CacheRow
      <4> QED
        BY <3>1, <3>3, <4>1, <4>2
    <3> QED
      BY <3>2, <3>3
  <2>7. row' \in Seq(CacheRow) /\ Len(row') = Len(row)
    <3> DEFINE n == Len(row)
    <3>1. n \in Nat /\ DOMAIN row' = 1..n /\ \A j \in 1..n : row'[j] \in CacheRow
      BY <2>2, <2>4, <2>6
    <3>2. row' = [j \in 1..n |-> row'[j]]
      BY <2>2, <2>4
    <3> HIDE DEF n
    <3>3. row' \in Seq(CacheRow)
      BY <3>1, <3>2
    <3>4. Len(row') = n
      BY <3>1, <3>3
    <3> QED
      BY <3>3, <3>4 DEF n
  <2>8. commit[id] \in CacheCommit /\ gone \in SUBSET Nat
    BY <2>1, <2>4, EntryFacts
  <2>9. c \in CacheCommit /\ c.at = "delete" /\ c.evicts = gone
    BY <2>8 DEF CacheCommit
  <2> HIDE DEF c
  <2>10. /\ commit' \in Seq(CacheCommit) /\ Len(commit') = Len(commit) /\ commit'[id] = c
         /\ \A j \in Entries : j # id => commit'[j] = commit[j]
    BY <2>3, <2>4, <2>9, UpdatedKeeps DEF CacheRowsTyped
  <2>11. CacheRowsTyped' /\ Entries' = Entries
    BY <2>4, <2>7, <2>10, <1>1 DEF CacheRowsTyped, Entries
  <2>12. ASSUME NEW j \in Entries
         PROVE  EntryOK(staging, row'[j], up[j], object[j], parts[j], commit'[j])
    <3>1. EntryOK(staging, row[j], up[j], object[j], parts[j], commit[j])
      BY EntryFacts
    <3>2. commit'[j].at \in {"none", "evict", "delete"} \/ commit'[j] = commit[j]
      BY <2>9, <2>10
    <3>3. up[j].open => commit'[j].at = "none"
      BY <3>1, <1>1, <1>2, <2>10 DEF EntryOK
    <3>4. ~row'[j].live => row'[j].finalized
      BY <3>1, <2>1, <2>6 DEF EntryOK
    <3> QED
      BY <3>1, <3>2, <3>3, <3>4, <2>6 DEF EntryOK
  <2>13. EntriesOK'
    BY <1>1, <2>11, <2>12 DEF EntriesOK
  <2>14. EvictedGone'
    <3>1. ASSUME NEW j \in Entries, NEW e \in commit'[j].evicts
          PROVE  e \in Entries /\ ~row'[e].live
      <4>1. CASE j = id
        BY <4>1, <2>1, <2>6, <2>9, <2>10
      <4>2. CASE j # id
        <5>1. e \in Entries /\ ~row[e].live
          BY <4>2, <2>10 DEF ArchiveInv, EvictedGone, Live
        <5> QED
          BY <5>1, <2>6
      <4> QED
        BY <4>1, <4>2
    <3> QED
      BY <3>1, <2>11 DEF EvictedGone, Live
  <2> QED
    BY <2>11, <2>13, <2>14 DEF ArchiveInv
<1>4. CASE commit' = [commit EXCEPT ![id] = NoCommit] /\ UNCHANGED row
  <2>1. EntryOK(staging, row[id], up[id], object[id], parts[id], NoCommit)
    BY <1>1, <1>2, NoCommitTyped DEF EntryOK
  <2>2. row' = [row EXCEPT ![id] = row[id]]
    BY <1>4, EntryFacts
  <2>3. row[id].live = row[id].live /\ NoCommit.evicts \subseteq commit[id].evicts
    BY NoCommitTyped
  <2>4. commit' = [commit EXCEPT ![id] = NoCommit]
    BY <1>4
  <2>5. /\ up' = [up EXCEPT ![id] = up[id]] /\ object' = [object EXCEPT ![id] = object[id]]
        /\ parts' = [parts EXCEPT ![id] = parts[id]]
    BY <1>1, EntryFacts
  <2>6. /\ row[id] \in CacheRow /\ up[id] \in CacheUpload
        /\ object[id] \in SUBSET Nat /\ parts[id] \in SUBSET ChunkRange
        /\ cacheClock' \in Nat /\ UNCHANGED staging
    BY <1>1, EntryFacts
  <2> QED
    BY <2>1, <2>2, <2>3, <2>4, <2>5, <2>6, NoCommitTyped, EntryStep
<1> QED
  BY <1>3, <1>4 DEF EvictRows
\* One of the evicted entries was read before the others, or is as old and has a
\* smaller id.
LEMMA OldestExists ==
  ASSUME CacheRowsTyped, NEW S \in SUBSET Entries, S # {}
  PROVE  \E e \in S : \A k \in S : ~Older(k, e)
<1> DEFINE used(j) == row[j].used
           T == {row[j].used : j \in S}
<1>1. \A j \in S : row[j].used \in Nat /\ j \in Nat
  <2> SUFFICES ASSUME NEW j \in S PROVE row[j].used \in Nat /\ j \in Nat
    OBVIOUS
  <2>1. row[j] \in CacheRow /\ j \in Nat
    BY EntryTyped
  <2> QED
    BY <2>1 DEF CacheRow
<1>2. T \subseteq Nat /\ T # {}
  BY <1>1
<1>3. PICK m \in T : \A n \in T : m <= n
  <2> HIDE DEF T
  <2> QED
    BY <1>2, LeastNatural
<1> DEFINE F == {j \in S : row[j].used = m}
<1>4. F \subseteq Nat /\ F # {}
  BY <1>1, <1>3
<1>5. PICK e \in F : \A n \in F : e <= n
  <2> HIDE DEF F
  <2> QED
    BY <1>4, LeastNatural
<1>6. ASSUME NEW k \in S, Older(k, e) PROVE FALSE
  <2>1. row[e].used = m /\ m \in Nat /\ row[k].used \in Nat /\ e \in Nat /\ k \in Nat
    BY <1>1, <1>3, <1>5
  <2>2. m <= row[k].used
    BY <1>3
  <2>3. row[k].used = m /\ k < e
    BY <1>6, <2>1, <2>2 DEF Older
  <2>4. e <= k
    BY <1>5, <2>3
  <2> QED
    BY <2>1, <2>3, <2>4
<1> QED
  BY <1>5, <1>6

\* An archive that goes is of an entry that no lookup finds any more.
LEMMA EvictArchiveKeeps ==
  ASSUME ArchiveInv, NEW id \in Entries, EvictArchive(id)
  PROVE  ArchiveInv'
<1>1. UNCHANGED <<row, up, parts, staging>> /\ cacheClock' = cacheClock /\ commit[id].at = "delete"
  BY DEF EvictArchive
<1>2. CacheRowsTyped /\ Entries = DOMAIN commit /\ Entries = DOMAIN object /\ Entries' = Entries
  BY <1>1 DEF ArchiveInv, CacheRowsTyped, Entries
<1>3. EntryOK(staging, row[id], up[id], object[id], parts[id], commit[id])
      /\ commit[id] \in CacheCommit
  BY EntryFacts
<1>4. CASE commit[id].evicts = {}
  <2>1. commit' = [commit EXCEPT ![id] = NoCommit] /\ UNCHANGED object
    BY <1>4 DEF EvictArchive
  <2>2. EntryOK(staging, row[id], up[id], object[id], parts[id], NoCommit)
    BY <1>1, <1>3, NoCommitTyped DEF EntryOK
  <2>3. /\ row' = [row EXCEPT ![id] = row[id]]
        /\ up' = [up EXCEPT ![id] = up[id]] /\ object' = [object EXCEPT ![id] = object[id]]
        /\ parts' = [parts EXCEPT ![id] = parts[id]]
    BY <1>1, <2>1, EntryFacts
  <2>4. /\ row[id] \in CacheRow /\ up[id] \in CacheUpload
        /\ object[id] \in SUBSET Nat /\ parts[id] \in SUBSET ChunkRange
        /\ cacheClock' \in Nat /\ UNCHANGED staging /\ row[id].live = row[id].live
        /\ NoCommit.evicts \subseteq commit[id].evicts
    BY <1>1, EntryFacts, NoCommitTyped
  <2>5. commit' = [commit EXCEPT ![id] = NoCommit]
    BY <2>1
  <2> QED
    BY <2>2, <2>3, <2>4, <2>5, NoCommitTyped, EntryStep
<1>5. CASE commit[id].evicts # {}
  <2> DEFINE e == CHOOSE j \in commit[id].evicts : \A k \in commit[id].evicts : ~Older(k, j)
             c == [commit[id] EXCEPT !.evicts = commit[id].evicts \ {e}]
  <2>1. commit[id].evicts \in SUBSET Entries
    BY DEF ArchiveInv, EvictedGone
  <2>2. \E j \in commit[id].evicts : \A k \in commit[id].evicts : ~Older(k, j)
    BY <1>2, <1>5, <2>1, OldestExists
  <2>3. e \in commit[id].evicts
    BY <2>2
  <2>4. e \in Entries /\ ~row[e].live
    BY <2>3 DEF ArchiveInv, EvictedGone, Live
  <2>5. commit' = [commit EXCEPT ![id] = c]
    BY <1>5 DEF EvictArchive
  <2>6. object' = [object EXCEPT ![e] = {}] \/ object' = object
    BY <1>5 DEF EvictArchive
  <2> HIDE DEF e
  <2>7. c \in CacheCommit /\ c.at = commit[id].at /\ c.size = commit[id].size
        /\ c.evicts = commit[id].evicts \ {e}
    BY <1>3 DEF CacheCommit
  <2> HIDE DEF c
  <2>8. /\ commit' \in Seq(CacheCommit) /\ Len(commit') = Len(commit) /\ commit'[id] = c
        /\ \A j \in Entries : j # id => commit'[j] = commit[j]
    BY <1>2, <2>5, <2>7, UpdatedKeeps DEF CacheRowsTyped
  <2>9. /\ object' \in Seq(SUBSET Nat) /\ Len(object') = Len(object)
        /\ \A j \in Entries : object'[j] = object[j] \/ (j = e /\ object'[j] = {})
    <3>1. CASE object' = object
      BY <3>1, <1>2 DEF CacheRowsTyped
    <3>2. CASE object' = [object EXCEPT ![e] = {}]
      <4>1. {} \in SUBSET Nat /\ object \in Seq(SUBSET Nat) /\ e \in DOMAIN object
        BY <1>2, <2>4 DEF CacheRowsTyped
      <4>2. /\ object' \in Seq(SUBSET Nat) /\ Len(object') = Len(object) /\ object'[e] = {}
            /\ \A j \in DOMAIN object : j # e => object'[j] = object[j]
        BY <3>2, <4>1, UpdatedKeeps
      <4> QED
        BY <4>2, <1>2
    <3> QED
      BY <3>1, <3>2, <2>6
  <2>10. CacheRowsTyped'
    BY <1>1, <1>2, <2>8, <2>9 DEF CacheRowsTyped
  <2>11. ASSUME NEW j \in Entries
         PROVE  EntryOK(staging, row[j], up[j], object'[j], parts[j], commit'[j])
    <3>1. EntryOK(staging, row[j], up[j], object[j], parts[j], commit[j])
      BY EntryFacts
    <3>2. commit'[j].at = commit[j].at /\ commit'[j].size = commit[j].size
      BY <2>7, <2>8
    <3>3. CASE object'[j] = object[j]
      BY <3>1, <3>2, <3>3 DEF EntryOK
    <3>4. CASE j = e /\ object'[j] = {}
      <4>1. ~row[j].live /\ row[j].finalized /\ up[j].done
        BY <3>1, <3>4, <2>4 DEF EntryOK
      <4>2. Ends(up[j], object'[j])
        BY <3>1, <3>4 DEF EntryOK, Ends
      <4> QED
        BY <3>1, <3>2, <4>1, <4>2 DEF EntryOK
    <3> QED
      BY <3>3, <3>4, <2>9
  <2>12. EntriesOK'
    BY <1>1, <1>2, <2>11 DEF EntriesOK
  <2>13. EvictedGone'
    <3>1. \A j \in Entries : commit'[j].evicts \subseteq commit[j].evicts
      BY <2>7, <2>8
    <3> QED
      BY <3>1, <1>1, <1>2 DEF ArchiveInv, EvictedGone, Live
  <2> QED
    BY <2>10, <2>12, <2>13 DEF ArchiveInv
<1> QED
  BY <1>4, <1>5

LEMMA LookupKeeps ==
  ASSUME ArchiveInv, NEW t \in CacheToken, NEW k \in CacheKey, NEW restore \in CacheKey,
         HandleLookup(t, k, restore)
  PROVE  ArchiveInv'
<1> DEFINE id == LookupCache(k, restore)
           now == cacheClock'
           r == [row[id] EXCEPT !.used = now]
<1>1. /\ UNCHANGED <<up, object, parts, commit, staging>> /\ cacheClock' = cacheClock + 1
      /\ row' = [row EXCEPT ![id].used = now]
  BY DEF HandleLookup, TouchCache
<1>2. now \in Nat
  BY <1>1 DEF ArchiveInv, CacheRowsTyped
<1> HIDE DEF id, now
<1>3. CASE id \in Entries
  <2>1. row' = [row EXCEPT ![id] = r]
    BY <1>1
  <2>2. r \in CacheRow /\ r.live = row[id].live /\ r.finalized = row[id].finalized
        /\ r.size = row[id].size
    BY <1>2, <1>3, EntryFacts DEF CacheRow
  <2> HIDE DEF r
  <2>3. EntryOK(staging, row[id], up[id], object[id], parts[id], commit[id])
    BY <1>3, EntryFacts
  <2>4. EntryOK(staging, r, up[id], object[id], parts[id], commit[id])
    BY <2>2, <2>3 DEF EntryOK
  <2>5. /\ up' = [up EXCEPT ![id] = up[id]] /\ object' = [object EXCEPT ![id] = object[id]]
        /\ parts' = [parts EXCEPT ![id] = parts[id]] /\ commit' = [commit EXCEPT ![id] = commit[id]]
    BY <1>1, <1>3, EntryFacts
  <2>6. /\ up[id] \in CacheUpload /\ commit[id] \in CacheCommit
        /\ object[id] \in SUBSET Nat /\ parts[id] \in SUBSET ChunkRange
        /\ cacheClock' \in Nat /\ UNCHANGED staging
        /\ commit[id].evicts \subseteq commit[id].evicts
    BY <1>1, <1>2, <1>3, EntryFacts DEF now
  <2> QED
    BY <1>3, <2>1, <2>2, <2>4, <2>5, <2>6, EntryStep
<1>4. CASE id \notin Entries
  <2>1. row' = row
    <3>1. row = [j \in DOMAIN row |-> row[j]]
      BY DEF ArchiveInv, CacheRowsTyped
    <3>2. row' = [j \in DOMAIN row |-> IF j = id THEN [row[id] EXCEPT !.used = now] ELSE row[j]]
      BY <1>1
    <3>3. row' = [j \in DOMAIN row |-> row[j]]
      BY <3>2, <1>4 DEF Entries
    <3> QED
      BY <3>1, <3>3
  <2>2. cacheClock' \in Nat
    BY <1>2 DEF now
  <2> QED
    BY <1>1, <2>1, <2>2 DEF ArchiveInv, CacheRowsTyped, EntriesOK, EvictedGone, Entries, Live
<1> QED
  BY <1>3, <1>4

\* A restart closes the uploads; what was stored stays, and no commit goes on.
LEMMA CacheRestartKeeps ==
  ASSUME ArchiveInv, CacheRestart
  PROVE  ArchiveInv'
<1>1. /\ up' = [id \in Entries |-> [up[id] EXCEPT !.open = FALSE]]
      /\ commit' = [id \in Entries |-> NoCommit]
      /\ UNCHANGED <<row, object, parts, staging>> /\ cacheClock' = cacheClock
  BY DEF CacheRestart
<1> DEFINE n == Len(row)
<1>2. n \in Nat /\ Entries = 1..n /\ Entries' = Entries
  BY <1>1 DEF ArchiveInv, CacheRowsTyped, Entries
<1>3. \A id \in Entries : /\ up'[id] \in CacheUpload /\ ~up'[id].open
                          /\ up'[id].done = up[id].done /\ up'[id].ranges = up[id].ranges
  <2> SUFFICES ASSUME NEW id \in Entries
               PROVE  /\ up'[id] \in CacheUpload /\ ~up'[id].open
                      /\ up'[id].done = up[id].done /\ up'[id].ranges = up[id].ranges
    OBVIOUS
  <2>1. up'[id] = [up[id] EXCEPT !.open = FALSE] /\ up[id] \in CacheUpload
    BY <1>1, EntryFacts
  <2> QED
    BY <2>1 DEF CacheUpload
<1>4. \A id \in Entries : commit'[id] = NoCommit
  BY <1>1
<1>5. /\ up' \in Seq(CacheUpload) /\ Len(up') = n /\ commit' \in Seq(CacheCommit) /\ Len(commit') = n
  <2> HIDE DEF n
  <2>1. DOMAIN up' = 1..n /\ up' = [id \in 1..n |-> up'[id]]
        /\ DOMAIN commit' = 1..n /\ commit' = [id \in 1..n |-> commit'[id]]
    BY <1>1, <1>2
  <2>2. up' \in Seq(CacheUpload)
    BY <2>1, <1>2, <1>3
  <2>3. commit' \in Seq(CacheCommit)
    BY <2>1, <1>2, <1>4, NoCommitTyped
  <2> QED
    BY <2>1, <2>2, <2>3, <1>2
<1>6. CacheRowsTyped'
  BY <1>1, <1>5 DEF ArchiveInv, CacheRowsTyped
<1>7. ASSUME NEW id \in Entries
      PROVE  EntryOK(staging, row[id], up'[id], object[id], parts[id], commit'[id])
  <2>1. EntryOK(staging, row[id], up[id], object[id], parts[id], commit[id])
    BY EntryFacts
  <2> DEFINE u == up[id]
             v == up'[id]
  <2>2. ~v.open /\ v.done = u.done /\ v.ranges = u.ranges
    BY <1>3
  <2> HIDE DEF u, v
  <2>3. Covered(v) = Covered(u)
    BY <2>2 DEF Covered
  <2>4. EntryOK(staging, row[id], u, object[id], parts[id], commit[id])
    BY <2>1 DEF u
  <2>5. Ends(v, object[id]) /\ (~v.done => Kept(staging, v, object[id], parts[id]))
    BY <2>2, <2>3, <2>4 DEF EntryOK, Ends, Kept
  <2>6. EntryOK(staging, row[id], v, object[id], parts[id], NoCommit)
    BY <2>2, <2>4, <2>5, NoCommitTyped DEF EntryOK
  <2> QED
    BY <2>6, <1>4 DEF v
<1>8. EntriesOK'
  BY <1>1, <1>2, <1>7 DEF EntriesOK
<1>9. EvictedGone'
  BY <1>2, <1>4, NoCommitTyped DEF EvictedGone
<1> QED
  BY <1>6, <1>8, <1>9 DEF ArchiveInv

\* Every call, every chunk and every restart keeps the invariant.
LEMMA ArchiveStep == CacheAssumption /\ ArchiveInv /\ [CacheNext]_cacheVars => ArchiveInv'
<1> SUFFICES ASSUME CacheAssumption, ArchiveInv, [CacheNext]_cacheVars
             PROVE  ArchiveInv'
  OBVIOUS
<1>1. ASSUME NEW t \in CacheToken, NEW k \in CacheKey, HandleReserve(t, k) PROVE ArchiveInv'
  BY <1>1, ReserveKeeps
<1>2. CASE UNCHANGED <<row, up, object, parts, commit, cacheClock, staging>>
  BY <1>2 DEF ArchiveInv, CacheRowsTyped, EntriesOK, EvictedGone, Entries, Live
<1>3. ASSUME NEW t \in CacheToken, NEW id \in Entries, NEW c \in Chunk, TakePatch(t, id, c)
      PROVE  ArchiveInv'
  BY <1>2, <1>3 DEF TakePatch
<1>4. ASSUME NEW id \in Entries, NEW c \in Chunk, WritePatch(id, c) PROVE ArchiveInv'
  BY <1>4, WriteKeeps
<1>5. ASSUME NEW t \in CacheToken, NEW id \in Entries, NEW size \in DeclaredSize,
             HandleCommit(t, id, size)
      PROVE  ArchiveInv'
  BY <1>5, CommitKeeps
<1>6. ASSUME NEW id \in Entries,
             \/ CommitStores(id) \/ CommitAborts(id) \/ FinalizeCache(id)
             \/ EvictRows(id) \/ EvictArchive(id)
      PROVE  ArchiveInv'
  BY <1>6, StoresKeeps, AbortKeeps, FinalizeKeeps, EvictRowsKeeps, EvictArchiveKeeps
<1>7. ASSUME NEW t \in CacheToken, NEW k \in CacheKey, NEW restore \in CacheKey,
             HandleLookup(t, k, restore)
      PROVE  ArchiveInv'
  BY <1>7, LookupKeeps
<1>8. CASE CacheRestart
  BY <1>8, CacheRestartKeeps
<1>9. CASE UNCHANGED cacheVars
  BY <1>9, <1>2 DEF cacheVars
<1> QED
  BY <1>1, <1>3, <1>4, <1>5, <1>6, <1>7, <1>8, <1>9 DEF CacheNext

\* The archive of an entry that a lookup can find is whole and of the size its
\* row states: whatever chunks overlapped, came twice, came late or failed on
\* their way, whether they were written in place or in parts, and whatever was
\* evicted and whenever the control plane restarted.
THEOREM ArchivesServedWhole == CacheInit /\ [][CacheNext]_cacheVars => []ServedArchivesWhole
<1>1. CacheInit => ArchiveInv
  <2> SUFFICES ASSUME CacheInit PROVE ArchiveInv
    OBVIOUS
  <2>1. row = <<>> /\ up = <<>> /\ object = <<>> /\ parts = <<>> /\ commit = <<>> /\ cacheClock = 0
    BY DEF CacheInit
  <2>2. CacheRowsTyped
    BY <2>1 DEF CacheRowsTyped
  <2>3. Entries = {}
    BY <2>1 DEF Entries
  <2> QED
    BY <2>2, <2>3 DEF ArchiveInv, EntriesOK, EvictedGone
<1>2. ArchiveInv => ServedArchivesWhole
  <2> SUFFICES ASSUME ArchiveInv, NEW id \in Entries, Stored(id)
               PROVE  object[id] = 0 .. row[id].size - 1
    BY DEF ServedArchivesWhole
  <2>1. EntryOK(staging, row[id], up[id], object[id], parts[id], commit[id])
    BY EntryFacts
  <2> QED
    BY <2>1 DEF EntryOK, Stored, Live
<1> QED
  BY <1>1, <1>2, ArchiveStep, CacheAssumption, PTL

-----------------------------------------------------------------------------
(***************************************************************************)
(* The deliveries of the webhook.  A handler with no error so far has      *)
(* accounted for every file before the one it is at, and rows of runs that *)
(* account for a file change no more: a handler changes only the row of    *)
(* the run it is creating, which is queued until then.                     *)
(***************************************************************************)
Paths == {WorkflowFile[i].path : i \in DOMAIN WorkflowFile}
RunRow == [path : Paths, number : Nat, payload : Webhook,
           status : {"queued", "in_progress", "completed"}, jobs : Nat]
Places == {"due", "repo", "list", "read", "number", "create", "reject", "jobs", "over"}
Handling == [at : Places, file : Nat, run : Nat, number : Nat, failed : BOOLEAN, tries : Nat,
             answer : {"none", "ok", "error", "lost"}]

IngestTyped ==
  /\ runRows \in Seq(RunRow) /\ runNumbers \in [Paths -> Nat]
  /\ handling \in [Webhook -> Handling]

InFile(h) == h.at \in {"read", "number", "create", "reject", "jobs"}
Owes(d) == Served(d) /\ ~d.gone /\ d.event # "installation"
AccountedBelow(d, n) ==
  \A i \in DOMAIN WorkflowFile :
    i < n => (Verdict(WorkflowFile[i], d) # "none" => Accounted(d, WorkflowFile[i]))

\* A handler with no error so far has accounted for the files before its own;
\* the run it is creating is still queued.
HandlerOK(d, h) ==
  /\ h.at # "over" => h.answer = "none"
  /\ h.at \in {"repo", "list"} => ~h.failed
  /\ InFile(h) => h.file \in DOMAIN WorkflowFile /\ (~h.failed => AccountedBelow(d, h.file))
  /\ h.at \in {"reject", "jobs"} =>
       /\ h.run \in DOMAIN runRows
       /\ runRows[h.run].payload = d /\ runRows[h.run].status = "queued"
       /\ runRows[h.run].path = WorkflowFile[h.file].path
  /\ h.answer = "ok" /\ Owes(d) => AccountedBelow(d, Len(WorkflowFile) + 1)

IngestInv == IngestTyped /\ \A d \in Webhook : HandlerOK(d, handling[d])

\* A step that only changes where one handler stands.
LEMMA OneHandler ==
  ASSUME IngestInv, NEW d \in Webhook, NEW h \in Handling, HandlerOK(d, h)',
         handling' = [handling EXCEPT ![d] = h], runNumbers' \in [Paths -> Nat],
         runRows' \in Seq(RunRow),
         \A e \in Webhook : e # d => HandlerOK(e, handling[e])'
  PROVE  IngestInv'
  BY DEF IngestInv, IngestTyped

\* Rows are added, and only a row still queued changes: what accounts for a
\* file goes on doing so.
RowsKept(r) ==
  /\ runRows \in Seq(RunRow) /\ runRows' \in Seq(RunRow)
  /\ \A i \in DOMAIN runRows :
       /\ i \in DOMAIN runRows'
       /\ runRows'[i].payload = runRows[i].payload /\ runRows'[i].path = runRows[i].path
       /\ i = r \/ runRows'[i] = runRows[i]
  /\ r \in DOMAIN runRows => runRows[r].status = "queued"

LEMMA AccountedKept ==
  ASSUME NEW r, RowsKept(r), NEW d, NEW w, Accounted(d, w)
  PROVE  Accounted(d, w)'
<1>1. PICK i \in DOMAIN runRows :
        /\ runRows[i].payload = d /\ runRows[i].path = w.path
        /\ \/ runRows[i].status = "completed"
           \/ runRows[i].status = "in_progress" /\ runRows[i].jobs = w.jobs
  BY DEF Accounted
<1>2. runRows'[i] = runRows[i] /\ i \in DOMAIN runRows'
  BY <1>1 DEF RowsKept
<1> QED
  BY <1>1, <1>2 DEF Accounted

LEMMA BelowKept ==
  ASSUME NEW r, RowsKept(r), NEW d, NEW n, AccountedBelow(d, n)
  PROVE  AccountedBelow(d, n)'
  BY AccountedKept DEF AccountedBelow

\* A step on the run of one delivery keeps what the others have.
LEMMA OthersKept ==
  ASSUME IngestInv, NEW r, RowsKept(r), NEW d \in Webhook,
         r \in DOMAIN runRows => runRows[r].payload = d,
         NEW e \in Webhook, e # d, NEW h, h = handling[e]
  PROVE  HandlerOK(e, h)'
<1>1. HandlerOK(e, h)
  BY DEF IngestInv
<1>2. InFile(h) => h.file \in DOMAIN WorkflowFile /\ (~h.failed => AccountedBelow(e, h.file)')
  BY <1>1, BelowKept DEF HandlerOK
<1>3. h.answer = "ok" /\ Owes(e) => AccountedBelow(e, Len(WorkflowFile) + 1)'
  BY <1>1, BelowKept DEF HandlerOK
<1>4. h.at \in {"reject", "jobs"} =>
       /\ h.run \in DOMAIN runRows'
       /\ runRows'[h.run].payload = e /\ runRows'[h.run].status = "queued"
       /\ runRows'[h.run].path = WorkflowFile[h.file].path
  <2> SUFFICES ASSUME h.at \in {"reject", "jobs"}
               PROVE  /\ h.run \in DOMAIN runRows'
                      /\ runRows'[h.run].payload = e /\ runRows'[h.run].status = "queued"
                      /\ runRows'[h.run].path = WorkflowFile[h.file].path
    OBVIOUS
  <2>1. /\ h.run \in DOMAIN runRows
        /\ runRows[h.run].payload = e /\ runRows[h.run].status = "queued"
        /\ runRows[h.run].path = WorkflowFile[h.file].path
    BY <1>1 DEF HandlerOK
  <2>2. h.run # r
    BY <2>1
  <2>3. runRows'[h.run] = runRows[h.run] /\ h.run \in DOMAIN runRows'
    BY <2>1, <2>2 DEF RowsKept
  <2> QED
    BY <2>1, <2>3
<1> QED
  BY <1>1, <1>2, <1>3, <1>4 DEF HandlerOK, InFile, Owes, Served

\* The end of one file: the next one, or the answer.
LEMMA FileDoneOK ==
  ASSUME NEW d \in Webhook, NEW h \in Handling, NEW err \in BOOLEAN,
         h.file \in DOMAIN WorkflowFile, h.answer = "none",
         ~h.failed => AccountedBelow(d, h.file)',
         ~err => \/ Verdict(WorkflowFile[h.file], d) = "none"
                 \/ Accounted(d, WorkflowFile[h.file])'
  PROVE  FileDone(d, h, err) \in Handling /\ HandlerOK(d, FileDone(d, h, err))'
<1> DEFINE failed == h.failed \/ err
           n == h.file
           g == FileDone(d, h, err)
<1>1. n \in Nat \ {0} /\ n <= Len(WorkflowFile) /\ DOMAIN WorkflowFile = 1..Len(WorkflowFile)
      /\ Len(WorkflowFile) \in Nat
  BY IngestAssumption
<1>2. failed \in BOOLEAN
  BY DEF Handling
<1>3. ~failed => AccountedBelow(d, n + 1)'
  <2> SUFFICES ASSUME ~failed, NEW i \in DOMAIN WorkflowFile, i < n + 1,
                      Verdict(WorkflowFile[i], d) # "none"
               PROVE  Accounted(d, WorkflowFile[i])'
    BY DEF AccountedBelow
  <2>1. i < n \/ i = n
    BY <1>1
  <2> QED
    BY <2>1 DEF AccountedBelow
<1> HIDE DEF failed
<1>4. CASE n < Len(WorkflowFile)
  <2>1. g = [h EXCEPT !.at = "read", !.file = n + 1, !.run = 0, !.failed = failed]
    BY <1>4 DEF FileDone, failed
  <2> HIDE DEF g
  <2>2. g \in Handling /\ g.at = "read" /\ g.file = n + 1 /\ g.failed = failed /\ g.answer = "none"
    <3> DEFINE m == n + 1
    <3>1. m \in Nat /\ g = [h EXCEPT !.at = "read", !.file = m, !.run = 0, !.failed = failed]
      BY <1>1, <2>1
    <3> HIDE DEF m
    <3>2. g \in Handling /\ g.at = "read" /\ g.file = m /\ g.failed = failed /\ g.answer = "none"
      BY <3>1, <1>2 DEF Handling, Places
    <3> QED
      BY <3>2 DEF m
  <2>3. g.file \in DOMAIN WorkflowFile
    BY <2>2, <1>1, <1>4
  <2>4. HandlerOK(d, g)'
    BY <2>2, <2>3, <1>3 DEF HandlerOK, InFile
  <2> QED
    BY <2>2, <2>4 DEF g
<1>5. CASE ~(n < Len(WorkflowFile))
  <2>1. g = [h EXCEPT !.at = "over", !.run = 0, !.answer = IF failed THEN "error" ELSE "ok"]
    BY <1>5 DEF FileDone, failed
  <2> HIDE DEF g
  <2>2. g \in Handling /\ g.at = "over" /\ (g.answer = "ok" => ~failed)
    BY <2>1, <1>2 DEF Handling, Places
  <2>3. n + 1 = Len(WorkflowFile) + 1
    BY <1>1, <1>5
  <2>4. HandlerOK(d, g)'
    BY <2>2, <2>3, <1>3 DEF HandlerOK, InFile
  <2> QED
    BY <2>2, <2>4 DEF g
<1> QED
  BY <1>4, <1>5

\* What every step of one handler starts from.
LEMMA HandlerFacts ==
  ASSUME IngestInv, NEW d \in Webhook
  PROVE  /\ handling[d] \in Handling /\ HandlerOK(d, handling[d])
         /\ runRows \in Seq(RunRow) /\ runNumbers \in [Paths -> Nat]
         /\ handling[d].at \in {"read", "number", "create", "reject", "jobs"} =>
              /\ handling[d].file \in DOMAIN WorkflowFile
              /\ FileOf(d) = WorkflowFile[handling[d].file] /\ FileOf(d).path \in Paths
              /\ handling[d].answer = "none"
              /\ ~handling[d].failed => AccountedBelow(d, handling[d].file)
<1>1. handling[d] \in Handling /\ HandlerOK(d, handling[d])
  BY DEF IngestInv, IngestTyped
<1> QED
  BY <1>1 DEF IngestInv, IngestTyped, HandlerOK, InFile, FileOf, Paths

\* A step that leaves the rows alone.
LEMMA RowsSame ==
  ASSUME IngestInv, NEW d \in Webhook, NEW h \in Handling, HandlerOK(d, h),
         handling' = [handling EXCEPT ![d] = h], UNCHANGED runRows,
         runNumbers' \in [Paths -> Nat]
  PROVE  IngestInv'
<1>1. RowsKept(0)
  BY DEF IngestInv, IngestTyped, RowsKept
<1>2. 0 \notin DOMAIN runRows
  BY DEF IngestInv, IngestTyped
<1>3. \A e \in Webhook : e # d => HandlerOK(e, handling[e])'
  <2> SUFFICES ASSUME NEW e \in Webhook, e # d PROVE HandlerOK(e, handling[e])'
    OBVIOUS
  <2> DEFINE g == handling[e]
  <2>1. handling'[e] = g
    BY DEF IngestInv, IngestTyped
  <2>2. HandlerOK(e, g) /\ UNCHANGED runRows
    BY DEF IngestInv
  <2> QED
    BY <2>1, <2>2 DEF HandlerOK, InFile, Owes, Served, AccountedBelow, Accounted
<1>4. HandlerOK(d, h)'
  BY DEF HandlerOK, InFile, Owes, Served, AccountedBelow, Accounted
<1>5. runRows' \in Seq(RunRow)
  BY DEF IngestInv, IngestTyped
<1> QED
  BY <1>3, <1>4, <1>5, OneHandler

\* A step of a handler that changes the row of its run.
LEMMA OwnRow ==
  ASSUME IngestInv, NEW d \in Webhook, NEW h \in Handling, HandlerOK(d, h)',
         handling' = [handling EXCEPT ![d] = h], UNCHANGED runNumbers,
         NEW r, RowsKept(r), r \in DOMAIN runRows => runRows[r].payload = d
  PROVE  IngestInv'
<1>1. ASSUME NEW e \in Webhook, e # d PROVE HandlerOK(e, handling[e])'
  <2>2. PICK g : g = handling[e]
    OBVIOUS
  <2>1. handling'[e] = g
    BY <1>1, <2>2 DEF IngestInv, IngestTyped
  <2>3. HandlerOK(e, g)'
    BY <1>1, <2>2, OthersKept
  <2> QED
    BY <2>1, <2>3 DEF HandlerOK
<1> QED
  BY <1>1, OneHandler DEF RowsKept, IngestInv, IngestTyped

\* The end of a file: the step has settled its run, there is none, or there was
\* an error.
LEMMA FileEnds ==
  ASSUME IngestInv, NEW d \in Webhook, InFile(handling[d]), NEW err \in BOOLEAN,
         handling' = [handling EXCEPT ![d] = FileDone(d, @, err)], UNCHANGED runNumbers,
         NEW r, RowsKept(r), r \in DOMAIN runRows => runRows[r].payload = d,
         NEW w, w = FileOf(d),
         err \/ Verdict(w, d) = "none" \/ Accounted(d, w)'
  PROVE  IngestInv'
<1>1. PICK k : k = handling[d]
  OBVIOUS
<1>2. /\ k \in Handling /\ k.file \in DOMAIN WorkflowFile /\ k.answer = "none"
      /\ ~k.failed => AccountedBelow(d, k.file)
      /\ w = WorkflowFile[k.file]
  BY <1>1, HandlerFacts DEF InFile
<1>3. ~k.failed => AccountedBelow(d, k.file)'
  BY <1>2, BelowKept
<1>4. FileDone(d, k, err) \in Handling /\ HandlerOK(d, FileDone(d, k, err))'
  BY <1>2, <1>3, FileDoneOK
<1>5. PICK f : f = FileDone(d, k, err)
  OBVIOUS
<1>6. f \in Handling /\ HandlerOK(d, f)'
  BY <1>4, <1>5
<1>7. handling' = [handling EXCEPT ![d] = f]
  BY <1>1, <1>5
<1> QED
  BY <1>6, <1>7, OwnRow

\* A call that fails ends the file with an error and leaves the rows as they are.
LEMMA FileFails ==
  ASSUME IngestInv, NEW d \in Webhook, InFile(handling[d]), NEW err \in BOOLEAN,
         err \/ Verdict(FileOf(d), d) = "none",
         handling' = [handling EXCEPT ![d] = FileDone(d, @, err)],
         UNCHANGED <<runRows, runNumbers>>
  PROVE  IngestInv'
<1>1. RowsKept(0) /\ 0 \notin DOMAIN runRows
  BY DEF IngestInv, IngestTyped, RowsKept
<1>2. PICK w : w = FileOf(d)
  OBVIOUS
<1>3. err \/ Verdict(w, d) = "none"
  BY <1>2
<1>4. /\ handling' = [handling EXCEPT ![d] = FileDone(d, @, err)] /\ UNCHANGED runNumbers
  OBVIOUS
<1> QED
  BY <1>1, <1>2, <1>3, <1>4, FileEnds

LEMMA DeliverKeeps ==
  ASSUME IngestInv, NEW d \in Webhook, Deliver(d)
  PROVE  IngestInv'
<1> DEFINE dropped == ~Served(d) \/ d.gone
           h == [Idle EXCEPT !.tries = handling[d].tries + 1,
                             !.at = IF dropped THEN "over" ELSE "repo",
                             !.answer = IF dropped THEN "ok" ELSE "none"]
<1>1. handling' = [handling EXCEPT ![d] = h] /\ UNCHANGED <<runRows, runNumbers>>
  BY DEF Deliver
<1>2. handling[d].tries + 1 \in Nat
  BY HandlerFacts DEF Handling
<1>3. Idle \in Handling /\ ~Idle.failed
  BY DEF Idle, Handling, Places
<1>4. /\ h \in Handling /\ ~h.failed
      /\ h.at = (IF dropped THEN "over" ELSE "repo")
      /\ h.answer = (IF dropped THEN "ok" ELSE "none")
  BY <1>2, <1>3 DEF Handling, Places
<1> HIDE DEF h
<1>5. HandlerOK(d, h)
  BY <1>4 DEF HandlerOK, InFile, Owes
<1>6. runNumbers' \in [Paths -> Nat] /\ UNCHANGED runRows
  BY <1>1, HandlerFacts
<1> QED
  BY <1>1, <1>4, <1>5, <1>6, RowsSame

LEMMA ReplyKeeps ==
  ASSUME IngestInv, NEW d \in Webhook, NEW answer \in {"ok", "error"},
         answer = "ok" => ~Owes(d) \/ AccountedBelow(d, Len(WorkflowFile) + 1),
         handling' = [handling EXCEPT ![d].at = "over", ![d].answer = answer],
         UNCHANGED <<runRows, runNumbers>>
  PROVE  IngestInv'
<1> DEFINE h == [handling[d] EXCEPT !.at = "over", !.answer = answer]
<1>1. handling' = [handling EXCEPT ![d] = h]
  OBVIOUS
<1>2. h \in Handling /\ h.at = "over" /\ h.answer = answer
  BY HandlerFacts DEF Handling, Places
<1> HIDE DEF h
<1>3. HandlerOK(d, h)
  BY <1>2 DEF HandlerOK, InFile
<1>4. runNumbers' \in [Paths -> Nat] /\ UNCHANGED runRows
  BY HandlerFacts
<1> QED
  BY <1>1, <1>2, <1>3, <1>4, RowsSame

\* A handler that goes on to its next call on the same file.
LEMMA MoveKeeps ==
  ASSUME IngestInv, NEW d \in Webhook, NEW to \in {"repo", "list", "number", "create"},
         NEW h \in Handling, h.at = to, h.failed = handling[d].failed,
         h.answer = "none", h.file = handling[d].file,
         to \in {"repo", "list"} => ~h.failed,
         to \notin {"repo", "list"} => InFile(handling[d]),
         handling' = [handling EXCEPT ![d] = h],
         UNCHANGED runRows, runNumbers' \in [Paths -> Nat]
  PROVE  IngestInv'
<1>1. HandlerOK(d, handling[d])
  BY HandlerFacts
<1>2. HandlerOK(d, h)
  BY <1>1 DEF HandlerOK, InFile
<1> QED
  BY <1>2, RowsSame

LEMMA RecordRepoKeeps ==
  ASSUME IngestInv, NEW d \in Webhook, RecordRepo(d)
  PROVE  IngestInv'
<1>1. UNCHANGED <<runRows, runNumbers>> /\ handling[d].at = "repo"
  BY DEF RecordRepo, At
<1>2. CASE d.event = "installation" /\ Reply(d, "ok")
  BY <1>1, <1>2, ReplyKeeps DEF Reply, Owes
<1>3. CASE Reply(d, "error")
  BY <1>1, <1>3, ReplyKeeps DEF Reply
<1>4. CASE Goto(d, "list")
  <2> DEFINE h == [handling[d] EXCEPT !.at = "list"]
  <2>1. handling' = [handling EXCEPT ![d] = h]
    BY <1>4 DEF Goto
  <2>2. ~handling[d].failed /\ handling[d].answer = "none"
    BY <1>1, HandlerFacts DEF HandlerOK
  <2>3. h \in Handling /\ h.at = "list" /\ h.failed = handling[d].failed /\ h.answer = "none"
        /\ h.file = handling[d].file
    BY <2>2, HandlerFacts DEF Handling, Places
  <2> HIDE DEF h
  <2>4. runNumbers' \in [Paths -> Nat] /\ UNCHANGED runRows
    BY <1>1, HandlerFacts
  <2> QED
    BY <2>1, <2>2, <2>3, <2>4, MoveKeeps
<1> QED
  BY <1>2, <1>3, <1>4 DEF RecordRepo

LEMMA ListFilesKeeps ==
  ASSUME IngestInv, NEW d \in Webhook, ListFiles(d)
  PROVE  IngestInv'
<1>1. UNCHANGED <<runRows, runNumbers>> /\ handling[d].at = "list"
  BY DEF ListFiles, At
<1>2. CASE Reply(d, "error")
  BY <1>1, <1>2, ReplyKeeps DEF Reply
<1>3. CASE handling' = [handling EXCEPT ![d] =
             IF WorkflowFile = <<>> THEN [@ EXCEPT !.at = "over", !.answer = "ok"]
             ELSE [@ EXCEPT !.at = "read", !.file = 1]]
  <2>1. CASE WorkflowFile = <<>>
    <3>1. AccountedBelow(d, Len(WorkflowFile) + 1)
      BY <2>1 DEF AccountedBelow
    <3>2. handling' = [handling EXCEPT ![d].at = "over", ![d].answer = "ok"]
      BY <1>3, <2>1
    <3> QED
      BY <1>1, <3>1, <3>2, ReplyKeeps
  <2>2. CASE WorkflowFile # <<>>
    <3> DEFINE h == [handling[d] EXCEPT !.at = "read", !.file = 1]
    <3>1. handling' = [handling EXCEPT ![d] = h]
      BY <1>3, <2>2
    <3>2. ~handling[d].failed /\ handling[d].answer = "none"
      BY <1>1, HandlerFacts DEF HandlerOK
    <3>3. h \in Handling /\ h.at = "read" /\ h.answer = "none" /\ h.file = 1
      BY <3>2, HandlerFacts DEF Handling, Places
    <3> HIDE DEF h
    <3>4. DOMAIN WorkflowFile = 1..Len(WorkflowFile) /\ Len(WorkflowFile) \in Nat \ {0}
      BY <2>2, IngestAssumption
    <3>5. 1 \in DOMAIN WorkflowFile /\ \A i \in DOMAIN WorkflowFile : ~(i < 1)
      BY <3>4
    <3>6. AccountedBelow(d, 1)
      BY <3>5 DEF AccountedBelow
    <3>7. HandlerOK(d, h)
      BY <3>3, <3>5, <3>6 DEF HandlerOK, InFile
    <3>8. runNumbers' \in [Paths -> Nat] /\ UNCHANGED runRows
      BY <1>1, HandlerFacts
    <3> QED
      BY <3>1, <3>3, <3>7, <3>8, RowsSame
  <2> QED
    BY <2>1, <2>2
<1> QED
  BY <1>2, <1>3 DEF ListFiles

LEMMA ReadFileKeeps ==
  ASSUME IngestInv, NEW d \in Webhook, ReadFile(d)
  PROVE  IngestInv'
<1>1. UNCHANGED <<runRows, runNumbers>> /\ handling[d].at = "read" /\ InFile(handling[d])
  BY DEF ReadFile, At, InFile
<1>2. CASE Verdict(FileOf(d), d) = "none" /\ handling' = [handling EXCEPT ![d] = FileDone(d, @, FALSE)]
  BY <1>1, <1>2, FileFails
<1>3. CASE Goto(d, "number")
  <2> DEFINE h == [handling[d] EXCEPT !.at = "number"]
  <2>1. handling' = [handling EXCEPT ![d] = h]
    BY <1>3 DEF Goto
  <2>2. handling[d].answer = "none"
    BY <1>1, HandlerFacts
  <2>3. h \in Handling /\ h.at = "number" /\ h.failed = handling[d].failed /\ h.answer = "none"
        /\ h.file = handling[d].file
    BY <2>2, HandlerFacts DEF Handling, Places
  <2> HIDE DEF h
  <2>4. runNumbers' \in [Paths -> Nat] /\ UNCHANGED runRows
    BY <1>1, HandlerFacts
  <2> QED
    BY <1>1, <2>1, <2>2, <2>3, <2>4, MoveKeeps
<1>4. CASE handling' = [handling EXCEPT ![d] = FileDone(d, @, TRUE)]
  BY <1>1, <1>4, FileFails
<1> QED
  BY <1>2, <1>3, <1>4 DEF ReadFile

LEMMA AllocateKeeps ==
  ASSUME IngestInv, NEW d \in Webhook, AllocateNumber(d)
  PROVE  IngestInv'
<1>1. UNCHANGED runRows /\ handling[d].at = "number" /\ InFile(handling[d])
  BY DEF AllocateNumber, At, InFile
<1>2. CASE handling' = [handling EXCEPT ![d] = FileDone(d, @, TRUE)] /\ UNCHANGED runNumbers
  BY <1>1, <1>2, FileFails
<1>3. CASE /\ runNumbers' = [runNumbers EXCEPT ![FileOf(d).path] = @ + 1]
           /\ handling' = [handling EXCEPT ![d].at = "create", ![d].number = runNumbers[FileOf(d).path] + 1]
  <2> DEFINE m == runNumbers[FileOf(d).path] + 1
             h == [handling[d] EXCEPT !.at = "create", !.number = m]
  <2>1. handling' = [handling EXCEPT ![d] = h] /\ runNumbers' = [runNumbers EXCEPT ![FileOf(d).path] = m]
    BY <1>3
  <2>2. handling[d].answer = "none" /\ FileOf(d).path \in Paths /\ runNumbers \in [Paths -> Nat]
    BY <1>1, HandlerFacts
  <2>3. m \in Nat
    BY <2>2
  <2> HIDE DEF m
  <2>4. runNumbers' \in [Paths -> Nat]
    BY <2>1, <2>2, <2>3
  <2>5. h \in Handling /\ h.at = "create" /\ h.failed = handling[d].failed /\ h.answer = "none"
        /\ h.file = handling[d].file
    BY <2>2, <2>3, HandlerFacts DEF Handling, Places
  <2> HIDE DEF h
  <2>6. handling' = [handling EXCEPT ![d] = h] /\ UNCHANGED runRows
    BY <1>1, <2>1
  <2> QED
    BY <1>1, <2>2, <2>4, <2>5, <2>6, MoveKeeps
<1> QED
  BY <1>2, <1>3 DEF AllocateNumber
LEMMA CreateRunKeeps ==
  ASSUME IngestInv, NEW d \in Webhook, CreateRun(d)
  PROVE  IngestInv'
<1>1. UNCHANGED runNumbers /\ handling[d].at = "create" /\ InFile(handling[d])
  BY DEF CreateRun, At, InFile
<1>2. CASE handling' = [handling EXCEPT ![d] = FileDone(d, @, TRUE)] /\ UNCHANGED runRows
  BY <1>1, <1>2, FileFails
<1>3. CASE /\ runRows' = Append(runRows, [path |-> FileOf(d).path, number |-> handling[d].number,
                                          payload |-> d, status |-> "queued", jobs |-> 0])
           /\ handling' = [handling EXCEPT ![d].run = Len(runRows) + 1,
                ![d].at = IF Verdict(FileOf(d), d) = "reject" \/ FileOf(d).jobs < 0
                          THEN "reject" ELSE "jobs"]
  <2>1. PICK k : k = handling[d]
    OBVIOUS
  <2>2. /\ k \in Handling /\ k.file \in DOMAIN WorkflowFile /\ k.answer = "none"
        /\ ~k.failed => AccountedBelow(d, k.file)
        /\ FileOf(d) = WorkflowFile[k.file] /\ FileOf(d).path \in Paths
        /\ runRows \in Seq(RunRow) /\ Len(runRows) \in Nat
    BY <1>1, <2>1, HandlerFacts
  <2>3. PICK to \in {"reject", "jobs"} :
          to = IF Verdict(FileOf(d), d) = "reject" \/ FileOf(d).jobs < 0 THEN "reject" ELSE "jobs"
    OBVIOUS
  <2>4. PICK n \in Nat : n = Len(runRows)
    BY <2>2
  <2> DEFINE r == [path |-> FileOf(d).path, number |-> k.number,
                   payload |-> d, status |-> "queued", jobs |-> 0]
             m == n + 1
             h == [k EXCEPT !.run = m, !.at = to]
  <2>0. m \in Nat
    OBVIOUS
  <2>5. r \in RunRow /\ r.payload = d /\ r.path = WorkflowFile[k.file].path /\ r.status = "queued"
    BY <2>2 DEF RunRow, Handling
  <2>7. runRows' = Append(runRows, r) /\ handling' = [handling EXCEPT ![d] = h]
    BY <1>3, <2>1, <2>3, <2>4
  <2> HIDE DEF m
  <2>6. h \in Handling /\ h.run = m /\ h.at = to /\ h.file = k.file /\ h.answer = "none"
        /\ h.failed = k.failed
    BY <2>0, <2>2, <2>3 DEF Handling, Places
  <2>8. PICK x : x = r
    OBVIOUS
  <2>9. PICK g : g = h
    OBVIOUS
  <2>10. x \in RunRow /\ x.payload = d /\ x.path = WorkflowFile[k.file].path /\ x.status = "queued"
    BY <2>5, <2>8
  <2>11. g \in Handling /\ g.run = n + 1 /\ g.at = to /\ g.file = k.file /\ g.answer = "none"
        /\ g.failed = k.failed
    BY <2>6, <2>9 DEF m
  <2>12. runRows' = Append(runRows, x) /\ handling' = [handling EXCEPT ![d] = g]
    BY <2>7, <2>8, <2>9
  <2> HIDE DEF r, h
  <2>13. /\ runRows' \in Seq(RunRow) /\ DOMAIN runRows = 1..n /\ DOMAIN runRows' = 1..(n + 1)
         /\ runRows'[n + 1] = x
    BY <2>2, <2>4, <2>10, <2>12
  <2>14. \A i \in 1..n : runRows'[i] = runRows[i] /\ i \in 1..(n + 1)
    BY <2>2, <2>4, <2>12
  <2>15. RowsKept(0) /\ 0 \notin DOMAIN runRows
    BY <2>2, <2>13, <2>14 DEF RowsKept
  <2>16. ~k.failed => AccountedBelow(d, k.file)'
    BY <2>2, <2>15, BelowKept
  <2>17. n + 1 \in DOMAIN runRows'
    BY <2>13
  <2>18. HandlerOK(d, g)'
    BY <2>2, <2>3, <2>10, <2>11, <2>13, <2>16, <2>17 DEF HandlerOK, InFile
  <2> QED
    BY <1>1, <2>11, <2>12, <2>15, <2>18, OwnRow
<1> QED
  BY <1>2, <1>3 DEF CreateRun

\* The run a handler is about to end or to start is its own, and queued.
LEMMA OwnRun ==
  ASSUME IngestInv, NEW d \in Webhook, handling[d].at \in {"reject", "jobs"},
         NEW x \in RunRow, NEW r, r = handling[d].run,
         x.payload = d, x.path = FileOf(d).path,
         runRows' = [runRows EXCEPT ![r] = x]
  PROVE  /\ RowsKept(r) /\ (r \in DOMAIN runRows => runRows[r].payload = d)
         /\ r \in DOMAIN runRows' /\ runRows'[r] = x
<1>1. /\ r \in DOMAIN runRows /\ runRows[r].payload = d /\ runRows[r].status = "queued"
      /\ runRows[r].path = FileOf(d).path /\ runRows \in Seq(RunRow)
  BY HandlerFacts DEF HandlerOK
<1>2. runRows' \in Seq(RunRow) /\ DOMAIN runRows' = DOMAIN runRows /\ runRows'[r] = x
      /\ \A i \in DOMAIN runRows : i # r => runRows'[i] = runRows[i]
  BY <1>1
<1> QED
  BY <1>1, <1>2 DEF RowsKept

LEMMA RejectRunKeeps ==
  ASSUME IngestInv, NEW d \in Webhook, RejectRun(d)
  PROVE  IngestInv'
<1>1. UNCHANGED runNumbers /\ handling[d].at = "reject" /\ InFile(handling[d])
  BY DEF RejectRun, At, InFile
<1>2. CASE handling' = [handling EXCEPT ![d] = FileDone(d, @, TRUE)] /\ UNCHANGED runRows
  BY <1>1, <1>2, FileFails
<1>3. ASSUME NEW err \in BOOLEAN, handling' = [handling EXCEPT ![d] = FileDone(d, @, err)],
             runRows' = [runRows EXCEPT ![handling[d].run].status = "completed"]
      PROVE  IngestInv'
  <2>1. PICK r : r = handling[d].run
    OBVIOUS
  <2>2. PICK w : w = FileOf(d)
    OBVIOUS
  <2> DEFINE y == [runRows[r] EXCEPT !.status = "completed"]
  <2>3. r \in DOMAIN runRows /\ runRows[r] \in RunRow /\ runRows[r].payload = d
        /\ runRows[r].path = w.path
    BY <1>1, <2>1, <2>2, HandlerFacts DEF HandlerOK
  <2>4. y \in RunRow /\ y.payload = d /\ y.path = w.path /\ y.status = "completed"
    BY <2>3 DEF RunRow
  <2>5. runRows' = [runRows EXCEPT ![r] = y]
    BY <1>3, <2>1
  <2>6. PICK x : x = y
    OBVIOUS
  <2>7. x \in RunRow /\ x.payload = d /\ x.path = w.path /\ x.status = "completed"
        /\ runRows' = [runRows EXCEPT ![r] = x]
    BY <2>4, <2>5, <2>6
  <2> HIDE DEF y
  <2>8. /\ RowsKept(r) /\ (r \in DOMAIN runRows => runRows[r].payload = d)
        /\ r \in DOMAIN runRows' /\ runRows'[r] = x
    BY <1>1, <2>1, <2>2, <2>7, OwnRun
  <2>9. Accounted(d, w)'
    BY <2>7, <2>8 DEF Accounted
  <2>10. handling' = [handling EXCEPT ![d] = FileDone(d, @, err)]
    BY <1>3
  <2> QED
    BY <1>1, <2>2, <2>8, <2>9, <2>10, FileEnds
<1> QED
  BY <1>2, <1>3 DEF RejectRun

LEMMA StartRunKeeps ==
  ASSUME IngestInv, NEW d \in Webhook, StartRun(d)
  PROVE  IngestInv'
<1>1. UNCHANGED runNumbers /\ handling[d].at = "jobs" /\ InFile(handling[d])
  BY DEF StartRun, At, InFile
<1>2. PICK r : r = handling[d].run
  OBVIOUS
<1>3. PICK w : w = FileOf(d)
  OBVIOUS
<1>4. r \in DOMAIN runRows /\ runRows[r] \in RunRow /\ runRows[r].payload = d
      /\ runRows[r].path = w.path /\ runRows[r].status = "queued"
  BY <1>1, <1>2, <1>3, HandlerFacts DEF HandlerOK
<1>5. CASE runRows' = [runRows EXCEPT ![r].jobs = @ + 1] /\ UNCHANGED handling
  <2> DEFINE n == runRows[r].jobs + 1
             y == [runRows[r] EXCEPT !.jobs = n]
  <2>1. n \in Nat
    BY <1>4 DEF RunRow
  <2>2. runRows' = [runRows EXCEPT ![r] = y]
    BY <1>5
  <2> HIDE DEF n
  <2>3. y \in RunRow /\ y.payload = d /\ y.path = w.path /\ y.status = "queued"
    BY <1>4, <2>1 DEF RunRow
  <2>4. PICK x : x = y
    OBVIOUS
  <2>5. x \in RunRow /\ x.payload = d /\ x.path = w.path /\ x.status = "queued"
        /\ runRows' = [runRows EXCEPT ![r] = x]
    BY <2>2, <2>3, <2>4
  <2> HIDE DEF y
  <2>6. /\ RowsKept(r) /\ (r \in DOMAIN runRows => runRows[r].payload = d)
        /\ r \in DOMAIN runRows' /\ runRows'[r] = x
    BY <1>1, <1>2, <1>3, <2>5, OwnRun
  <2>7. PICK h : h = handling[d]
    OBVIOUS
  <2>8. h \in Handling /\ HandlerOK(d, h) /\ h.run = r /\ h.at = "jobs"
        /\ w = WorkflowFile[h.file]
    BY <1>1, <1>2, <1>3, <2>7, HandlerFacts
  <2>9. InFile(h) => h.file \in DOMAIN WorkflowFile /\ (~h.failed => AccountedBelow(d, h.file)')
    BY <2>6, <2>8, BelowKept DEF HandlerOK
  <2>10. HandlerOK(d, h)'
    BY <2>5, <2>6, <2>8, <2>9 DEF HandlerOK, InFile
  <2>11. handling' = [handling EXCEPT ![d] = h]
    <3>1. handling = [handling EXCEPT ![d] = handling[d]]
      BY DEF IngestInv, IngestTyped
    <3> QED
      BY <1>5, <2>7, <3>1
  <2> QED
    BY <1>1, <2>6, <2>8, <2>10, <2>11, OwnRow
<1>6. CASE /\ runRows[r].jobs = w.jobs
           /\ runRows' = [runRows EXCEPT ![r].status = "in_progress"]
           /\ handling' = [handling EXCEPT ![d] = FileDone(d, @, FALSE)]
  <2> DEFINE y == [runRows[r] EXCEPT !.status = "in_progress"]
  <2>1. runRows' = [runRows EXCEPT ![r] = y]
    BY <1>6
  <2>2. y \in RunRow /\ y.payload = d /\ y.path = w.path /\ y.status = "in_progress"
        /\ y.jobs = w.jobs
    BY <1>4, <1>6 DEF RunRow
  <2>3. PICK x : x = y
    OBVIOUS
  <2>4. x \in RunRow /\ x.payload = d /\ x.path = w.path /\ x.status = "in_progress"
        /\ x.jobs = w.jobs /\ runRows' = [runRows EXCEPT ![r] = x]
    BY <2>1, <2>2, <2>3
  <2> HIDE DEF y
  <2>5. /\ RowsKept(r) /\ (r \in DOMAIN runRows => runRows[r].payload = d)
        /\ r \in DOMAIN runRows' /\ runRows'[r] = x
    BY <1>1, <1>2, <1>3, <2>4, OwnRun
  <2>6. Accounted(d, w)'
    BY <2>4, <2>5 DEF Accounted
  <2>7. handling' = [handling EXCEPT ![d] = FileDone(d, @, FALSE)]
    BY <1>6
  <2> QED
    BY <1>1, <1>3, <2>5, <2>6, <2>7, FileEnds
<1>7. CASE handling' = [handling EXCEPT ![d] = FileDone(d, @, TRUE)] /\ UNCHANGED runRows
  BY <1>1, <1>7, FileFails
<1> QED
  BY <1>2, <1>3, <1>5, <1>6, <1>7 DEF StartRun

\* The deliveries under way are lost; none of them was answered.
LEMMA IngestRestartKeeps ==
  ASSUME IngestInv, IngestRestart
  PROVE  IngestInv'
<1>1. /\ handling' = [d \in Webhook |->
           IF handling[d].at \in {"due", "over"} THEN handling[d]
           ELSE [handling[d] EXCEPT !.at = "over", !.run = 0, !.answer = "lost"]]
      /\ UNCHANGED <<runRows, runNumbers>>
  BY DEF IngestRestart
<1>2. ASSUME NEW d \in Webhook PROVE handling'[d] \in Handling /\ HandlerOK(d, handling'[d])
  <2>1. handling[d] \in Handling /\ HandlerOK(d, handling[d])
    BY HandlerFacts
  <2>2. CASE handling[d].at \in {"due", "over"}
    BY <1>1, <2>1, <2>2
  <2>3. CASE handling[d].at \notin {"due", "over"}
    <3> DEFINE h == [handling[d] EXCEPT !.at = "over", !.run = 0, !.answer = "lost"]
    <3>1. handling'[d] = h
      BY <1>1, <2>3
    <3>2. h \in Handling /\ h.at = "over" /\ h.answer = "lost"
      BY <2>1 DEF Handling, Places
    <3> HIDE DEF h
    <3>3. HandlerOK(d, h)
      BY <3>2 DEF HandlerOK, InFile
    <3> QED
      BY <3>1, <3>2, <3>3
  <2> QED
    BY <2>2, <2>3
<1>3. DOMAIN handling' = Webhook
  BY <1>1
<1>4. ASSUME NEW d \in Webhook PROVE HandlerOK(d, handling[d])'
  <2>1. PICK h : h = handling'[d]
    OBVIOUS
  <2>2. HandlerOK(d, h) /\ UNCHANGED runRows
    BY <1>1, <1>2, <2>1
  <2>3. HandlerOK(d, handling'[d]) /\ handling'[d] = h
    BY <2>1, <2>2
  <2> QED
    BY <2>1, <2>2 DEF HandlerOK, InFile, Owes, Served, AccountedBelow, Accounted
<1> QED
  BY <1>1, <1>2, <1>3, <1>4 DEF IngestInv, IngestTyped

LEMMA IngestStep == IngestInv /\ [IngestNext]_ingestVars => IngestInv'
<1> SUFFICES ASSUME IngestInv, [IngestNext]_ingestVars
             PROVE  IngestInv'
  OBVIOUS
<1>1. ASSUME NEW d \in Webhook,
             \/ Deliver(d) \/ RecordRepo(d) \/ ListFiles(d) \/ ReadFile(d)
             \/ AllocateNumber(d) \/ CreateRun(d) \/ RejectRun(d) \/ StartRun(d)
      PROVE  IngestInv'
  BY <1>1, DeliverKeeps, RecordRepoKeeps, ListFilesKeeps, ReadFileKeeps, AllocateKeeps,
     CreateRunKeeps, RejectRunKeeps, StartRunKeeps
<1>2. CASE IngestRestart
  BY <1>2, IngestRestartKeeps
<1>3. CASE UNCHANGED ingestVars
  BY <1>3 DEF ingestVars, IngestInv, IngestTyped, HandlerOK, InFile, Owes, Served,
              AccountedBelow, Accounted
<1> QED
  BY <1>1, <1>2, <1>3 DEF IngestNext

\* A delivery answered with success has left nothing out: however the handlers
\* of other deliveries interleave with its own, whichever calls failed, and
\* however often it was delivered before.
THEOREM DeliveriesAccounted == IngestInit /\ [][IngestNext]_ingestVars => []SuccessLeavesNothingOut
<1>1. IngestInit => IngestInv
  <2> SUFFICES ASSUME IngestInit PROVE IngestInv
    OBVIOUS
  <2>1. runRows = <<>> /\ runNumbers = [p \in Paths |-> 0] /\ handling = [d \in Webhook |-> Idle]
    BY DEF IngestInit, Paths
  <2>2. Idle \in Handling /\ Idle.at = "due" /\ Idle.answer = "none"
    BY DEF Idle, Handling, Places
  <2>3. IngestTyped
    BY <2>1, <2>2 DEF IngestTyped
  <2>4. ASSUME NEW d \in Webhook PROVE HandlerOK(d, handling[d])
    BY <2>1, <2>2 DEF HandlerOK, InFile
  <2> QED
    BY <2>3, <2>4 DEF IngestInv
<1>2. IngestInv => SuccessLeavesNothingOut
  <2> SUFFICES ASSUME IngestInv, NEW d \in Webhook, handling[d].answer = "ok", Served(d),
                      ~d.gone, d.event # "installation",
                      NEW i \in DOMAIN WorkflowFile, Verdict(WorkflowFile[i], d) # "none"
               PROVE  Accounted(d, WorkflowFile[i])
    BY DEF SuccessLeavesNothingOut
  <2>1. AccountedBelow(d, Len(WorkflowFile) + 1)
    BY HandlerFacts DEF HandlerOK, Owes
  <2>2. i < Len(WorkflowFile) + 1
    BY IngestAssumption
  <2> QED
    BY <2>1, <2>2 DEF AccountedBelow
<1> QED
  BY <1>1, <1>2, IngestStep, PTL

-----------------------------------------------------------------------------
(***************************************************************************)
(* The log store, the lines.  Between two locks of a call the index may    *)
(* move on, so the invariant speaks of the entry the index has and of the  *)
(* blob: every answered line is in one of the two or among those that met  *)
(* such a call.  What Finalize drops it has copied, and while it is under  *)
(* way the blob is what it copied, or nothing.                             *)
(***************************************************************************)
LineNo == Nat \ {0}
HotEntry == [lines : Seq(LineNo), sealed : BOOLEAN, subs : SUBSET Watcher]
Flush == [at : {"idle", "sent", "check", "lock"}, batch : Seq(LineNo), entry : Nat]
Seal == [at : {"none", "copy", "put", "seal", "forget", "done"}, entry : Nat, copy : Seq(LineNo)]

HotTyped ==
  /\ sinkSeq \in Nat /\ sinkBuf \in Seq(LineNo) /\ flush \in [Flushers -> Flush]
  /\ entries \in Seq(HotEntry) /\ current \in 0..Len(entries)
  /\ blob \in Seq(Nat) /\ seal \in Seal
  /\ \A f \in Flushers : flush[f].at \in {"check", "lock"} => flush[f].entry \in 1..Len(entries)
  /\ seal.at \in {"copy", "put", "seal", "forget"} => seal.entry \in 1..Len(entries)

SealInv ==
  /\ seal.at \in {"none", "copy", "put"} => blob = NoBlob
  /\ seal.at = "seal" => blob = seal.copy

\* The lines in the entry the index has, and those in the blob.
Hot == IF current = 0 THEN {} ELSE ToSet(entries[current].lines)
Cold == IF blob = NoBlob THEN {} ELSE ToSet(blob)
LinesKept == acked \subseteq Cold \cup Hot \cup raced

HotInv == HotTyped /\ SealInv /\ LinesKept

LEMMA HotUnion == UNION {ToSet(entries[e].lines) : e \in {current} \ {0}} = Hot
  BY DEF Hot

LEMMA KeptIsNotLost == LinesKept => LostOnlyInRaces
  BY HotUnion DEF LinesKept, Cold, LostOnlyInRaces, Readable

\* The lines of a concatenation.
LEMMA ToSetConcat ==
  ASSUME NEW V, NEW s \in Seq(V), NEW t \in Seq(V)
  PROVE  ToSet(s \o t) = ToSet(s) \cup ToSet(t)
<1>1. /\ s \o t \in Seq(V) /\ Len(s \o t) = Len(s) + Len(t) /\ Len(s) \in Nat /\ Len(t) \in Nat
      /\ \A i \in 1..Len(s) : (s \o t)[i] = s[i]
      /\ \A i \in 1..Len(t) : (s \o t)[Len(s) + i] = t[i]
  OBVIOUS
<1>2. \A i \in 1..(Len(s) + Len(t)) : i \in 1..Len(s) \/ (i - Len(s) \in 1..Len(t) /\ Len(s) + (i - Len(s)) = i)
  BY <1>1
<1>3. \A i \in 1..Len(t) : Len(s) + i \in 1..(Len(s) + Len(t))
  BY <1>1
<1>4. \A i \in 1..Len(s) : i \in 1..(Len(s) + Len(t))
  BY <1>1
<1>5. ToSet(s \o t) \subseteq ToSet(s) \cup ToSet(t)
  BY <1>1, <1>2 DEF ToSet
<1>6. ToSet(s) \subseteq ToSet(s \o t)
  BY <1>1, <1>4 DEF ToSet
<1>7. ASSUME NEW i \in 1..Len(t) PROVE t[i] \in ToSet(s \o t)
  <2>1. (s \o t)[Len(s) + i] = t[i] /\ Len(s) + i \in 1..Len(s \o t)
    BY <1>1, <1>3
  <2> QED
    BY <2>1 DEF ToSet
<1>8. ToSet(t) \subseteq ToSet(s \o t)
  BY <1>7 DEF ToSet
<1> QED
  BY <1>5, <1>6, <1>8

LEMMA EmptyEntry ==
  /\ NewEntry \in HotEntry /\ NewEntry.lines = <<>> /\ NewEntry.subs = {}
  /\ NoFlush \in Flush /\ NoFlush.at = "idle"
  /\ ToSet(<<>>) = {}
<1>1. <<>> \in Seq(LineNo)
  OBVIOUS
<1> QED
  BY <1>1 DEF NewEntry, HotEntry, NoFlush, Flush, ToSet

\* The flags of a step: what it may do to the entries without moving a line.
LEMMA EntriesGrow ==
  ASSUME HotTyped, NEW x \in HotEntry
  PROVE  /\ Append(entries, x) \in Seq(HotEntry)
         /\ Len(Append(entries, x)) = Len(entries) + 1 /\ Len(entries) \in Nat
         /\ \A e \in 1..Len(entries) : Append(entries, x)[e] = entries[e]
         /\ Append(entries, x)[Len(entries) + 1] = x
  BY DEF HotTyped

LEMMA EntryWritten ==
  ASSUME HotTyped, NEW e \in 1..Len(entries), NEW x \in HotEntry
  PROVE  /\ [entries EXCEPT ![e] = x] \in Seq(HotEntry)
         /\ Len([entries EXCEPT ![e] = x]) = Len(entries)
         /\ [entries EXCEPT ![e] = x][e] = x
         /\ \A k \in 1..Len(entries) : k # e => [entries EXCEPT ![e] = x][k] = entries[k]
  BY DEF HotTyped

\* get: the entry there is, or a new one, and no line moves.
LEMMA EntryGot ==
  ASSUME HotTyped, GetEntry
  PROVE  /\ entries' \in Seq(HotEntry) /\ Len(entries') \in Nat /\ Len(entries) \in Nat
         /\ Len(entries) <= Len(entries')
         /\ \A e \in 1..Len(entries) : entries'[e] = entries[e]
         /\ \A e \in 1..Len(entries') : e \notin 1..Len(entries) => entries'[e] = NewEntry
         /\ current' \in 1..Len(entries') /\ Hot' = Hot
<1>1. CASE current # 0
  <2>1. entries' = entries /\ current' = current
    BY <1>1 DEF GetEntry
  <2>2. Len(entries) \in Nat /\ current \in 0..Len(entries) /\ entries \in Seq(HotEntry)
    BY DEF HotTyped
  <2>3. Hot' = Hot
    BY <2>1 DEF Hot
  <2> QED
    BY <1>1, <2>1, <2>2, <2>3
<1>2. CASE current = 0
  <2>1. entries' = Append(entries, NewEntry) /\ current' = Len(entries) + 1
    BY <1>2 DEF GetEntry
  <2>2. /\ entries' \in Seq(HotEntry) /\ Len(entries') = Len(entries) + 1 /\ Len(entries) \in Nat
        /\ \A e \in 1..Len(entries) : entries'[e] = entries[e]
        /\ entries'[Len(entries) + 1] = NewEntry
    BY <2>1, EntriesGrow, EmptyEntry
  <2>3. Hot = {} /\ Hot' = {}
    <3>1. current' # 0 /\ entries'[current'].lines = <<>>
      BY <2>1, <2>2, EmptyEntry
    <3> QED
      BY <1>2, <3>1, EmptyEntry DEF Hot
  <2>4. \A e \in 1..(Len(entries) + 1) : e \notin 1..Len(entries) => e = Len(entries) + 1
    BY <2>2
  <2> QED
    BY <2>1, <2>2, <2>3, <2>4
<1> QED
  BY <1>1, <1>2

\* A step that may add an entry, and leaves what is in it, the blob and the
\* answered lines alone.
LEMMA HotRests ==
  ASSUME HotInv,
         UNCHANGED <<blob, seal, acked>>, raced \subseteq raced',
         sinkSeq' \in Nat, sinkBuf' \in Seq(LineNo), flush' \in [Flushers -> Flush],
         entries' \in Seq(HotEntry), current' \in 0..Len(entries'), Len(entries) <= Len(entries'),
         \A f \in Flushers : flush'[f].at \in {"check", "lock"} => flush'[f].entry \in 1..Len(entries'),
         Hot \subseteq Hot' \cup raced'
  PROVE  HotInv'
<1>1. Len(entries) \in Nat /\ Len(entries') \in Nat
  BY DEF HotInv, HotTyped
<1>2. \A e \in 1..Len(entries) : e \in 1..Len(entries')
  BY <1>1
<1>3. HotTyped'
  BY <1>2 DEF HotInv, HotTyped
<1>4. SealInv'
  BY DEF HotInv, SealInv
<1>5. LinesKept'
  BY DEF HotInv, LinesKept, Cold
<1> QED
  BY <1>3, <1>4, <1>5 DEF HotInv

\* Only who subscribes changes.
LEMMA SubscribersOnly ==
  ASSUME HotInv, NEW e, NEW S \in SUBSET Watcher,
         entries' = [entries EXCEPT ![e].subs = S], current' = current
  PROVE  entries' \in Seq(HotEntry) /\ Len(entries') = Len(entries) /\ Hot' = Hot
<1>1. CASE e \in 1..Len(entries)
  <2> DEFINE x == [entries[e] EXCEPT !.subs = S]
  <2>1. entries[e] \in HotEntry
    BY <1>1 DEF HotInv, HotTyped
  <2>2. x \in HotEntry /\ x.lines = entries[e].lines
    BY <2>1 DEF HotEntry
  <2>3. entries' = [entries EXCEPT ![e] = x]
    OBVIOUS
  <2> HIDE DEF x
  <2>4. /\ entries' \in Seq(HotEntry) /\ Len(entries') = Len(entries) /\ entries'[e] = x
        /\ \A k \in 1..Len(entries) : k # e => entries'[k] = entries[k]
    BY <1>1, <2>2, <2>3, EntryWritten DEF HotInv
  <2>5. \A k \in 1..Len(entries) : entries'[k].lines = entries[k].lines
    BY <2>2, <2>4
  <2>6. current = 0 \/ current \in 1..Len(entries)
    BY DEF HotInv, HotTyped
  <2>7. Hot' = Hot
    BY <2>5, <2>6 DEF Hot
  <2> QED
    BY <2>4, <2>7
<1>2. CASE e \notin 1..Len(entries)
  <2>1. entries \in Seq(HotEntry)
    BY DEF HotInv, HotTyped
  <2>2. entries' = entries
    BY <1>2, <2>1
  <2> QED
    BY <2>1, <2>2 DEF Hot
<1> QED
  BY <1>1, <1>2

\* forget: what the index had is counted.
LEMMA EntryForgotten ==
  ASSUME Forget, UNCHANGED entries
  PROVE  current' = 0 /\ raced \subseteq raced' /\ Hot \subseteq Hot' \cup raced'
  BY HotUnion DEF Forget, Hot

-----------------------------------------------------------------------------
LEMMA HotInit == ASSUME LogInit PROVE HotInv
<1>1. <<>> \in Seq(LineNo) /\ <<>> \in Seq(HotEntry) /\ Len(<<>>) = 0 /\ <<0>> \in Seq(Nat)
  OBVIOUS
<1>2. NoSeal \in Seal /\ NoSeal.at = "none"
  BY <1>1 DEF NoSeal, Seal
<1>3. \A f \in Flushers : flush[f] = NoFlush /\ NoFlush.at = "idle"
  BY EmptyEntry DEF LogInit
<1>4. HotTyped
  BY <1>1, <1>2, <1>3, EmptyEntry DEF LogInit, HotTyped, NoBlob
<1>5. SealInv
  BY <1>2 DEF LogInit, SealInv
<1>6. LinesKept
  BY DEF LogInit, LinesKept
<1> QED
  BY <1>4, <1>5, <1>6 DEF HotInv

\* What one flusher's record becomes.
LEMMA FlushWritten ==
  ASSUME HotInv, NEW f \in Flushers, NEW x \in Flush, flush' = [flush EXCEPT ![f] = x]
  PROVE  /\ flush' \in [Flushers -> Flush]
         /\ \A g \in Flushers : flush'[g] = (IF g = f THEN x ELSE flush[g])
  BY DEF HotInv, HotTyped

LEMMA LinePrinted == ASSUME HotInv, Line PROVE HotInv'
<1>1. sinkSeq' \in Nat /\ sinkSeq + 1 \in LineNo /\ sinkBuf \in Seq(LineNo)
  BY DEF Line, HotInv, HotTyped, LineNo
<1>2. sinkBuf' \in Seq(LineNo)
  BY <1>1 DEF Line
<1>3. /\ UNCHANGED <<flush, entries, current, blob, seal, acked, raced>>
  BY DEF Line
<1>4. Len(entries) \in Nat
  BY DEF HotInv, HotTyped
<1>5. Hot' = Hot
  BY <1>3 DEF Hot
<1> QED
  BY <1>1, <1>2, <1>3, <1>4, <1>5, HotRests DEF HotInv, HotTyped

LEMMA BatchTaken == ASSUME HotInv, NEW f \in Flushers, FlushTake(f) PROVE HotInv'
<1> DEFINE x == [NoFlush EXCEPT !.at = "sent", !.batch = sinkBuf]
<1>1. x \in Flush /\ x.at = "sent"
  BY EmptyEntry DEF Flush, NoFlush, HotInv, HotTyped
<1>2. /\ UNCHANGED <<sinkSeq, entries, current, blob, seal, acked, raced>>
      /\ flush' = [flush EXCEPT ![f] = x] /\ sinkBuf' = <<>>
  BY DEF FlushTake
<1> HIDE DEF x
<1>3. /\ flush' \in [Flushers -> Flush]
      /\ \A g \in Flushers : flush'[g] = (IF g = f THEN x ELSE flush[g])
  BY <1>1, <1>2, FlushWritten
<1>4. Len(entries) \in Nat /\ <<>> \in Seq(LineNo)
  BY DEF HotInv, HotTyped
<1>5. Hot' = Hot
  BY <1>2 DEF Hot
<1>6. \A g \in Flushers : flush'[g].at \in {"check", "lock"} => flush'[g].entry \in 1..Len(entries')
  BY <1>1, <1>2, <1>3 DEF HotInv, HotTyped
<1> QED
  BY <1>2, <1>3, <1>4, <1>5, <1>6, HotRests DEF HotInv, HotTyped

\* The batch is dropped, whatever happens to the entry the index has.
LEMMA BatchDropped ==
  ASSUME HotInv, NEW f \in Flushers, FlushDone(f),
         UNCHANGED <<sinkSeq, sinkBuf, entries, blob, seal, acked>>,
         current' \in {current, 0}, raced \subseteq raced', Hot \subseteq Hot' \cup raced'
  PROVE  HotInv'
<1>1. flush' = [flush EXCEPT ![f] = NoFlush]
  BY DEF FlushDone
<1>2. /\ flush' \in [Flushers -> Flush]
      /\ \A g \in Flushers : flush'[g] = (IF g = f THEN NoFlush ELSE flush[g])
  BY <1>1, FlushWritten, EmptyEntry
<1>3. Len(entries) \in Nat /\ current' \in 0..Len(entries')
  BY DEF HotInv, HotTyped
<1>4. \A g \in Flushers : flush'[g].at \in {"check", "lock"} => flush'[g].entry \in 1..Len(entries')
  BY <1>2, EmptyEntry DEF HotInv, HotTyped
<1> QED
  BY <1>2, <1>3, <1>4, HotRests DEF HotInv, HotTyped

LEMMA SendFails == ASSUME HotInv, NEW f \in Flushers, FlushFails(f) PROVE HotInv'
<1>1. /\ FlushDone(f) /\ UNCHANGED <<sinkSeq, sinkBuf, entries, current, blob, seal, acked, raced>>
  BY DEF FlushFails
<1>2. Hot' = Hot
  BY <1>1 DEF Hot
<1> QED
  BY <1>1, <1>2, BatchDropped

LEMMA AppendGets == ASSUME HotInv, NEW f \in Flushers, AppendGet(f) PROVE HotInv'
<1>1. /\ GetEntry /\ UNCHANGED <<sinkSeq, sinkBuf, blob, seal, acked, raced>>
  BY DEF AppendGet
<1>2. /\ entries' \in Seq(HotEntry) /\ Len(entries') \in Nat /\ Len(entries) \in Nat
      /\ Len(entries) <= Len(entries') /\ current' \in 1..Len(entries') /\ Hot' = Hot
  BY <1>1, EntryGot DEF HotInv
<1>3. PICK a \in {"check", "lock"} :
        flush' = [flush EXCEPT ![f] = [@ EXCEPT !.entry = current', !.at = a]]
  BY DEF AppendGet
<1> DEFINE x == [flush[f] EXCEPT !.entry = current', !.at = a]
<1>4. flush[f] \in Flush /\ current' \in Nat
  BY <1>2 DEF HotInv, HotTyped
<1>5. x \in Flush /\ x.entry = current'
  BY <1>4 DEF Flush
<1>6. flush' = [flush EXCEPT ![f] = x]
  BY <1>3
<1> HIDE DEF x
<1>7. /\ flush' \in [Flushers -> Flush]
      /\ \A g \in Flushers : flush'[g] = (IF g = f THEN x ELSE flush[g])
  BY <1>5, <1>6, FlushWritten
<1>8. \A g \in Flushers : flush'[g].at \in {"check", "lock"} => flush'[g].entry \in 1..Len(entries')
  <2>1. \A e \in 1..Len(entries) : e \in 1..Len(entries')
    BY <1>2
  <2> QED
    BY <1>2, <1>5, <1>7, <2>1 DEF HotInv, HotTyped
<1>9. current' \in 0..Len(entries')
  BY <1>2
<1> QED
  BY <1>1, <1>2, <1>7, <1>8, <1>9, HotRests DEF HotInv, HotTyped

LEMMA AppendChecks == ASSUME HotInv, NEW f \in Flushers, AppendCheck(f) PROVE HotInv'
<1>1. UNCHANGED <<sinkSeq, sinkBuf, entries, blob, seal, acked>>
  BY DEF AppendCheck
<1>2. CASE Forget /\ FlushDone(f)
  BY <1>1, <1>2, EntryForgotten, BatchDropped
<1>3. CASE flush' = [flush EXCEPT ![f] = [@ EXCEPT !.at = "lock"]] /\ UNCHANGED <<current, raced>> /\ flush[f].at = "check"
  <2> DEFINE x == [flush[f] EXCEPT !.at = "lock"]
  <2>1. flush[f] \in Flush /\ flush[f].entry \in 1..Len(entries)
    BY <1>3 DEF HotInv, HotTyped
  <2>2. x \in Flush /\ x.entry = flush[f].entry
    BY <2>1 DEF Flush
  <2>3. flush' = [flush EXCEPT ![f] = x]
    BY <1>3
  <2> HIDE DEF x
  <2>4. /\ flush' \in [Flushers -> Flush]
        /\ \A g \in Flushers : flush'[g] = (IF g = f THEN x ELSE flush[g])
    BY <2>2, <2>3, FlushWritten
  <2>5. \A g \in Flushers : flush'[g].at \in {"check", "lock"} => flush'[g].entry \in 1..Len(entries')
    BY <1>1, <2>1, <2>2, <2>4 DEF HotInv, HotTyped
  <2>6. Hot' = Hot
    BY <1>1, <1>3 DEF Hot
  <2>7. Len(entries) \in Nat
    BY DEF HotInv, HotTyped
  <2> QED
    BY <1>1, <1>3, <2>4, <2>5, <2>6, <2>7, HotRests DEF HotInv, HotTyped
<1> QED
  BY <1>2, <1>3 DEF AppendCheck

\* Under the lock the lines are the index's, or they met a forget.
LEMMA LinesAppended == ASSUME HotInv, NEW f \in Flushers, AppendLines(f) PROVE HotInv'
<1> DEFINE e == flush[f].entry
           b == flush[f].batch
<1>1. /\ flush[f] \in Flush /\ flush[f].at = "lock" /\ e \in 1..Len(entries) /\ b \in Seq(LineNo)
      /\ entries[e] \in HotEntry /\ Len(entries) \in Nat
  BY DEF AppendLines, HotInv, HotTyped, Flush
<1>2. UNCHANGED <<sinkSeq, sinkBuf, current, blob, seal>>
  BY DEF AppendLines
<1>3. CASE entries[e].sealed
  <2>1. FlushDone(f) /\ UNCHANGED <<entries, acked, raced>>
    BY <1>3 DEF AppendLines
  <2>2. Hot' = Hot
    BY <1>2, <2>1 DEF Hot
  <2> QED
    BY <1>2, <2>1, <2>2, BatchDropped
<1>4. CASE ~entries[e].sealed
  <2>1. PICK S \in SUBSET Watcher :
          entries' = [entries EXCEPT ![e].lines = entries[e].lines \o b, ![e].subs = S]
    <3>1. {u \in entries[e].subs : ~Pushed(sub[u], b, Len(entries[e].lines)).fell} \in SUBSET Watcher
      BY <1>1 DEF HotEntry
    <3> QED
      BY <1>4, <3>1 DEF AppendLines
  <2>2. /\ acked' = acked \cup ToSet(b)
        /\ raced' = IF current # e THEN raced \cup ToSet(b) ELSE raced
    BY <1>4 DEF AppendLines
  <2> DEFINE x == [entries[e] EXCEPT !.lines = entries[e].lines \o b, !.subs = S]
  <2>3. x \in HotEntry /\ x.lines = entries[e].lines \o b /\ entries[e].lines \in Seq(LineNo)
    <3>1. entries[e].lines \in Seq(LineNo)
      BY <1>1 DEF HotEntry
    <3> DEFINE t == entries[e].lines \o b
    <3>2. t \in Seq(LineNo)
      BY <1>1, <3>1
    <3> HIDE DEF t, e, b
    <3>3. [entries[e] EXCEPT !.lines = t, !.subs = S] \in HotEntry /\ [entries[e] EXCEPT !.lines = t, !.subs = S].lines = t
      BY <1>1, <3>2 DEF HotEntry
    <3> QED
      BY <3>1, <3>3 DEF t
  <2>4. entries' = [entries EXCEPT ![e] = x]
    BY <2>1, Zenon
  <2> HIDE DEF x, e, b
  <2>5. /\ entries' \in Seq(HotEntry) /\ Len(entries') = Len(entries) /\ entries'[e] = x
        /\ \A k \in 1..Len(entries) : k # e => entries'[k] = entries[k]
    BY <1>1, <2>3, <2>4, EntryWritten DEF HotInv
  <2>6. ToSet(x.lines) = ToSet(entries[e].lines) \cup ToSet(b)
    BY <1>1, <2>3, ToSetConcat
  <2>7. Hot \subseteq Hot' /\ ToSet(b) \subseteq Hot' \cup raced' /\ raced \subseteq raced'
    <3>1. CASE current = e
      BY <1>1, <1>2, <2>2, <2>5, <2>6, <3>1 DEF Hot
    <3>2. CASE current # e
      <4>1. current = 0 \/ current \in 1..Len(entries)
        BY DEF HotInv, HotTyped
      <4> QED
        BY <1>2, <2>2, <2>5, <3>2, <4>1 DEF Hot
    <3> QED
      BY <3>1, <3>2
  <2>8. /\ flush' \in [Flushers -> Flush]
        /\ \A g \in Flushers : flush'[g].at \in {"check", "lock"} => flush'[g].entry \in 1..Len(entries')
    <3>1. CASE FlushDone(f)
      <4>1. \A g \in Flushers : flush'[g] = (IF g = f THEN NoFlush ELSE flush[g])
        BY <3>1, FlushWritten, EmptyEntry DEF FlushDone
      <4>2. flush' \in [Flushers -> Flush]
        BY <3>1, FlushWritten, EmptyEntry DEF FlushDone
      <4> QED
        BY <2>5, <4>1, <4>2, EmptyEntry DEF HotInv, HotTyped
    <3>2. CASE flush' = [flush EXCEPT ![f] = [@ EXCEPT !.at = "sent"]]
      <4> DEFINE y == [flush[f] EXCEPT !.at = "sent"]
      <4>1. y \in Flush /\ y.at = "sent"
        BY <1>1 DEF Flush
      <4>2. flush' = [flush EXCEPT ![f] = y]
        BY <3>2
      <4> HIDE DEF y
      <4>3. /\ flush' \in [Flushers -> Flush]
            /\ \A g \in Flushers : flush'[g] = (IF g = f THEN y ELSE flush[g])
        BY <4>1, <4>2, FlushWritten
      <4> QED
        BY <2>5, <4>1, <4>3 DEF HotInv, HotTyped
    <3> QED
      BY <1>4, <3>1, <3>2 DEF AppendLines, e
  <2>9. HotTyped'
    BY <1>2, <2>5, <2>8 DEF HotInv, HotTyped
  <2>10. SealInv'
    BY <1>2 DEF HotInv, SealInv
  <2>11. LinesKept'
    BY <1>2, <2>2, <2>7 DEF HotInv, LinesKept, Cold
  <2> QED
    BY <2>9, <2>10, <2>11 DEF HotInv
<1> QED
  BY <1>3, <1>4

\* Finalize, step by step.
LEMMA SealStarts == ASSUME HotInv, FinalizeStart PROVE HotInv'
<1>1. /\ seal.at = "none" /\ UNCHANGED <<sinkSeq, sinkBuf, flush, entries, current, blob, acked, raced>>
      /\ seal' = [seal EXCEPT !.at = IF current = 0 THEN "done" ELSE "copy", !.entry = current]
  BY DEF FinalizeStart
<1>2. seal \in Seal /\ current \in 0..Len(entries) /\ Len(entries) \in Nat
  BY DEF HotInv, HotTyped
<1>3. PICK a \in {"done", "copy"} :
        seal' = [seal EXCEPT !.at = a, !.entry = current] /\ (a = "copy" => current # 0)
  BY <1>1
<1>4. current \in Nat
  BY <1>2
<1>5. seal' \in Seal /\ seal'.at = a /\ seal'.entry = current
  BY <1>2, <1>3, <1>4 DEF Seal
<1>6. HotTyped'
  BY <1>1, <1>2, <1>3, <1>5 DEF HotInv, HotTyped
<1>7. SealInv'
  BY <1>1, <1>5 DEF HotInv, SealInv
<1>8. LinesKept'
  BY <1>1 DEF HotInv, LinesKept, Cold, Hot
<1> QED
  BY <1>6, <1>7, <1>8 DEF HotInv

LEMMA SealCopies == ASSUME HotInv, FinalizeCopy PROVE HotInv'
<1>1. /\ seal.at = "copy" /\ UNCHANGED <<sinkSeq, sinkBuf, flush, entries, current, blob, acked, raced>>
      /\ seal' = IF entries[seal.entry].sealed THEN [seal EXCEPT !.at = "done"]
                 ELSE [seal EXCEPT !.at = "put", !.copy = entries[seal.entry].lines]
  BY DEF FinalizeCopy
<1>2. seal \in Seal /\ seal.entry \in 1..Len(entries) /\ entries[seal.entry] \in HotEntry
  BY <1>1 DEF HotInv, HotTyped
<1>3. entries[seal.entry].lines \in Seq(LineNo)
  BY <1>2 DEF HotEntry
<1>4. seal' \in Seal /\ seal'.at \in {"done", "put"} /\ seal'.entry = seal.entry
  BY <1>1, <1>2, <1>3 DEF Seal
<1>5. HotTyped'
  BY <1>1, <1>2, <1>4 DEF HotInv, HotTyped
<1>6. SealInv'
  BY <1>1, <1>4 DEF HotInv, SealInv
<1>7. LinesKept'
  BY <1>1 DEF HotInv, LinesKept, Cold, Hot
<1> QED
  BY <1>5, <1>6, <1>7 DEF HotInv

\* The blob there was none of becomes the copy, or stays nothing.
LEMMA SealPuts == ASSUME HotInv, FinalizePut PROVE HotInv'
<1>1. /\ seal.at = "put" /\ UNCHANGED <<sinkSeq, sinkBuf, flush, entries, current, acked, raced>>
  BY DEF FinalizePut
<1>2. /\ seal \in Seal /\ seal.entry \in 1..Len(entries) /\ seal.copy \in Seq(LineNo) /\ blob = NoBlob
      /\ blob \in Seq(Nat)
  BY <1>1 DEF HotInv, HotTyped, SealInv, Seal
<1>3. CASE blob' = seal.copy /\ seal' = [seal EXCEPT !.at = "seal"]
  <2>1. seal' \in Seal /\ seal'.at = "seal" /\ seal'.entry = seal.entry /\ seal'.copy = seal.copy
    BY <1>2, <1>3 DEF Seal
  <2>2. seal.copy \in Seq(Nat)
    BY <1>2 DEF LineNo
  <2>3. HotTyped'
    BY <1>1, <1>2, <1>3, <2>1, <2>2 DEF HotInv, HotTyped
  <2>4. SealInv'
    BY <1>3, <2>1 DEF SealInv
  <2>5. LinesKept'
    BY <1>1, <1>2 DEF HotInv, LinesKept, Cold, Hot
  <2> QED
    BY <2>3, <2>4, <2>5 DEF HotInv
<1>4. CASE seal' = [seal EXCEPT !.at = "done"] /\ UNCHANGED blob
  <2>1. seal' \in Seal /\ seal'.at = "done"
    BY <1>2, <1>4 DEF Seal
  <2>2. HotTyped'
    BY <1>1, <1>4, <2>1 DEF HotInv, HotTyped
  <2>3. SealInv'
    BY <2>1 DEF SealInv
  <2>4. LinesKept'
    BY <1>1, <1>4 DEF HotInv, LinesKept, Cold, Hot
  <2> QED
    BY <2>2, <2>3, <2>4 DEF HotInv
<1> QED
  BY <1>3, <1>4 DEF FinalizePut

\* A copy is never the mark for no blob.
LEMMA CopyIsBlob == ASSUME NEW s \in Seq(LineNo) PROVE s # NoBlob
<1>1. NoBlob[1] = 0 /\ Len(NoBlob) = 1
  BY DEF NoBlob
<1>2. Len(s) = 1 => s[1] \in LineNo
  OBVIOUS
<1>3. 0 \notin LineNo
  BY DEF LineNo
<1> QED
  BY <1>1, <1>2, <1>3

LEMMA SealDrops == ASSUME HotInv, FinalizeSeal PROVE HotInv'
<1> DEFINE e == seal.entry
           x == [lines |-> <<>>, sealed |-> TRUE, subs |-> {}]
<1>1. /\ seal.at = "seal" /\ UNCHANGED <<sinkSeq, sinkBuf, flush, current, blob, acked>>
      /\ raced' = raced \cup (ToSet(entries[e].lines) \ ToSet(seal.copy))
      /\ entries' = [entries EXCEPT ![e] = x] /\ seal' = [seal EXCEPT !.at = "forget"]
  BY DEF FinalizeSeal
<1>2. /\ seal \in Seal /\ e \in 1..Len(entries) /\ seal.copy \in Seq(LineNo) /\ blob = seal.copy
      /\ Len(entries) \in Nat
  BY <1>1 DEF HotInv, HotTyped, SealInv, Seal
<1>3. seal' \in Seal /\ seal'.at = "forget" /\ seal'.entry = e
  BY <1>1, <1>2 DEF Seal
<1>4. x \in HotEntry /\ x.lines = <<>>
  <2>1. <<>> \in Seq(LineNo)
    OBVIOUS
  <2> QED
    BY <2>1 DEF HotEntry
<1> HIDE DEF x, e
<1>5. /\ entries' \in Seq(HotEntry) /\ Len(entries') = Len(entries) /\ entries'[e] = x
      /\ \A k \in 1..Len(entries) : k # e => entries'[k] = entries[k]
  BY <1>1, <1>2, <1>4, EntryWritten DEF HotInv
<1>6. HotTyped'
  BY <1>1, <1>2, <1>3, <1>5 DEF HotInv, HotTyped
<1>7. SealInv'
  BY <1>3 DEF SealInv
<1>8. Cold' = ToSet(seal.copy) /\ Cold = ToSet(seal.copy)
  BY <1>1, <1>2, CopyIsBlob DEF Cold
<1>9. Hot \subseteq Hot' \cup ToSet(seal.copy) \cup raced'
  <2>1. CASE current = e
    BY <1>1, <1>2, <2>1 DEF Hot
  <2>2. CASE current # e
    <3>1. current = 0 \/ current \in 1..Len(entries)
      BY DEF HotInv, HotTyped
    <3> QED
      BY <1>1, <1>5, <2>2, <3>1 DEF Hot
  <2> QED
    BY <2>1, <2>2
<1>10. LinesKept'
  BY <1>1, <1>8, <1>9 DEF HotInv, LinesKept
<1> QED
  BY <1>6, <1>7, <1>10 DEF HotInv

LEMMA SealForgets == ASSUME HotInv, FinalizeForget PROVE HotInv'
<1>1. /\ seal.at = "forget" /\ Forget /\ seal' = [seal EXCEPT !.at = "done"]
      /\ UNCHANGED <<sinkSeq, sinkBuf, flush, entries, blob, acked>>
  BY DEF FinalizeForget
<1>2. seal \in Seal
  BY DEF HotInv, HotTyped
<1>3. seal' \in Seal /\ seal'.at = "done"
  BY <1>1, <1>2 DEF Seal
<1>4. current' = 0 /\ raced \subseteq raced' /\ Hot \subseteq Hot' \cup raced'
  BY <1>1, EntryForgotten
<1>5. HotTyped'
  BY <1>1, <1>3, <1>4 DEF HotInv, HotTyped
<1>6. SealInv'
  BY <1>3 DEF SealInv
<1>7. LinesKept'
  BY <1>1, <1>4 DEF HotInv, LinesKept, Cold
<1> QED
  BY <1>5, <1>6, <1>7 DEF HotInv

\* A step of a watcher: who subscribes, an entry that is begun or forgotten.
LEMMA WatcherSteps ==
  ASSUME HotInv, UNCHANGED <<sinkSeq, sinkBuf, flush, blob, seal, acked>>,
         entries' \in Seq(HotEntry), Len(entries') \in Nat, Len(entries) <= Len(entries'),
         current' \in 0..Len(entries'), raced \subseteq raced', Hot \subseteq Hot' \cup raced'
  PROVE  HotInv'
<1>1. Len(entries) \in Nat
  BY DEF HotInv, HotTyped
<1>2. \A k \in 1..Len(entries) : k \in 1..Len(entries')
  BY <1>1
<1>3. \A f \in Flushers : flush'[f].at \in {"check", "lock"} => flush'[f].entry \in 1..Len(entries')
  BY <1>2 DEF HotInv, HotTyped
<1> QED
  BY <1>3, HotRests DEF HotInv, HotTyped

\* Only the watcher's own record changes.
LEMMA WatcherAlone ==
  ASSUME HotInv,
         UNCHANGED <<sinkSeq, sinkBuf, flush, entries, current, blob, seal, acked, raced>>
  PROVE  HotInv'
<1>1. Hot' = Hot
  BY DEF Hot
<1> QED
  BY <1>1, WatcherSteps DEF HotInv, HotTyped

LEMMA WatcherCreates == ASSUME HotInv, NEW u \in Watcher, SubscribeCreate(u) PROVE HotInv'
<1>1. /\ GetEntry /\ UNCHANGED <<sinkSeq, sinkBuf, flush, blob, seal, acked, raced>>
  BY DEF SubscribeCreate
<1>2. /\ entries' \in Seq(HotEntry) /\ Len(entries') \in Nat /\ Len(entries) <= Len(entries')
      /\ current' \in 1..Len(entries') /\ Hot' = Hot
  BY <1>1, EntryGot DEF HotInv
<1>3. current' \in 0..Len(entries')
  BY <1>2
<1> QED
  BY <1>1, <1>2, <1>3, WatcherSteps

LEMMA WatcherLocks ==
  ASSUME HotInv, NEW u \in Watcher, SubscribeLock(u) \/ Unregister(u)
  PROVE  HotInv'
<1> DEFINE e == sub[u].entry
<1>1. UNCHANGED <<sinkSeq, sinkBuf, flush, current, blob, seal, acked, raced>>
  BY DEF SubscribeLock, Unregister
<1>2. CASE entries' = entries
  BY <1>1, <1>2, WatcherAlone
<1>3. ASSUME NEW S \in SUBSET Watcher, entries' = [entries EXCEPT ![e].subs = S]
      PROVE  HotInv'
  <2>1. entries' \in Seq(HotEntry) /\ Len(entries') = Len(entries) /\ Hot' = Hot
    BY <1>1, <1>3, SubscribersOnly
  <2>2. Len(entries) \in Nat /\ current \in 0..Len(entries)
    BY DEF HotInv, HotTyped
  <2> QED
    BY <1>1, <2>1, <2>2, WatcherSteps
<1>4. entries \in Seq(HotEntry)
  BY DEF HotInv, HotTyped
<1>5. CASE e \notin 1..Len(entries)
  <2>1. entries' = entries
    BY <1>4, <1>5 DEF SubscribeLock, Unregister
  <2> QED
    BY <1>2, <2>1
<1>6. CASE e \in 1..Len(entries)
  <2>1. entries[e].subs \in SUBSET Watcher
    <3>1. entries[e] \in HotEntry
      BY <1>4, <1>6
    <3> QED
      BY <3>1 DEF HotEntry
  <2>2. entries[e].subs \cup {u} \in SUBSET Watcher /\ entries[e].subs \ {u} \in SUBSET Watcher
    BY <2>1
  <2>3. \/ entries' = entries
        \/ entries' = [entries EXCEPT ![e].subs = entries[e].subs \cup {u}]
        \/ entries' = [entries EXCEPT ![e].subs = entries[e].subs \ {u}]
    BY Zenon DEF SubscribeLock, Unregister
  <2> QED
    BY <1>2, <1>3, <2>2, <2>3
<1> QED
  BY <1>5, <1>6

LEMMA WatcherForgets == ASSUME HotInv, NEW u \in Watcher, ForgetIdle(u) PROVE HotInv'
<1>1. /\ Forget /\ UNCHANGED <<sinkSeq, sinkBuf, flush, entries, blob, seal, acked>>
  BY DEF ForgetIdle
<1>2. current' = 0 /\ raced \subseteq raced' /\ Hot \subseteq Hot' \cup raced'
  BY <1>1, EntryForgotten
<1> QED
  BY <1>1, <1>2, WatcherSteps DEF HotInv, HotTyped

LEMMA HotStep == ASSUME HotInv, [LogNext]_logVars PROVE HotInv'
<1>1. CASE Line
  BY <1>1, LinePrinted
<1>2. ASSUME NEW f \in Flushers,
             FlushTake(f) \/ FlushFails(f) \/ AppendGet(f) \/ AppendCheck(f) \/ AppendLines(f)
      PROVE  HotInv'
  BY <1>2, BatchTaken, SendFails, AppendGets, AppendChecks, LinesAppended
<1>3. CASE FinalizeStart \/ FinalizeCopy \/ FinalizePut \/ FinalizeSeal \/ FinalizeForget
  BY <1>3, SealStarts, SealCopies, SealPuts, SealDrops, SealForgets
<1>4. ASSUME NEW u \in Watcher, SubscribeCreate(u) \/ SubscribeLock(u) \/ Unregister(u) \/ ForgetIdle(u)
      PROVE  HotInv'
  BY <1>4, WatcherCreates, WatcherLocks, WatcherForgets
<1>5. ASSUME NEW u \in Watcher,
             \/ ReadPage(u) \/ Resume(u) \/ SubscribeGet(u) \/ SubscribeCheck(u) \/ Replay(u)
             \/ PumpTake(u) \/ PumpSend(u) \/ PumpWake(u) \/ Leave(u)
      PROVE  HotInv'
  <2>1. UNCHANGED <<sinkSeq, sinkBuf, flush, entries, current, blob, seal, acked, raced>>
    BY <1>5 DEF ReadPage, Resume, SubscribeGet, SubscribeCheck, Replay, PumpTake, PumpSend, PumpWake, Leave
  <2> QED
    BY <2>1, WatcherAlone
<1>6. CASE UNCHANGED logVars
  BY <1>6, WatcherAlone DEF logVars
<1> QED
  BY <1>1, <1>2, <1>3, <1>4, <1>5, <1>6 DEF LogNext

\* LostOnlyInRaces: no answered line is lost but by a call that was between two
\* of its locks, whatever fails and however many readers there are.
THEOREM AnsweredLinesKept == LogInit /\ [][LogNext]_logVars => []LostOnlyInRaces
<1>1. HotInv => LostOnlyInRaces
  BY KeptIsNotLost DEF HotInv
<1> QED
  BY <1>1, HotInit, HotStep, PTL

-----------------------------------------------------------------------------
(***************************************************************************)
(* The log store, the streams.  A subscriber that is registered with an    *)
(* entry has everything that is in it, delivered, taken or in the ring, so *)
(* what is pushed next continues the row; one that is not registered gets  *)
(* nothing more, and one that pumps and has not fallen behind is           *)
(* registered until the entry is sealed.                                   *)
(***************************************************************************)
Unsubscribed == {"none", "check", "create", "lock", "replay"}
Pumping == {"take", "send", "wait"}

Subscription ==
  [at : Unsubscribed \cup Pumping \cup {"unregister", "leaving", "done"}, entry : Nat,
   buf : Seq(Nat), batch : Seq(Nat), fell : BOOLEAN, closed : BOOLEAN, wake : BOOLEAN,
   told : BOOLEAN, ends : BOOLEAN, got : Seq(Nat), from : Nat, seen : Seq(Nat),
   cut : BOOLEAN, resumes : Nat]

Delivered(s) == s.got \o s.batch \o s.buf
Row(lines, first) == \A i \in 1..Len(lines) : lines[i] = first + i

UpToDate(u, s, es, first) ==
  \A e \in 1..Len(es) : u \in es[e].subs =>
    /\ e = s.entry /\ s.at \in Pumping \cup {"unregister"} /\ ~es[e].sealed
    /\ first + Len(Delivered(s)) = Len(es[e].lines)

WatcherOK(u, s, es) ==
  /\ s \in Subscription
  /\ s.at \in Unsubscribed => s.got = <<>> /\ s.batch = <<>> /\ s.buf = <<>>
  /\ s.at \in {"take", "wait"} => s.batch = <<>>
  /\ s.at \in Pumping \cup {"lock", "unregister"} => s.entry \in 1..Len(es)
  /\ s.at \in Pumping /\ ~s.fell /\ ~es[s.entry].sealed => u \in es[s.entry].subs
  /\ \E first \in 0..s.from : Row(Delivered(s), first) /\ UpToDate(u, s, es, first)

StreamInv == HotInv /\ sub \in [Watcher -> Subscription] /\ \A u \in Watcher : WatcherOK(u, sub[u], entries)

LEMMA ThreeParts ==
  ASSUME NEW a \in Seq(Nat), NEW b \in Seq(Nat), NEW c \in Seq(Nat)
  PROVE  a \o b \o c \in Seq(Nat) /\ Len(a \o b \o c) \in Nat /\ Len(a \o b \o c) = Len(a) + Len(b) + Len(c)
<1>1. a \o b \in Seq(Nat) /\ Len(a \o b) = Len(a) + Len(b)
  OBVIOUS
<1> QED
  BY <1>1

LEMMA DeliveredTyped ==
  ASSUME NEW s \in Subscription
  PROVE  /\ s.got \in Seq(Nat) /\ s.batch \in Seq(Nat) /\ s.buf \in Seq(Nat)
         /\ Delivered(s) \in Seq(Nat) /\ Len(Delivered(s)) \in Nat
         /\ Len(Delivered(s)) = Len(s.got) + Len(s.batch) + Len(s.buf)
<1>1. s.got \in Seq(Nat)
  BY DEF Subscription
<1>2. s.batch \in Seq(Nat)
  BY DEF Subscription
<1>3. s.buf \in Seq(Nat)
  BY DEF Subscription
<1> QED
  BY <1>1, <1>2, <1>3, ThreeParts, Zenon DEF Delivered

LEMMA RowIs ==
  ASSUME NEW lines \in Seq(Nat), NEW first \in Nat, Row(lines, first)
  PROVE  lines = [i \in 1..Len(lines) |-> first + i]
  BY DEF Row

LEMMA StreamsFromInv == ASSUME StreamInv PROVE StreamsWhole
<1> SUFFICES ASSUME NEW u \in Watcher
             PROVE  LET s == sub[u]  all == s.got \o s.batch \o s.buf IN
                    \E first \in 0..s.from :
                      /\ all = [i \in 1..Len(all) |-> first + i]
                      /\ s.at \in {"take", "send", "wait"} /\ ~s.fell /\ ~entries[s.entry].sealed =>
                           first + Len(all) = Len(entries[s.entry].lines)
  BY DEF StreamsWhole
<1> DEFINE s == sub[u]
<1>1. WatcherOK(u, s, entries) /\ s \in Subscription
  BY DEF StreamInv
<1>2. PICK first \in 0..s.from : Row(Delivered(s), first) /\ UpToDate(u, s, entries, first)
  BY <1>1 DEF WatcherOK
<1>3. s.from \in Nat
  BY <1>1 DEF Subscription
<1>4. Delivered(s) = [i \in 1..Len(Delivered(s)) |-> first + i]
  <2>1. Delivered(s) \in Seq(Nat)
    BY <1>1, DeliveredTyped
  <2>2. first \in Nat
    BY <1>2, <1>3
  <2> HIDE DEF s
  <2> QED
    BY <1>2, <2>1, <2>2, RowIs
<1>5. s.at \in {"take", "send", "wait"} /\ ~s.fell /\ ~entries[s.entry].sealed =>
        first + Len(Delivered(s)) = Len(entries[s.entry].lines)
  BY <1>1, <1>2 DEF WatcherOK, UpToDate, Pumping
<1> QED
  BY <1>2, <1>4, <1>5 DEF Delivered

LEMMA EmptyRow ==
  ASSUME NEW s, s.got = <<>>, s.batch = <<>>, s.buf = <<>>, NEW first
  PROVE  Row(Delivered(s), first) /\ Len(Delivered(s)) = 0
  BY DEF Row, Delivered

\* A watcher that is not registered anywhere.
Apart(u, es) == \A e \in 1..Len(es) : u \notin es[e].subs

LEMMA NotRegistered ==
  ASSUME NEW u, NEW s, NEW es, WatcherOK(u, s, es), s.at \notin Pumping \cup {"unregister"}
  PROVE  Apart(u, es)
  BY DEF WatcherOK, UpToDate, Apart

LEMMA BeginsOK ==
  ASSUME NEW u, NEW es, Apart(u, es), NEW x \in Subscription, x.at \in Unsubscribed,
         x.got = <<>>, x.batch = <<>>, x.buf = <<>>, x.at = "lock" => x.entry \in 1..Len(es)
  PROVE  WatcherOK(u, x, es)
<1>1. 0 \in 0..x.from
  BY DEF Subscription
<1>2. Row(Delivered(x), 0)
  BY EmptyRow
<1>3. UpToDate(u, x, es, 0)
  BY DEF Apart, UpToDate
<1> QED
  BY <1>1, <1>2, <1>3 DEF WatcherOK, Unsubscribed, Pumping

LEMMA EndsOK ==
  ASSUME NEW u, NEW es, Apart(u, es), NEW x \in Subscription, x.at \in {"leaving", "done"},
         NEW first \in 0..x.from, Row(Delivered(x), first)
  PROVE  WatcherOK(u, x, es)
<1>1. UpToDate(u, x, es, first)
  BY DEF Apart, UpToDate
<1> QED
  BY <1>1 DEF WatcherOK, Unsubscribed, Pumping

\* The pump moves lines along and loses none.
LEMMA PumpsOK ==
  ASSUME NEW u, NEW s, NEW es, WatcherOK(u, s, es), s.at \in Pumping,
         NEW x \in Subscription, x.at \in Pumping \cup {"unregister"},
         x.entry = s.entry, x.from = s.from, x.fell = s.fell, Delivered(x) = Delivered(s),
         x.at \in {"take", "wait"} => x.batch = <<>>
  PROVE  WatcherOK(u, x, es)
<1>1. PICK first \in 0..s.from : Row(Delivered(s), first) /\ UpToDate(u, s, es, first)
  BY DEF WatcherOK
<1>2. UpToDate(u, x, es, first)
  BY <1>1 DEF UpToDate
<1>3. s.entry \in 1..Len(es) /\ (~s.fell /\ ~es[s.entry].sealed => u \in es[s.entry].subs)
  BY DEF WatcherOK
<1>4. x.at \notin Unsubscribed /\ x.at # "lock"
  BY DEF Unsubscribed, Pumping
<1> QED
  BY <1>1, <1>2, <1>3, <1>4 DEF WatcherOK

\* The entries grow: the new one has nobody registered.
LEMMA GrownOK ==
  ASSUME NEW u, NEW s, NEW es, NEW fs, WatcherOK(u, s, es),
         Len(es) \in Nat, Len(fs) \in Nat, Len(es) <= Len(fs),
         \A e \in 1..Len(es) : fs[e] = es[e],
         \A e \in 1..Len(fs) : e \notin 1..Len(es) => fs[e].subs = {}
  PROVE  WatcherOK(u, s, fs)
<1>1. PICK first \in 0..s.from : Row(Delivered(s), first) /\ UpToDate(u, s, es, first)
  BY DEF WatcherOK
<1>2. UpToDate(u, s, fs, first)
  BY <1>1 DEF UpToDate
<1>3. \A e \in 1..Len(es) : e \in 1..Len(fs)
  OBVIOUS
<1>4. s.at \in Pumping \cup {"lock", "unregister"} => s.entry \in 1..Len(fs)
  BY <1>3 DEF WatcherOK
<1>5. s.at \in Pumping /\ ~s.fell /\ ~fs[s.entry].sealed => u \in fs[s.entry].subs
  BY DEF WatcherOK
<1> QED
  BY <1>1, <1>2, <1>4, <1>5 DEF WatcherOK

-----------------------------------------------------------------------------
\* What becomes of one watcher's record.
LEMMA SubWritten ==
  ASSUME StreamInv, NEW u \in Watcher, NEW x \in Subscription, Watches(u, x)
  PROVE  /\ sub' \in [Watcher -> Subscription]
         /\ sub'[u] = x /\ \A w \in Watcher : w # u => sub'[w] = sub[w]
  BY DEF StreamInv, Watches

LEMMA WatcherMoves ==
  ASSUME StreamInv, HotInv', NEW u \in Watcher, NEW x \in Subscription, Watches(u, x), entries' = entries,
         WatcherOK(u, x, entries)
  PROVE  StreamInv'
<1>1. /\ sub' \in [Watcher -> Subscription]
      /\ sub'[u] = x /\ \A w \in Watcher : w # u => sub'[w] = sub[w]
  BY SubWritten
<1>2. ASSUME NEW w \in Watcher PROVE WatcherOK(w, sub'[w], entries')
  <2>1. CASE w = u
    BY <1>1, <2>1
  <2>2. CASE w # u
    BY <1>1, <2>2 DEF StreamInv
  <2> QED
    BY <2>1, <2>2
<1> QED
  BY <1>1, <1>2 DEF StreamInv

LEMMA StreamsRest == ASSUME StreamInv, HotInv', UNCHANGED <<sub, entries>> PROVE StreamInv'
  BY DEF StreamInv

LEMMA WatcherIs ==
  ASSUME StreamInv, NEW u \in Watcher
  PROVE  sub[u] \in Subscription /\ WatcherOK(u, sub[u], entries)
  BY DEF StreamInv

LEMMA PumpTakes == ASSUME StreamInv, HotInv', NEW u \in Watcher, PumpTake(u) PROVE StreamInv'
<1> DEFINE s == sub[u]
           x == [s EXCEPT !.at = "send", !.batch = s.buf, !.buf = <<>>, !.told = s.fell, !.ends = s.closed]
<1>1. s.at = "take" /\ Watches(u, x) /\ entries' = entries
  BY DEF PumpTake
<1>2. s \in Subscription /\ WatcherOK(u, s, entries)
  BY WatcherIs
<1>3. s.batch = <<>>
  BY <1>1, <1>2 DEF WatcherOK
<1> HIDE DEF s
<1>4. /\ x \in Subscription /\ x.at = "send" /\ x.batch = s.buf /\ x.buf = <<>> /\ x.got = s.got
      /\ x.entry = s.entry /\ x.from = s.from /\ x.fell = s.fell
  <2>1. <<>> \in Seq(Nat)
    OBVIOUS
  <2> QED
    BY <1>2, <2>1 DEF Subscription, Pumping
<1> HIDE DEF x
<1>5. Delivered(x) = Delivered(s)
  <2>1. s.got \in Seq(Nat) /\ s.buf \in Seq(Nat)
    BY <1>2, DeliveredTyped
  <2>2. s.got \o s.buf \o <<>> = s.got \o <<>> \o s.buf
    BY <2>1
  <2> QED
    BY <1>3, <1>4, <2>2 DEF Delivered
<1>6. WatcherOK(u, x, entries)
  BY <1>1, <1>2, <1>4, <1>5, PumpsOK DEF Pumping
<1> QED
  BY <1>1, <1>4, <1>6, WatcherMoves

LEMMA PumpSends == ASSUME StreamInv, HotInv', NEW u \in Watcher, PumpSend(u) PROVE StreamInv'
<1> DEFINE s == sub[u]
<1>1. PICK next \in {"unregister", "wait"} :
        Watches(u, [s EXCEPT !.got = s.got \o s.batch, !.batch = <<>>, !.at = next])
  BY DEF PumpSend
<1> DEFINE x == [s EXCEPT !.got = s.got \o s.batch, !.batch = <<>>, !.at = next]
<1>2. s.at = "send" /\ Watches(u, x) /\ entries' = entries
  BY <1>1 DEF PumpSend
<1>3. s \in Subscription /\ WatcherOK(u, s, entries)
  BY WatcherIs
<1> HIDE DEF s
<1>4. s.got \in Seq(Nat) /\ s.batch \in Seq(Nat) /\ s.buf \in Seq(Nat)
  BY <1>3, DeliveredTyped
<1>5. PICK t \in Seq(Nat) : t = s.got \o s.batch
  <2>1. s.got \o s.batch \in Seq(Nat)
    BY <1>4, ConcatProperties
  <2> QED
    BY <2>1, Zenon
<1>6. /\ x \in Subscription /\ x.at = next /\ x.batch = <<>> /\ x.buf = s.buf /\ x.got = t
      /\ x.entry = s.entry /\ x.from = s.from /\ x.fell = s.fell
  <2>1. <<>> \in Seq(Nat)
    OBVIOUS
  <2>2. x = [s EXCEPT !.got = t, !.batch = <<>>, !.at = next]
    BY <1>5
  <2> HIDE DEF x
  <2> QED
    BY <1>3, <2>1, <2>2 DEF Subscription, Pumping
<1> HIDE DEF x
<1>7. Delivered(x) = Delivered(s)
  <2>1. t \o <<>> = t
    OBVIOUS
  <2> QED
    BY <1>5, <1>6, <2>1 DEF Delivered
<1>8. WatcherOK(u, x, entries)
  BY <1>2, <1>3, <1>6, <1>7, PumpsOK DEF Pumping
<1> QED
  BY <1>2, <1>6, <1>8, WatcherMoves

LEMMA PumpWakes == ASSUME StreamInv, HotInv', NEW u \in Watcher, PumpWake(u) PROVE StreamInv'
<1> DEFINE s == sub[u]
           x == [s EXCEPT !.at = "take", !.wake = FALSE]
<1>1. s.at = "wait" /\ Watches(u, x) /\ entries' = entries
  BY DEF PumpWake
<1>2. s \in Subscription /\ WatcherOK(u, s, entries)
  BY WatcherIs
<1>3. s.batch = <<>>
  BY <1>1, <1>2 DEF WatcherOK
<1> HIDE DEF s
<1>4. /\ x \in Subscription /\ x.at = "take" /\ x.batch = s.batch /\ x.buf = s.buf /\ x.got = s.got
      /\ x.entry = s.entry /\ x.from = s.from /\ x.fell = s.fell
  BY <1>2 DEF Subscription, Pumping
<1> HIDE DEF x
<1>5. Delivered(x) = Delivered(s)
  BY <1>4 DEF Delivered
<1>6. WatcherOK(u, x, entries)
  BY <1>1, <1>2, <1>3, <1>4, <1>5, PumpsOK DEF Pumping
<1> QED
  BY <1>1, <1>4, <1>6, WatcherMoves

LEMMA Regrouped ==
  ASSUME NEW a \in Seq(Nat), NEW b \in Seq(Nat), NEW c \in Seq(Nat)
  PROVE  (a \o b) \o c = a \o (b \o c)
<1>1. \A s, t \in Seq(Nat) :
        /\ s \o t \in Seq(Nat) /\ Len(s \o t) = Len(s) + Len(t)
        /\ \A i \in 1..(Len(s) + Len(t)) : (s \o t)[i] = IF i <= Len(s) THEN s[i] ELSE t[i - Len(s)]
  BY ConcatProperties
<1> DEFINE p == (a \o b) \o c
           q == a \o (b \o c)
<1>2. p \in Seq(Nat) /\ q \in Seq(Nat) /\ Len(p) = Len(q) /\ Len(p) = Len(a) + Len(b) + Len(c)
  BY <1>1
<1>3. ASSUME NEW i \in 1..(Len(a) + Len(b) + Len(c)) PROVE p[i] = q[i]
  <2>1. a \o b \in Seq(Nat) /\ b \o c \in Seq(Nat) /\ Len(a \o b) = Len(a) + Len(b) /\ Len(b \o c) = Len(b) + Len(c)
    BY <1>1
  <2>2. p[i] = IF i <= Len(a) + Len(b) THEN (a \o b)[i] ELSE c[i - (Len(a) + Len(b))]
    BY <1>1, <2>1
  <2>3. q[i] = IF i <= Len(a) THEN a[i] ELSE (b \o c)[i - Len(a)]
    BY <1>1, <2>1
  <2>4. i <= Len(a) + Len(b) => (a \o b)[i] = IF i <= Len(a) THEN a[i] ELSE b[i - Len(a)]
    BY <1>1
  <2>5. i > Len(a) => (b \o c)[i - Len(a)] = IF i - Len(a) <= Len(b) THEN b[i - Len(a)] ELSE c[i - Len(a) - Len(b)]
    BY <1>1
  <2> HIDE DEF p, q
  <2> QED
    BY <2>2, <2>3, <2>4, <2>5
<1> HIDE DEF p, q
<1>4. \A i \in 1..Len(p) : p[i] = q[i]
  BY <1>2, <1>3
<1>5. p = q
  <2>1. p \in Seq(Nat) /\ q \in Seq(Nat) /\ Len(p) = Len(q)
    BY <1>2
  <2> QED
    BY <1>4, <2>1, SeqEqual, Zenon
<1> QED
  BY <1>5 DEF p, q

\* A sequence is its two parts.
LEMMA CutInTwo ==
  ASSUME NEW t \in Seq(Nat), NEW n \in 0..Len(t)
  PROVE  /\ SubSeq(t, 1, n) \in Seq(Nat) /\ SubSeq(t, n + 1, Len(t)) \in Seq(Nat)
         /\ SubSeq(t, 1, n) \o SubSeq(t, n + 1, Len(t)) = t
<1> DEFINE a == SubSeq(t, 1, n)
           b == SubSeq(t, n + 1, Len(t))
<1>1. a \in Seq(Nat) /\ Len(a) = n /\ \A i \in 1..n : a[i] = t[i]
  BY SubSeqProperties
<1>2. b \in Seq(Nat) /\ Len(b) = Len(t) - n /\ \A i \in 1..(Len(t) - n) : b[i] = t[n + i]
  BY SubSeqProperties
<1> HIDE DEF a, b
<1>3. /\ a \o b \in Seq(Nat) /\ Len(a \o b) = Len(t)
      /\ \A i \in 1..Len(t) : (a \o b)[i] = IF i <= Len(a) THEN a[i] ELSE b[i - Len(a)]
  <2>1. /\ a \o b \in Seq(Nat) /\ Len(a \o b) = Len(a) + Len(b)
        /\ \A i \in 1..(Len(a) + Len(b)) : (a \o b)[i] = IF i <= Len(a) THEN a[i] ELSE b[i - Len(a)]
    BY <1>1, <1>2, ConcatProperties
  <2>2. Len(a) + Len(b) = Len(t)
    BY <1>1, <1>2
  <2> QED
    BY <2>1, <2>2
<1>4. \A i \in 1..Len(t) : (a \o b)[i] = t[i]
  BY <1>1, <1>2, <1>3
<1>5. a \o b = t
  <2> DEFINE c == a \o b
  <2>1. c \in Seq(Nat) /\ Len(c) = Len(t) /\ \A i \in 1..Len(t) : c[i] = t[i]
    BY <1>3, <1>4
  <2> HIDE DEF c
  <2>2. t \in Seq(Nat)
    OBVIOUS
  <2>3. c = t
    BY <2>1, <2>2, SeqEqual, Zenon
  <2> QED
    BY <2>3 DEF c
<1> QED
  BY <1>1, <1>2, <1>5 DEF a, b

LEMMA WatcherLeaves == ASSUME StreamInv, HotInv', NEW u \in Watcher, Leave(u) PROVE StreamInv'
<1> DEFINE s == sub[u]
<1>1. PICK n \in 0..Len(s.batch) :
        Watches(u, [s EXCEPT !.at = "unregister", !.cut = TRUE,
                             !.got = s.got \o SubSeq(s.batch, 1, n),
                             !.batch = SubSeq(s.batch, n + 1, Len(s.batch))])
  BY DEF Leave
<1>2. s.at \in {"send", "wait"} /\ entries' = entries
  BY DEF Leave
<1>3. s \in Subscription /\ WatcherOK(u, s, entries)
  BY WatcherIs
<1> HIDE DEF s
<1>4. s.got \in Seq(Nat) /\ s.batch \in Seq(Nat) /\ s.buf \in Seq(Nat)
  BY <1>3, DeliveredTyped
<1>5. PICK a \in Seq(Nat), b \in Seq(Nat) :
        a = SubSeq(s.batch, 1, n) /\ b = SubSeq(s.batch, n + 1, Len(s.batch)) /\ a \o b = s.batch
  BY <1>4, CutInTwo
<1>6. PICK t \in Seq(Nat) : t = s.got \o a
  <2>1. s.got \o a \in Seq(Nat)
    BY <1>4, <1>5, ConcatProperties
  <2> QED
    BY <2>1, Zenon
<1> DEFINE x == [s EXCEPT !.at = "unregister", !.cut = TRUE, !.got = t, !.batch = b]
<1>7. Watches(u, x)
  BY <1>1, <1>5, <1>6
<1>8. /\ x \in Subscription /\ x.at = "unregister" /\ x.batch = b /\ x.buf = s.buf /\ x.got = t
      /\ x.entry = s.entry /\ x.from = s.from /\ x.fell = s.fell
  BY <1>3 DEF Subscription, Pumping
<1> HIDE DEF x
<1>9. Delivered(x) = Delivered(s)
  <2>1. t \o b = s.got \o s.batch
    <3>1. \A g \in Seq(Nat) : (g \o a) \o b = g \o (a \o b)
      BY Regrouped, Zenon
    <3> QED
      BY <1>4, <1>5, <1>6, <3>1, Zenon
  <2> QED
    BY <1>8, <2>1 DEF Delivered
<1>10. WatcherOK(u, x, entries)
  BY <1>2, <1>3, <1>8, <1>9, PumpsOK DEF Pumping
<1> QED
  BY <1>2, <1>7, <1>8, <1>10, WatcherMoves

\* What Read and Subscribe deliver is a row from the position on.
LEMMA AboveIsRow ==
  ASSUME NEW from \in Nat, NEW n \in Nat
  PROVE  /\ Above(from, n) \in Seq(Nat) /\ Row(Above(from, n), from)
         /\ Len(Above(from, n)) = (IF n > from THEN n - from ELSE 0)
<1> DEFINE k == IF n > from THEN n - from ELSE 0
<1>1. k \in Nat /\ Above(from, n) = [i \in 1..k |-> from + i]
  BY DEF Above
<1> HIDE DEF k
<1>2. Above(from, n) \in Seq(Nat) /\ Len(Above(from, n)) = k /\ \A i \in 1..k : Above(from, n)[i] = from + i
  BY <1>1
<1> QED
  BY <1>2 DEF Row, k

LEMMA SnapshotIsNat == ASSUME HotInv PROVE Snapshot \in Nat
<1>1. CASE current # 0 /\ ~entries[current].sealed
  <2>1. entries[current] \in HotEntry
    BY <1>1 DEF HotInv, HotTyped
  <2>2. entries[current].lines \in Seq(LineNo)
    BY <2>1 DEF HotEntry
  <2> QED
    BY <1>1, <2>2 DEF Snapshot
<1>2. CASE ~(current # 0 /\ ~entries[current].sealed)
  <2>1. blob \in Seq(Nat)
    BY DEF HotInv, HotTyped
  <2>2. Len(blob) \in Nat
    BY <2>1
  <2> QED
    BY <1>2, <2>2 DEF Snapshot
<1> QED
  BY <1>1, <1>2

LEMMA NextSeqIsNat == ASSUME NEW from \in Nat, NEW t \in Seq(Nat) PROVE NextSeq(from, t) \in Nat
<1>1. CASE t = <<>>
  BY <1>1 DEF NextSeq
<1>2. CASE t # <<>>
  <2>1. t[Len(t)] \in Nat
    BY <1>2
  <2> QED
    BY <1>2, <2>1 DEF NextSeq
<1> QED
  BY <1>1, <1>2

-----------------------------------------------------------------------------
\* A reader before it subscribes, and the calls that find it its entry.
LEMMA PageRead == ASSUME StreamInv, HotInv', NEW u \in Watcher, ReadPage(u) PROVE StreamInv'
<1> DEFINE s == sub[u]
           all == Above(s.from, Snapshot)
           k == IF Len(all) < PageSize THEN Len(all) ELSE PageSize
           page == SubSeq(all, 1, k)
<1>1. /\ s.at = "none" /\ entries' = entries
      /\ Watches(u, [s EXCEPT !.seen = s.seen \o page, !.from = NextSeq(s.from, page), !.resumes = s.resumes + 1])
  BY DEF ReadPage
<1>2. s \in Subscription /\ WatcherOK(u, s, entries)
  BY WatcherIs
<1>3. s.got = <<>> /\ s.batch = <<>> /\ s.buf = <<>> /\ Apart(u, entries)
  BY <1>1, <1>2, NotRegistered DEF WatcherOK, Unsubscribed, Pumping
<1>4. s.from \in Nat /\ s.seen \in Seq(Nat) /\ s.resumes \in Nat
  BY <1>2 DEF Subscription
<1>5. page \in Seq(Nat)
  <2>1. Snapshot \in Nat
    BY SnapshotIsNat DEF StreamInv
  <2>2. all \in Seq(Nat)
    BY <1>4, <2>1, AboveIsRow, Zenon
  <2> HIDE DEF all
  <2>3. k \in 0..Len(all)
    <3>1. Len(all) \in Nat
      BY <2>2
    <3> QED
      BY <3>1, LogBoundsAssumption
  <2> HIDE DEF k
  <2> QED
    BY <2>2, <2>3, CutInTwo
<1> HIDE DEF s, all, k, page
<1>6. PICK n \in Nat : n = NextSeq(s.from, page)
  BY <1>4, <1>5, NextSeqIsNat
<1>7. PICK t \in Seq(Nat) : t = s.seen \o page
  <2>1. s.seen \o page \in Seq(Nat)
    BY <1>4, <1>5, ConcatProperties
  <2> QED
    BY <2>1, Zenon
<1> DEFINE m == s.resumes + 1
           x == [s EXCEPT !.seen = t, !.from = n, !.resumes = m]
<1>8. Watches(u, x) /\ m \in Nat
  BY <1>1, <1>4, <1>6, <1>7
<1> HIDE DEF m
<1>9. /\ x \in Subscription /\ x.at = s.at /\ x.batch = s.batch /\ x.buf = s.buf /\ x.got = s.got
  BY <1>2, <1>8 DEF Subscription, Pumping
<1> HIDE DEF x
<1>10. WatcherOK(u, x, entries)
  BY <1>1, <1>3, <1>9, BeginsOK DEF Unsubscribed
<1> QED
  BY <1>1, <1>8, <1>9, <1>10, WatcherMoves

LEMMA ReaderReturns == ASSUME StreamInv, HotInv', NEW u \in Watcher, Resume(u) PROVE StreamInv'
<1> DEFINE s == sub[u]
<1>1. /\ s.at = "done" /\ entries' = entries
      /\ Watches(u, [NoSub EXCEPT !.seen = s.seen \o s.got, !.from = NextSeq(s.from, s.got),
                                  !.resumes = s.resumes + 1])
  BY DEF Resume
<1>2. s \in Subscription /\ WatcherOK(u, s, entries)
  BY WatcherIs
<1>3. Apart(u, entries)
  BY <1>1, <1>2, NotRegistered DEF Pumping
<1> HIDE DEF s
<1>4. s.from \in Nat /\ s.seen \in Seq(Nat) /\ s.got \in Seq(Nat) /\ s.resumes \in Nat
  BY <1>2 DEF Subscription
<1>5. PICK n \in Nat : n = NextSeq(s.from, s.got)
  BY <1>4, NextSeqIsNat
<1>6. PICK t \in Seq(Nat) : t = s.seen \o s.got
  <2>1. s.seen \o s.got \in Seq(Nat)
    BY <1>4, ConcatProperties
  <2> QED
    BY <2>1, Zenon
<1> DEFINE x == [NoSub EXCEPT !.seen = t, !.from = n, !.resumes = s.resumes + 1]
<1>7. Watches(u, x)
  BY <1>1, <1>5, <1>6
<1>8. /\ x \in Subscription /\ x.at = "none" /\ x.batch = <<>> /\ x.buf = <<>> /\ x.got = <<>>
  <2>1. NoSub \in Subscription
    BY DEF NoSub, Subscription, Unsubscribed, Pumping
  <2>2. NoSub.at = "none" /\ NoSub.batch = <<>> /\ NoSub.buf = <<>> /\ NoSub.got = <<>>
    BY DEF NoSub
  <2>3. s.resumes + 1 \in Nat
    BY <1>4
  <2> QED
    BY <2>1, <2>2, <2>3 DEF Subscription
<1> HIDE DEF x
<1>9. WatcherOK(u, x, entries)
  BY <1>3, <1>8, BeginsOK DEF Unsubscribed
<1> QED
  BY <1>1, <1>7, <1>8, <1>9, WatcherMoves

\* The record of a watcher that goes on to look for its entry.
LEMMA WatcherBegins ==
  ASSUME StreamInv, HotInv', NEW u \in Watcher, sub[u].at \in Unsubscribed, entries' = entries,
         NEW at \in Unsubscribed, NEW e \in Nat, at = "lock" => e \in 1..Len(entries),
         Watches(u, [sub[u] EXCEPT !.at = at, !.entry = e])
  PROVE  StreamInv'
<1> DEFINE s == sub[u]
           x == [s EXCEPT !.at = at, !.entry = e]
<1>1. Watches(u, x)
  OBVIOUS
<1>2. s \in Subscription /\ WatcherOK(u, s, entries)
  BY WatcherIs
<1>3. s.got = <<>> /\ s.batch = <<>> /\ s.buf = <<>> /\ Apart(u, entries)
  BY <1>2, NotRegistered DEF WatcherOK, Unsubscribed, Pumping
<1> HIDE DEF s
<1>4. /\ x \in Subscription /\ x.at = at /\ x.entry = e /\ x.batch = s.batch /\ x.buf = s.buf /\ x.got = s.got
  BY <1>2 DEF Subscription
<1> HIDE DEF x
<1>5. WatcherOK(u, x, entries)
  BY <1>3, <1>4, BeginsOK
<1> QED
  BY <1>1, <1>4, <1>5, WatcherMoves

LEMMA EntryAsked ==
  ASSUME StreamInv, HotInv', NEW u \in Watcher, SubscribeGet(u) \/ SubscribeCheck(u) PROVE StreamInv'
<1>1. entries' = entries /\ sub[u].at \in {"none", "check"}
  BY DEF SubscribeGet, SubscribeCheck
<1>2. CASE SubscribeGet(u)
  <2>1. current \in Nat /\ (current # 0 => current \in 1..Len(entries))
    BY DEF StreamInv, HotInv, HotTyped
  <2>2. PICK at \in {"check", "lock"} : at = (IF current = 0 THEN "check" ELSE "lock")
    OBVIOUS
  <2>3. Watches(u, [sub[u] EXCEPT !.at = at, !.entry = current])
    BY <1>2, <2>2 DEF SubscribeGet
  <2> QED
    BY <1>1, <2>1, <2>2, <2>3, WatcherBegins DEF Unsubscribed
<1>3. CASE SubscribeCheck(u)
  <2>1. PICK at \in {"replay", "create"} : Watches(u, [sub[u] EXCEPT !.at = at])
    BY <1>3 DEF SubscribeCheck
  <2>2. sub[u] \in Subscription
    BY WatcherIs
  <2>3. sub[u].entry \in Nat
    BY <2>2 DEF Subscription
  <2>4. [sub[u] EXCEPT !.at = at] = [sub[u] EXCEPT !.at = at, !.entry = sub[u].entry]
    BY <2>2 DEF Subscription
  <2>5. Watches(u, [sub[u] EXCEPT !.at = at, !.entry = sub[u].entry])
    BY <2>1, <2>4
  <2> QED
    BY <1>1, <2>1, <2>3, <2>5, WatcherBegins DEF Unsubscribed
<1> QED
  BY <1>2, <1>3

\* The steps that end a watcher's subscription.
LEMMA LogReplayed == ASSUME StreamInv, HotInv', NEW u \in Watcher, Replay(u) PROVE StreamInv'
<1> DEFINE s == sub[u]
           t == Above(s.from, Snapshot)
           x == [s EXCEPT !.at = "done", !.got = t]
<1>1. s.at = "replay" /\ entries' = entries /\ Watches(u, x)
  BY DEF Replay
<1>2. s \in Subscription /\ WatcherOK(u, s, entries)
  BY WatcherIs
<1>3. s.batch = <<>> /\ s.buf = <<>> /\ Apart(u, entries)
  BY <1>1, <1>2, NotRegistered DEF WatcherOK, Unsubscribed, Pumping
<1> HIDE DEF s
<1>4. s.from \in Nat
  BY <1>2 DEF Subscription
<1>5. t \in Seq(Nat) /\ Row(t, s.from)
  <2>1. Snapshot \in Nat
    BY SnapshotIsNat DEF StreamInv
  <2> QED
    BY <1>4, <2>1, AboveIsRow, Zenon
<1> HIDE DEF t
<1>6. /\ x \in Subscription /\ x.at = "done" /\ x.batch = s.batch /\ x.buf = s.buf /\ x.got = t
      /\ x.from = s.from
  BY <1>2, <1>5 DEF Subscription, Pumping
<1> HIDE DEF x
<1>7. Delivered(x) = t
  <2>1. t \o <<>> \o <<>> = t
    BY <1>5
  <2> QED
    BY <1>3, <1>6, <2>1 DEF Delivered
<1>8. x.from \in 0..x.from /\ Row(Delivered(x), x.from)
  BY <1>4, <1>5, <1>6, <1>7
<1>9. WatcherOK(u, x, entries)
  BY <1>3, <1>6, <1>8, EndsOK
<1> QED
  BY <1>1, <1>6, <1>9, WatcherMoves

\* What the end changes is where the watcher is.
LEMMA EndOfRow ==
  ASSUME NEW u, NEW s, NEW es, NEW fs, WatcherOK(u, s, es), Apart(u, fs), NEW at \in {"leaving", "done"}
  PROVE  [s EXCEPT !.at = at] \in Subscription /\ WatcherOK(u, [s EXCEPT !.at = at], fs)
<1> DEFINE x == [s EXCEPT !.at = at]
<1>1. s \in Subscription
  BY DEF WatcherOK
<1>2. x \in Subscription /\ x.at = at /\ x.got = s.got /\ x.batch = s.batch /\ x.buf = s.buf /\ x.from = s.from
  BY <1>1 DEF Subscription
<1> HIDE DEF x
<1>3. Delivered(x) = Delivered(s)
  BY <1>2 DEF Delivered
<1>4. PICK first \in 0..s.from : Row(Delivered(s), first)
  BY DEF WatcherOK
<1>5. WatcherOK(u, x, fs)
  BY <1>2, <1>3, <1>4, EndsOK
<1> QED
  BY <1>2, <1>5 DEF x

LEMMA IdleForgotten == ASSUME StreamInv, HotInv', NEW u \in Watcher, ForgetIdle(u) PROVE StreamInv'
<1>1. sub[u].at = "leaving" /\ entries' = entries /\ Watches(u, [sub[u] EXCEPT !.at = "done"])
  BY DEF ForgetIdle
<1>2. WatcherOK(u, sub[u], entries)
  BY WatcherIs
<1>3. Apart(u, entries)
  BY <1>1, <1>2, NotRegistered DEF Pumping
<1>4. [sub[u] EXCEPT !.at = "done"] \in Subscription /\ WatcherOK(u, [sub[u] EXCEPT !.at = "done"], entries)
  BY <1>2, <1>3, EndOfRow
<1> QED
  BY <1>1, <1>4, WatcherMoves

-----------------------------------------------------------------------------
\* The steps that change entries too.

\* Every watcher's record fits the entries as they are now.
LEMMA AllStreams ==
  ASSUME HotInv', sub' \in [Watcher -> Subscription], \A w \in Watcher : WatcherOK(w, sub'[w], entries')
  PROVE  StreamInv'
  BY DEF StreamInv

LEMMA GrowthKeeps ==
  ASSUME StreamInv, GetEntry, NEW w \in Watcher
  PROVE  WatcherOK(w, sub[w], entries')
<1>1. /\ Len(entries') \in Nat /\ Len(entries) \in Nat /\ Len(entries) <= Len(entries')
      /\ \A e \in 1..Len(entries) : entries'[e] = entries[e]
      /\ \A e \in 1..Len(entries') : e \notin 1..Len(entries) => entries'[e] = NewEntry
  BY EntryGot DEF StreamInv, HotInv
<1>2. \A e \in 1..Len(entries') : e \notin 1..Len(entries) => entries'[e].subs = {}
  BY <1>1, EmptyEntry
<1>3. WatcherOK(w, sub[w], entries)
  BY WatcherIs
<1> QED
  BY <1>1, <1>2, <1>3, GrownOK

LEMMA StreamsSeeAppendGet == ASSUME StreamInv, HotInv', NEW f \in Flushers, AppendGet(f) PROVE StreamInv'
<1>1. GetEntry /\ sub' = sub
  BY DEF AppendGet
<1> QED
  BY <1>1, GrowthKeeps, AllStreams DEF StreamInv

LEMMA EntryCreated == ASSUME StreamInv, HotInv', NEW u \in Watcher, SubscribeCreate(u) PROVE StreamInv'
<1> DEFINE s == sub[u]
<1>1. s.at = "create" /\ GetEntry
  BY DEF SubscribeCreate
<1>2. PICK e \in 1..Len(entries') : e = current'
  BY <1>1, EntryGot DEF StreamInv, HotInv
<1> DEFINE x == [s EXCEPT !.at = "lock", !.entry = e]
<1>3. Watches(u, x)
  BY <1>2 DEF SubscribeCreate
<1>4. s \in Subscription /\ WatcherOK(u, s, entries)
  BY WatcherIs
<1>5. s.got = <<>> /\ s.batch = <<>> /\ s.buf = <<>>
  BY <1>1, <1>4 DEF WatcherOK, Unsubscribed
<1>6. WatcherOK(u, s, entries')
  BY <1>1, GrowthKeeps
<1>7. Apart(u, entries')
  BY <1>1, <1>6, NotRegistered DEF Pumping
<1> HIDE DEF s
<1>8. /\ x \in Subscription /\ x.at = "lock" /\ x.entry = e /\ x.batch = s.batch /\ x.buf = s.buf /\ x.got = s.got
  <2>1. e \in Nat
    BY <1>2
  <2> QED
    BY <1>4, <2>1 DEF Subscription, Unsubscribed
<1> HIDE DEF x
<1>9. WatcherOK(u, x, entries')
  BY <1>2, <1>5, <1>7, <1>8, BeginsOK DEF Unsubscribed
<1>10. /\ sub' \in [Watcher -> Subscription]
       /\ sub'[u] = x /\ \A w \in Watcher : w # u => sub'[w] = sub[w]
  BY <1>3, <1>8, SubWritten
<1>11. \A w \in Watcher : WatcherOK(w, sub'[w], entries')
  BY <1>1, <1>9, <1>10, GrowthKeeps
<1> QED
  BY <1>10, <1>11, AllStreams

\* The watchers besides u do not see u come and go.
SameFor(w, es, fs) ==
  /\ Len(fs) = Len(es)
  /\ \A k \in 1..Len(es) : /\ w \in fs[k].subs <=> w \in es[k].subs
                           /\ fs[k].sealed <=> es[k].sealed
                           /\ fs[k].lines = es[k].lines

LEMMA OthersUnmoved ==
  ASSUME NEW w, NEW s, NEW es, NEW fs, WatcherOK(w, s, es), SameFor(w, es, fs)
  PROVE  WatcherOK(w, s, fs)
<1>1. PICK first \in 0..s.from : Row(Delivered(s), first) /\ UpToDate(w, s, es, first)
  BY DEF WatcherOK
<1>2. UpToDate(w, s, fs, first)
  BY <1>1 DEF UpToDate, SameFor
<1>3. s.at \in Pumping /\ ~s.fell /\ ~fs[s.entry].sealed => w \in fs[s.entry].subs
  <2>1. s.at \in Pumping => s.entry \in 1..Len(es)
    BY DEF WatcherOK
  <2> QED
    BY <2>1 DEF WatcherOK, SameFor
<1> QED
  BY <1>1, <1>2, <1>3 DEF WatcherOK, SameFor

\* The entry with other subscribers.
LEMMA SubsWritten ==
  ASSUME HotTyped, NEW e \in 1..Len(entries), NEW S \in SUBSET Watcher,
         entries' = [entries EXCEPT ![e].subs = S]
  PROVE  /\ Len(entries') = Len(entries) /\ entries'[e].subs = S /\ entries'[e].lines = entries[e].lines
         /\ entries'[e].sealed <=> entries[e].sealed
         /\ \A k \in 1..Len(entries) : k # e => entries'[k] = entries[k]
<1> DEFINE x == [entries[e] EXCEPT !.subs = S]
<1>1. entries[e] \in HotEntry
  BY DEF HotTyped
<1>2. x \in HotEntry /\ x.lines = entries[e].lines /\ x.subs = S /\ (x.sealed <=> entries[e].sealed)
  BY <1>1 DEF HotEntry
<1>3. entries' = [entries EXCEPT ![e] = x]
  OBVIOUS
<1> HIDE DEF x
<1>4. /\ Len(entries') = Len(entries) /\ entries'[e] = x
      /\ \A k \in 1..Len(entries) : k # e => entries'[k] = entries[k]
  BY <1>2, <1>3, EntryWritten
<1> QED
  BY <1>2, <1>4

LEMMA WatcherRegisters == ASSUME StreamInv, HotInv', NEW u \in Watcher, SubscribeLock(u) PROVE StreamInv'
<1> DEFINE s == sub[u]
           e == s.entry
<1>1. s \in Subscription /\ WatcherOK(u, s, entries) /\ s.at = "lock"
  BY WatcherIs DEF SubscribeLock
<1>2. e \in 1..Len(entries) /\ Apart(u, entries) /\ s.got = <<>> /\ s.batch = <<>> /\ s.buf = <<>>
  BY <1>1, NotRegistered DEF WatcherOK, Pumping, Unsubscribed
<1>3. CASE entries[e].sealed
  <2>1. entries' = entries /\ Watches(u, [s EXCEPT !.at = "replay"])
    BY <1>3 DEF SubscribeLock
  <2>2. [s EXCEPT !.at = "replay"] = [s EXCEPT !.at = "replay", !.entry = s.entry] /\ s.entry \in Nat
    BY <1>1 DEF Subscription
  <2>3. Watches(u, [s EXCEPT !.at = "replay", !.entry = s.entry])
    BY <2>1, <2>2
  <2> QED
    BY <1>1, <2>1, <2>2, <2>3, WatcherBegins DEF Unsubscribed
<1>4. CASE ~entries[e].sealed
  <2> DEFINE n == Len(entries[e].lines)
             t == Above(s.from, n)
             x == [s EXCEPT !.at = "take", !.buf = t]
  <2>1. Watches(u, x) /\ entries' = [entries EXCEPT ![e].subs = entries[e].subs \cup {u}]
    BY <1>4, Zenon DEF SubscribeLock
  <2>2. HotTyped /\ entries[e] \in HotEntry
    BY <1>2 DEF StreamInv, HotInv, HotTyped
  <2>3. n \in Nat /\ entries[e].subs \cup {u} \in SUBSET Watcher
    <3>1. entries[e].lines \in Seq(LineNo) /\ entries[e].subs \in SUBSET Watcher
      BY <2>2 DEF HotEntry
    <3> QED
      BY <3>1
  <2>4. /\ Len(entries') = Len(entries) /\ entries'[e].subs = entries[e].subs \cup {u}
        /\ entries'[e].lines = entries[e].lines /\ (entries'[e].sealed <=> entries[e].sealed)
        /\ \A k \in 1..Len(entries) : k # e => entries'[k] = entries[k]
    BY <1>2, <2>1, <2>2, <2>3, SubsWritten
  <2>5. s.from \in Nat
    BY <1>1 DEF Subscription
  <2> HIDE DEF s, e, n
  <2>6. t \in Seq(Nat) /\ Row(t, s.from) /\ Len(t) = (IF n > s.from THEN n - s.from ELSE 0)
    BY <2>3, <2>5, AboveIsRow, Zenon
  <2> HIDE DEF t
  <2>7. /\ x \in Subscription /\ x.at = "take" /\ x.buf = t /\ x.batch = s.batch /\ x.got = s.got
        /\ x.entry = s.entry /\ x.from = s.from
    BY <1>1, <2>6 DEF Subscription, Pumping
  <2> HIDE DEF x
  <2>8. Delivered(x) = t
    <3>1. <<>> \o <<>> \o t = t
      BY <2>6
    <3> QED
      BY <1>2, <2>7, <3>1 DEF Delivered
  <2>9. PICK first \in 0..s.from : Row(t, first) /\ first + Len(t) = n
    <3>1. CASE n > s.from
      <4>1. s.from \in 0..s.from /\ s.from + Len(t) = n
        BY <2>3, <2>5, <2>6, <3>1
      <4> QED
        BY <2>6, <4>1
    <3>2. CASE ~(n > s.from)
      <4>1. n \in 0..s.from /\ Len(t) = 0 /\ n + Len(t) = n
        BY <2>3, <2>5, <2>6, <3>2
      <4>2. Row(t, n)
        BY <4>1 DEF Row
      <4> QED
        BY <4>1, <4>2
    <3> QED
      BY <3>1, <3>2
  <2>10. UpToDate(u, x, entries', first)
    <3> SUFFICES ASSUME NEW k \in 1..Len(entries'), u \in entries'[k].subs
                 PROVE  /\ k = x.entry /\ x.at \in Pumping \cup {"unregister"} /\ ~entries'[k].sealed
                        /\ first + Len(Delivered(x)) = Len(entries'[k].lines)
      BY DEF UpToDate
    <3>1. k = e
      BY <1>2, <2>4 DEF Apart
    <3> QED
      BY <1>4, <2>4, <2>7, <2>8, <2>9, <3>1 DEF Pumping, e, n
  <2>11. WatcherOK(u, x, entries')
    <3>1. x.batch = <<>> /\ x.entry \in 1..Len(entries') /\ u \in entries'[x.entry].subs
      BY <1>2, <2>4, <2>7 DEF e
    <3>2. x.at \notin Unsubscribed
      BY <2>7 DEF Unsubscribed
    <3> QED
      BY <2>7, <2>8, <2>9, <2>10, <3>1, <3>2 DEF WatcherOK
  <2>12. /\ sub' \in [Watcher -> Subscription]
         /\ sub'[u] = x /\ \A w \in Watcher : w # u => sub'[w] = sub[w]
    BY <2>1, <2>7, SubWritten
  <2>13. ASSUME NEW w \in Watcher, w # u PROVE WatcherOK(w, sub[w], entries')
    <3>1. SameFor(w, entries, entries')
      BY <2>4, <2>13 DEF SameFor
    <3> QED
      BY <3>1, WatcherIs, OthersUnmoved
  <2> QED
    BY <2>11, <2>12, <2>13, AllStreams
<1> QED
  BY <1>3, <1>4

LEMMA WatcherUnregisters == ASSUME StreamInv, HotInv', NEW u \in Watcher, Unregister(u) PROVE StreamInv'
<1> DEFINE s == sub[u]
           e == s.entry
<1>1. s \in Subscription /\ WatcherOK(u, s, entries) /\ s.at = "unregister"
  BY WatcherIs DEF Unregister
<1>2. PICK first \in 0..s.from : Row(Delivered(s), first) /\ UpToDate(u, s, entries, first)
  BY <1>1 DEF WatcherOK
<1>3. e \in 1..Len(entries) /\ entries' = [entries EXCEPT ![e].subs = entries[e].subs \ {u}]
  BY <1>1 DEF WatcherOK, Unregister
<1>4. PICK at \in {"leaving", "done"} : Watches(u, [s EXCEPT !.at = at])
  BY DEF Unregister
<1>5. HotTyped /\ entries[e] \in HotEntry
  BY <1>3 DEF StreamInv, HotInv, HotTyped
<1>6. entries[e].subs \ {u} \in SUBSET Watcher
  BY <1>5 DEF HotEntry
<1>7. /\ Len(entries') = Len(entries) /\ entries'[e].subs = entries[e].subs \ {u}
      /\ entries'[e].lines = entries[e].lines /\ (entries'[e].sealed <=> entries[e].sealed)
      /\ \A k \in 1..Len(entries) : k # e => entries'[k] = entries[k]
  BY <1>3, <1>5, <1>6, SubsWritten
<1>8. Apart(u, entries')
  BY <1>2, <1>7 DEF UpToDate, Apart
<1>9. [s EXCEPT !.at = at] \in Subscription /\ WatcherOK(u, [s EXCEPT !.at = at], entries')
  BY <1>1, <1>8, EndOfRow
<1>10. /\ sub' \in [Watcher -> Subscription]
       /\ sub'[u] = [s EXCEPT !.at = at] /\ \A w \in Watcher : w # u => sub'[w] = sub[w]
  BY <1>4, <1>9, SubWritten
<1>11. ASSUME NEW w \in Watcher, w # u PROVE WatcherOK(w, sub[w], entries')
  <2>1. SameFor(w, entries, entries')
    BY <1>7, <1>11 DEF SameFor
  <2> QED
    BY <2>1, WatcherIs, OthersUnmoved
<1> QED
  BY <1>9, <1>10, <1>11, AllStreams

\* Sealing an entry closes who is registered with it.
LEMMA StreamsSealed == ASSUME StreamInv, HotInv', FinalizeSeal PROVE StreamInv'
<1> DEFINE e == seal.entry
           x == [lines |-> <<>>, sealed |-> TRUE, subs |-> {}]
<1>1. e \in 1..Len(entries) /\ HotTyped
  BY DEF FinalizeSeal, StreamInv, HotInv, HotTyped
<1>2. /\ entries' = [entries EXCEPT ![e] = x]
      /\ sub' = [w \in Watcher |-> IF w \in entries[e].subs
                                   THEN [sub[w] EXCEPT !.closed = TRUE, !.wake = TRUE] ELSE sub[w]]
  BY DEF FinalizeSeal
<1>3. x \in HotEntry /\ x.subs = {} /\ x.sealed
  <2>1. <<>> \in Seq(LineNo)
    OBVIOUS
  <2> QED
    BY <2>1 DEF HotEntry
<1> HIDE DEF x, e
<1>4. /\ Len(entries') = Len(entries) /\ entries'[e] = x
      /\ \A k \in 1..Len(entries) : k # e => entries'[k] = entries[k]
  <2>1. x \in HotEntry /\ entries' = [entries EXCEPT ![e] = x]
    BY <1>2, <1>3
  <2> QED
    BY <1>1, <2>1, EntryWritten
<1>5. ASSUME NEW w \in Watcher, NEW s \in Subscription,
             s.at = sub[w].at, s.entry = sub[w].entry, s.got = sub[w].got, s.batch = sub[w].batch,
             s.buf = sub[w].buf, s.from = sub[w].from, s.fell <=> sub[w].fell
      PROVE  WatcherOK(w, s, entries')
  <2>1. WatcherOK(w, sub[w], entries)
    BY WatcherIs
  <2>2. PICK first \in 0..sub[w].from : Row(Delivered(sub[w]), first) /\ UpToDate(w, sub[w], entries, first)
    BY <2>1 DEF WatcherOK
  <2>3. Delivered(s) = Delivered(sub[w])
    BY <1>5 DEF Delivered
  <2>4. UpToDate(w, s, entries', first)
    BY <1>3, <1>4, <1>5, <2>2, <2>3 DEF UpToDate
  <2>5. s.at \in Pumping /\ ~s.fell /\ ~entries'[s.entry].sealed => w \in entries'[s.entry].subs
    <3>1. s.at \in Pumping => s.entry \in 1..Len(entries)
      BY <1>5, <2>1 DEF WatcherOK
    <3> QED
      BY <1>3, <1>4, <1>5, <2>1, <3>1 DEF WatcherOK
  <2> QED
    BY <1>4, <1>5, <2>1, <2>2, <2>3, <2>4, <2>5 DEF WatcherOK
<1>6. ASSUME NEW w \in Watcher PROVE sub'[w] \in Subscription /\ WatcherOK(w, sub'[w], entries')
  <2>1. sub[w] \in Subscription
    BY WatcherIs
  <2>2. CASE w \in entries[e].subs
    <3> DEFINE s == [sub[w] EXCEPT !.closed = TRUE, !.wake = TRUE]
    <3>1. /\ s \in Subscription /\ s.at = sub[w].at /\ s.entry = sub[w].entry /\ s.got = sub[w].got
          /\ s.batch = sub[w].batch /\ s.buf = sub[w].buf /\ s.from = sub[w].from /\ (s.fell <=> sub[w].fell)
      BY <2>1 DEF Subscription
    <3>2. sub'[w] = s
      BY <1>2, <2>2
    <3> HIDE DEF s
    <3> QED
      BY <1>5, <3>1, <3>2
  <2>3. CASE w \notin entries[e].subs
    <3>1. sub'[w] = sub[w]
      BY <1>2, <2>3
    <3> QED
      BY <1>5, <2>1, <3>1
  <2> QED
    BY <2>2, <2>3
<1>7. sub' \in [Watcher -> Subscription]
  BY <1>2, <1>6
<1> QED
  BY <1>6, <1>7, AllStreams

-----------------------------------------------------------------------------
\* push: as many lines as fit continue the ring, and it says whether all did.
PushedAs(s, b, from, fits) ==
  Pushed(s, b, from) = [s EXCEPT !.buf = s.buf \o [i \in 1..fits |-> from + i],
                                 !.fell = fits < Len(b), !.wake = TRUE]

LEMMA WhatIsPushed ==
  ASSUME NEW s \in Subscription, NEW b \in Seq(LineNo), NEW from \in Nat
  PROVE  \E fits \in 0..Len(b) : PushedAs(s, b, from, fits)
<1> DEFINE k == IF Len(s.buf) >= RingCap THEN 0
                   ELSE IF Len(b) <= RingCap - Len(s.buf) THEN Len(b) ELSE RingCap - Len(s.buf)
<1>1. s.buf \in Seq(Nat)
  BY DEF Subscription
<1>2. Len(s.buf) \in Nat /\ Len(b) \in Nat /\ RingCap \in Nat
  BY <1>1, LogBoundsAssumption
<1>3. k \in 0..Len(b)
  BY <1>2
<1>4. PushedAs(s, b, from, k)
  BY DEF Pushed, PushedAs
<1> HIDE DEF k
<1> QED
  BY <1>3, <1>4

\* A row that goes on where it stopped.
LEMMA RowGoesOn ==
  ASSUME NEW a \in Seq(Nat), NEW first \in Nat, Row(a, first), NEW fits \in Nat,
         NEW c \in Seq(Nat), Len(c) = fits, \A i \in 1..fits : c[i] = first + Len(a) + i
  PROVE  Row(a \o c, first) /\ Len(a \o c) = Len(a) + fits
<1>1. /\ Len(a \o c) = Len(a) + Len(c)
      /\ \A i \in 1..(Len(a) + Len(c)) : (a \o c)[i] = IF i <= Len(a) THEN a[i] ELSE c[i - Len(a)]
  BY ConcatProperties
<1>2. ASSUME NEW i \in 1..(Len(a) + Len(c)) PROVE (a \o c)[i] = first + i
  <2>1. CASE i <= Len(a)
    BY <1>1, <2>1 DEF Row
  <2>2. CASE ~(i <= Len(a))
    <3>1. i - Len(a) \in 1..fits /\ (a \o c)[i] = c[i - Len(a)]
      BY <1>1, <2>2
    <3>2. c[i - Len(a)] = first + Len(a) + (i - Len(a))
      BY <3>1
    <3> QED
      BY <3>1, <3>2
  <2> QED
    BY <2>1, <2>2
<1> QED
  BY <1>1, <1>2 DEF Row

\* A subscriber the batch is pushed to: it is up to date, or it is cut off.
LEMMA PushedOK ==
  ASSUME NEW w, NEW s, NEW es, NEW fs, WatcherOK(w, s, es), Len(es) \in Nat, NEW e \in 1..Len(es), w \in es[e].subs,
         es[e].lines \in Seq(LineNo), NEW b \in Seq(LineNo),
         Len(fs) = Len(es), fs[e].lines = es[e].lines \o b, fs[e].sealed <=> es[e].sealed,
         \A k \in 1..Len(es) : k # e => fs[k] = es[k],
         w \in fs[e].subs <=> ~Pushed(s, b, Len(es[e].lines)).fell
  PROVE  Pushed(s, b, Len(es[e].lines)) \in Subscription /\ WatcherOK(w, Pushed(s, b, Len(es[e].lines)), fs)
<1> DEFINE from == Len(es[e].lines)
<1>1. s \in Subscription /\ from \in Nat /\ Len(b) \in Nat
  BY DEF WatcherOK
<1>2. PICK first \in 0..s.from : Row(Delivered(s), first) /\ UpToDate(w, s, es, first)
  BY DEF WatcherOK
<1>3. /\ e = s.entry /\ s.at \in Pumping \cup {"unregister"} /\ ~es[e].sealed
      /\ first + Len(Delivered(s)) = from
  BY <1>2 DEF UpToDate
<1>4. Len(fs[e].lines) = from + Len(b)
  BY ConcatProperties
<1> HIDE DEF from
<1>5. PICK fits \in 0..Len(b) : PushedAs(s, b, from, fits)
  BY <1>1, WhatIsPushed
<1>6. PICK c \in Seq(Nat) : c = [i \in 1..fits |-> from + i]
  <2>1. [i \in 1..fits |-> from + i] \in Seq(Nat)
    BY <1>1
  <2> QED
    BY <2>1, Zenon
<1>7. Len(c) = fits /\ \A i \in 1..fits : c[i] = from + i
  BY <1>6
<1>8. s.got \in Seq(Nat) /\ s.batch \in Seq(Nat) /\ s.buf \in Seq(Nat) /\ Delivered(s) \in Seq(Nat)
  BY <1>1, DeliveredTyped
<1>9. PICK t \in Seq(Nat) : t = s.buf \o c
  <2>1. s.buf \o c \in Seq(Nat)
    BY <1>8, ConcatProperties
  <2> QED
    BY <2>1, Zenon
<1>10. PICK fell \in BOOLEAN : fell <=> fits < Len(b)
  OBVIOUS
<1> DEFINE x == [s EXCEPT !.buf = t, !.fell = fell, !.wake = TRUE]
<1>11. Pushed(s, b, from) = x
  <2>1. fell = (fits < Len(b))
    BY <1>10
  <2> QED
    BY <1>5, <1>6, <1>9, <2>1, Zenon DEF PushedAs
<1>12. /\ x \in Subscription /\ x.at = s.at /\ x.entry = s.entry /\ x.got = s.got /\ x.batch = s.batch
       /\ x.buf = t /\ x.from = s.from /\ (x.fell <=> fell)
  BY <1>1 DEF Subscription
<1> HIDE DEF x
<1>13. Delivered(x) = Delivered(s) \o c
  <2>1. s.got \o s.batch \in Seq(Nat)
    BY <1>8, ConcatProperties
  <2>2. (s.got \o s.batch) \o (s.buf \o c) = ((s.got \o s.batch) \o s.buf) \o c
    BY <1>8, <2>1, Regrouped
  <2> QED
    BY <1>9, <1>12, <2>2, Zenon DEF Delivered
<1>14. first \in Nat /\ s.from \in Nat
  BY <1>1, <1>2 DEF Subscription
<1>15. Row(Delivered(x), first) /\ Len(Delivered(x)) = Len(Delivered(s)) + fits
  <2>1. \A i \in 1..fits : c[i] = first + Len(Delivered(s)) + i
    BY <1>3, <1>7
  <2>2. PICK a \in Seq(Nat) : a = Delivered(s)
    BY <1>8, Zenon
  <2>3. Row(a, first) /\ \A i \in 1..fits : c[i] = first + Len(a) + i
    BY <1>2, <2>1, <2>2
  <2>4. fits \in Nat
    BY <1>1
  <2>5. Row(a \o c, first) /\ Len(a \o c) = Len(a) + fits
    BY <1>7, <1>14, <2>3, <2>4, RowGoesOn
  <2> QED
    BY <1>13, <2>2, <2>5
<1>16. w \in fs[e].subs <=> fits = Len(b)
  BY <1>1, <1>10, <1>11, <1>12 DEF from
<1>17. UpToDate(w, x, fs, first)
  <2> SUFFICES ASSUME NEW k \in 1..Len(fs), w \in fs[k].subs
               PROVE  /\ k = x.entry /\ x.at \in Pumping \cup {"unregister"} /\ ~fs[k].sealed
                      /\ first + Len(Delivered(x)) = Len(fs[k].lines)
    BY DEF UpToDate
  <2>1. k = e
    BY <1>2, <1>3 DEF UpToDate
  <2>2. first + Len(Delivered(x)) = from + Len(b)
    <3>1. PICK n \in Nat : n = Len(Delivered(s))
      BY <1>8
    <3>2. fits = Len(b)
      BY <1>16, <2>1
    <3>3. first + n = from /\ Len(Delivered(x)) = n + Len(b)
      BY <1>3, <1>15, <3>1, <3>2 DEF from
    <3>4. \A m \in Nat : first + (n + m) = (first + n) + m
      BY <1>14
    <3> QED
      BY <1>1, <3>3, <3>4, Zenon
  <2> QED
    BY <1>3, <1>4, <1>12, <2>1, <2>2
<1>18. /\ x.at \in Unsubscribed => x.got = <<>> /\ x.batch = <<>> /\ x.buf = <<>>
       /\ x.at \in {"take", "wait"} => x.batch = <<>>
       /\ x.entry \in 1..Len(fs)
  <2>1. x.at \notin Unsubscribed
    BY <1>3, <1>12 DEF Unsubscribed, Pumping
  <2> QED
    BY <1>3, <1>12, <2>1 DEF WatcherOK
<1>19. ~x.fell => w \in fs[x.entry].subs
  BY <1>1, <1>3, <1>10, <1>12, <1>16
<1>20. WatcherOK(w, x, fs)
  BY <1>2, <1>12, <1>15, <1>17, <1>18, <1>19 DEF WatcherOK
<1> QED
  BY <1>11, <1>12, <1>20 DEF from

\* A watcher that is not registered with the entry that lines go to.
OtherThan(w, e, es, fs) ==
  /\ w \notin es[e].subs /\ w \notin fs[e].subs
  /\ Len(fs) = Len(es) /\ (fs[e].sealed <=> es[e].sealed)
  /\ \A k \in 1..Len(es) : k # e => fs[k] = es[k]

LEMMA UnregisteredOK ==
  ASSUME NEW w, NEW s, NEW es, NEW fs, WatcherOK(w, s, es), NEW e \in 1..Len(es), OtherThan(w, e, es, fs)
  PROVE  WatcherOK(w, s, fs)
<1>0. /\ w \notin es[e].subs /\ w \notin fs[e].subs
      /\ Len(fs) = Len(es) /\ (fs[e].sealed <=> es[e].sealed)
      /\ \A k \in 1..Len(es) : k # e => fs[k] = es[k]
  BY DEF OtherThan
<1>1. PICK first \in 0..s.from : Row(Delivered(s), first) /\ UpToDate(w, s, es, first)
  BY DEF WatcherOK
<1>2. UpToDate(w, s, fs, first)
  BY <1>0, <1>1 DEF UpToDate
<1>3. s.at \in Pumping /\ ~s.fell /\ ~fs[s.entry].sealed => w \in fs[s.entry].subs
  <2>1. s.at \in Pumping => s.entry \in 1..Len(es)
    BY DEF WatcherOK
  <2> QED
    BY <1>0, <2>1 DEF WatcherOK
<1> QED
  BY <1>0, <1>1, <1>2, <1>3 DEF WatcherOK

LEMMA LinesPushed == ASSUME StreamInv, HotInv', NEW f \in Flushers, AppendLines(f) PROVE StreamInv'
<1> DEFINE e == flush[f].entry
           b == flush[f].batch
           from == Len(entries[e].lines)
<1>1. /\ flush[f].at = "lock" /\ e \in 1..Len(entries) /\ b \in Seq(LineNo) /\ HotTyped
      /\ entries[e] \in HotEntry /\ Len(entries) \in Nat
  BY DEF AppendLines, StreamInv, HotInv, HotTyped, Flush
<1>2. entries[e].lines \in Seq(LineNo) /\ entries[e].subs \in SUBSET Watcher
  BY <1>1 DEF HotEntry
<1>3. CASE entries[e].sealed
  <2>1. UNCHANGED <<entries, sub>>
    BY <1>3 DEF AppendLines
  <2> QED
    BY <2>1, StreamsRest
<1>4. CASE ~entries[e].sealed
  <2> DEFINE live == {u \in entries[e].subs : ~Pushed(sub[u], b, from).fell}
             lines == entries[e].lines \o b
  <2>1. /\ entries' = [entries EXCEPT ![e].lines = lines, ![e].subs = live]
        /\ sub' = [u \in Watcher |-> IF u \in entries[e].subs THEN Pushed(sub[u], b, from) ELSE sub[u]]
    BY <1>4, Zenon DEF AppendLines
  <2>2. lines \in Seq(LineNo) /\ live \in SUBSET Watcher
    BY <1>1, <1>2, ConcatProperties
  <2>3. \A w \in Watcher : w \in live <=> w \in entries[e].subs /\ ~Pushed(sub[w], b, from).fell
    OBVIOUS
  <2> HIDE DEF lines, live
  <2> DEFINE x == [entries[e] EXCEPT !.lines = lines, !.subs = live]
  <2>4. x \in HotEntry /\ x.lines = lines /\ x.subs = live /\ (x.sealed <=> entries[e].sealed)
    BY <1>1, <2>2 DEF HotEntry
  <2>5. entries' = [entries EXCEPT ![e] = x]
    BY <2>1, Zenon
  <2> HIDE DEF x, e, b, from
  <2>6. /\ Len(entries') = Len(entries) /\ entries'[e] = x
        /\ \A k \in 1..Len(entries) : k # e => entries'[k] = entries[k]
    <3>1. x \in HotEntry
      BY <2>4
    <3> QED
      BY <1>1, <2>5, <3>1, EntryWritten
  <2>7. ASSUME NEW w \in Watcher PROVE sub'[w] \in Subscription /\ WatcherOK(w, sub'[w], entries')
    <3>1. sub[w] \in Subscription /\ WatcherOK(w, sub[w], entries)
      BY WatcherIs
    <3>2. CASE w \in entries[e].subs
      <4>1. /\ entries'[e].lines = entries[e].lines \o b /\ (entries'[e].sealed <=> entries[e].sealed)
            /\ w \in entries'[e].subs <=> ~Pushed(sub[w], b, Len(entries[e].lines)).fell
        BY <2>3, <2>4, <2>6, <3>2 DEF lines, from
      <4>2. /\ Pushed(sub[w], b, Len(entries[e].lines)) \in Subscription
            /\ WatcherOK(w, Pushed(sub[w], b, Len(entries[e].lines)), entries')
        BY <1>1, <1>2, <2>6, <3>1, <3>2, <4>1, PushedOK
      <4>3. sub'[w] = Pushed(sub[w], b, Len(entries[e].lines))
        BY <2>1, <3>2 DEF from
      <4> QED
        BY <4>2, <4>3
    <3>3. CASE w \notin entries[e].subs
      <4>1. sub'[w] = sub[w]
        BY <2>1, <3>3
      <4>2. w \notin entries'[e].subs
        BY <2>3, <2>4, <2>6, <3>3
      <4>3. WatcherOK(w, sub[w], entries')
        <5>1. OtherThan(w, e, entries, entries')
          BY <2>4, <2>6, <3>3, <4>2 DEF OtherThan
        <5> QED
          BY <1>1, <3>1, <5>1, UnregisteredOK
      <4> QED
        BY <3>1, <4>1, <4>3
    <3> QED
      BY <3>2, <3>3
  <2>8. sub' \in [Watcher -> Subscription]
    BY <2>1, <2>7
  <2> QED
    BY <2>7, <2>8, AllStreams
<1> QED
  BY <1>3, <1>4

LEMMA StreamInit == ASSUME LogInit PROVE StreamInv
<1>1. HotInv /\ entries = <<>> /\ sub = [u \in Watcher |-> NoSub]
  BY HotInit DEF LogInit
<1>2. /\ NoSub \in Subscription /\ NoSub.at = "none"
      /\ NoSub.batch = <<>> /\ NoSub.buf = <<>> /\ NoSub.got = <<>>
  BY DEF NoSub, Subscription, Unsubscribed, Pumping
<1>3. ASSUME NEW u \in Watcher PROVE WatcherOK(u, sub[u], entries)
  <2>1. Apart(u, entries)
    BY <1>1 DEF Apart
  <2> QED
    BY <1>1, <1>2, <2>1, BeginsOK DEF Unsubscribed
<1> QED
  BY <1>1, <1>2, <1>3 DEF StreamInv

LEMMA StreamStep == ASSUME StreamInv, [LogNext]_logVars PROVE StreamInv'
<1>1. HotInv'
  BY HotStep DEF StreamInv
<1>2. ASSUME NEW f \in Flushers,
             FlushTake(f) \/ FlushFails(f) \/ AppendGet(f) \/ AppendCheck(f) \/ AppendLines(f)
      PROVE  StreamInv'
  <2>1. CASE FlushTake(f) \/ FlushFails(f) \/ AppendCheck(f)
    BY <1>1, <2>1, StreamsRest DEF FlushTake, FlushFails, AppendCheck
  <2> QED
    BY <1>1, <1>2, <2>1, StreamsSeeAppendGet, LinesPushed
<1>3. CASE Line \/ FinalizeStart \/ FinalizeCopy \/ FinalizePut \/ FinalizeForget \/ UNCHANGED logVars
  BY <1>1, <1>3, StreamsRest
     DEF Line, FinalizeStart, FinalizeCopy, FinalizePut, FinalizeForget, logVars
<1>4. CASE FinalizeSeal
  BY <1>1, <1>4, StreamsSealed
<1>5. ASSUME NEW u \in Watcher,
             \/ ReadPage(u) \/ Resume(u) \/ SubscribeGet(u) \/ SubscribeCheck(u) \/ SubscribeCreate(u)
             \/ SubscribeLock(u) \/ Replay(u)
      PROVE  StreamInv'
  BY <1>1, <1>5, PageRead, ReaderReturns, EntryAsked, EntryCreated, WatcherRegisters, LogReplayed
<1>6. ASSUME NEW u \in Watcher,
             \/ PumpTake(u) \/ PumpSend(u) \/ PumpWake(u) \/ Leave(u) \/ Unregister(u) \/ ForgetIdle(u)
      PROVE  StreamInv'
  BY <1>1, <1>6, PumpTakes, PumpSends, PumpWakes, WatcherLeaves, WatcherUnregisters, IdleForgotten
<1> QED
  BY <1>2, <1>3, <1>4, <1>5, <1>6 DEF LogNext

\* StreamsWhole: what a subscription delivers is a row from its position on, and
\* as long as it has not fallen behind and the log is live it has every line.
THEOREM StreamsInARow == LogInit /\ [][LogNext]_logVars => []StreamsWhole
<1> QED
  BY StreamInit, StreamStep, StreamsFromInv, PTL
=============================================================================
