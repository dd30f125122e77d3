---------------------------- MODULE GitHubClient ----------------------------
(***************************************************************************)
(* Calls of internal/github with installation tokens of                    *)
(* internal/github/app.                                                    *)
(*                                                                         *)
(* The token cache is looked at under a lock, a miss mints without it, and *)
(* the minted token is put back under the lock again.  Every attempt of a  *)
(* call asks for a token, and between the attempts the client sleeps.      *)
(* What GitHub answers, and when, is its own choice.                       *)
(***************************************************************************)
EXTENDS Integers, FiniteSets

CONSTANTS Caller,          \* concurrent calls with one installation and scope
          MaxRetries,      \* Options.MaxRetries
          BaseBackoff, MaxBackoff,
          RefreshWindow,   \* refreshWindow
          TokenLife,       \* external: life of a minted token
          SlowestCall,     \* external: the longest one HTTP exchange takes
          NamedWait,       \* external: Retry-After or rate-limit resets, 0: none
          ListPages,       \* external: pages of a listing
          MaxPages,        \* maxPages of Paginate
          MaxHubClock      \* bound: the clock

ASSUME HubAssumption ==
  /\ {RefreshWindow, TokenLife, SlowestCall, MaxHubClock} \subseteq Nat
  /\ BaseBackoff \in Nat \ {0} /\ MaxBackoff >= BaseBackoff
  /\ SlowestCall <= RefreshWindow /\ RefreshWindow + SlowestCall < TokenLife

VARIABLES hubClock,
          tokenCache,      \* expiry of the cached token, 0: none
          calls            \* per caller: [at, since, tok, attempt, wake, page]

hubVars == <<hubClock, tokenCache, calls>>

FirstAttempt == [at |-> "token", since |-> 0, tok |-> 0, attempt |-> 0, wake |-> 0, page |-> 1]

HubInit ==
  /\ hubClock = 1 /\ tokenCache = 0
  /\ calls = [c \in Caller |-> [FirstAttempt EXCEPT !.at = "none"]]

\* An exchange under way ends in time; a sleeper wakes in time.
HubTick ==
  /\ hubClock < MaxHubClock
  /\ \A c \in Caller :
       /\ calls[c].at \in {"minting", "sending"} => hubClock - calls[c].since < SlowestCall
       /\ calls[c].at = "asleep" => hubClock < calls[c].wake
  /\ hubClock' = hubClock + 1
  /\ UNCHANGED <<tokenCache, calls>>

Call(c) ==
  /\ calls[c].at \in {"none", "over"}
  /\ calls' = [calls EXCEPT ![c] = [FirstAttempt EXCEPT !.since = hubClock]]
  /\ UNCHANGED <<hubClock, tokenCache>>

\* A slip to guard against: a token is handed out as long as it has not expired.
FreshUntilExpiry == hubClock < tokenCache

\* A cached token is handed out while more than the window is left.
CacheFresh == hubClock + RefreshWindow < tokenCache

Sending(c, tok) == calls' = [calls EXCEPT ![c].at = "sending", ![c].since = hubClock, ![c].tok = tok]

\* ScopedInstallationToken up to the unlock.
TakeToken(c) ==
  /\ calls[c].at = "token"
  /\ IF CacheFresh THEN Sending(c, tokenCache)
     ELSE calls' = [calls EXCEPT ![c].at = "minting", ![c].since = hubClock]
  /\ UNCHANGED <<hubClock, tokenCache>>

Over(c) == calls' = [calls EXCEPT ![c] = [FirstAttempt EXCEPT !.at = "over", !.page = 0]]

\* GitHub minted the token at some time of the exchange; it replaces whatever
\* another caller cached meanwhile.
KeepToken(c) ==
  /\ calls[c].at = "minting"
  /\ \E minted \in calls[c].since .. hubClock :
       /\ tokenCache' = minted + TokenLife
       /\ Sending(c, minted + TokenLife)
  /\ UNCHANGED hubClock

Least(a, b) == IF a < b THEN a ELSE b

\* Exponential and capped, unless GitHub named a wait, which is capped too.
Backoff(attempt, named) ==
  IF named > 0 THEN Least(named, MaxBackoff) ELSE Least(BaseBackoff * 2 ^ attempt, MaxBackoff)

\* A page arrives; Paginate asks for the next, up to its own limit, with a
\* call that counts its attempts anew.
Succeed(c) ==
  /\ calls[c].at = "sending"
  /\ IF calls[c].page < Least(ListPages, MaxPages)
     THEN calls' = [calls EXCEPT ![c] = [FirstAttempt EXCEPT !.page = calls[c].page + 1]]
     ELSE Over(c)
  /\ UNCHANGED <<hubClock, tokenCache>>

\* Another attempt after a wait, which asks for a token again.
TryAgain(c) ==
  IF calls[c].attempt >= MaxRetries THEN Over(c)
  ELSE \E named \in NamedWait :
         calls' = [calls EXCEPT ![c].at = "asleep", ![c].tok = 0, ![c].attempt = @ + 1,
                                ![c].wake = hubClock + Backoff(calls[c].attempt, named)]

\* 5xx, a rate limit or a transport error.
FailRetryably(c) ==
  /\ calls[c].at = "sending"
  /\ TryAgain(c)
  /\ UNCHANGED <<hubClock, tokenCache>>

\* What minting failed with, after retries of its own, comes back as this
\* attempt's error: unless it is permanent, Do sleeps and mints anew.
MintFails(c) ==
  /\ calls[c].at = "minting"
  /\ TryAgain(c) \/ Over(c)
  /\ UNCHANGED <<hubClock, tokenCache>>

FailForGood(c) ==
  /\ calls[c].at = "sending"
  /\ Over(c)
  /\ UNCHANGED <<hubClock, tokenCache>>

Wake(c) ==
  /\ calls[c].at = "asleep" /\ hubClock >= calls[c].wake
  /\ calls' = [calls EXCEPT ![c].at = "token"]
  /\ UNCHANGED <<hubClock, tokenCache>>

HubNext ==
  \/ HubTick
  \/ \E c \in Caller : \/ Call(c) \/ TakeToken(c) \/ KeepToken(c) \/ MintFails(c)
                       \/ Succeed(c) \/ FailRetryably(c) \/ FailForGood(c) \/ Wake(c)

(***************************************************************************)
(* A request that is on its way carries a token GitHub still accepts: the  *)
(* refresh window outlasts the slowest exchange, a slow mint included, and *)
(* no wait between attempts makes a token stale, since every attempt asks  *)
(* for one (ScopedInstallationToken, once, Do).                            *)
(***************************************************************************)
TokenOutlivesCall ==
  \A c \in Caller : calls[c].at = "sending" => hubClock < calls[c].tok
=============================================================================
