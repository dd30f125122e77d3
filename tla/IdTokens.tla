------------------------------ MODULE IdTokens ------------------------------
(***************************************************************************)
(* The ID tokens of internal/oidc and the job tokens of internal/jobtoken  *)
(* that buy them.                                                          *)
(*                                                                         *)
(* A request is verified, looked up, dated and signed in that order, and   *)
(* the keyring may rotate, the job may move to its next attempt and the    *)
(* clock may move between any two of them.  The keyring's file is written  *)
(* by a rotation and read by a start.                                      *)
(***************************************************************************)
EXTENDS Integers

CONSTANTS Asker,            \* concurrent requests for an ID token
          IdTokenTTL,       \* idTokenTTL
          JobTokenTTL,      \* jobTokenTTL plus the signer's grace
          LastAttempt,       \* bound: attempts of the job
          MaxRotations,     \* bound: rotations
          MaxRingFaults,    \* bound: failed saves and restarts
          MaxTokenClock     \* bound: the clock

ASSUME IdTokensAssumption == {IdTokenTTL, JobTokenTTL} \subseteq Nat

VARIABLES ring,             \* Keyring.keys: [kid, retired], retired = 0: not retired;
                            \* kids are numbered, so that their order is the slice's
          keyFile,          \* what the file holds
          savedKids,        \* kids a save has ever made durable
          rotations, ringFaults, tokenClock,
          jobAttempt,       \* the attempt of the job's row
          jobToken,         \* the job token last minted: [attempt, exp]
          asks,             \* per request: [at, tok, iat]
          idTokens          \* ID tokens that have not expired: [kid, exp]

tokenVars == <<ring, keyFile, savedKids, rotations, ringFaults, tokenClock,
               jobAttempt, jobToken, asks, idTokens>>

NoAsk == [at |-> "none", tok |-> [attempt |-> 0, exp |-> 0], iat |-> 0]

\* NewKeyring on an empty store: one key, made durable before it is used.
TokenInit ==
  /\ ring = {[kid |-> 1, retired |-> 0]}
  /\ keyFile = ring /\ savedKids = {1}
  /\ rotations = 0 /\ ringFaults = 0 /\ tokenClock = 1
  /\ jobAttempt = 1 /\ jobToken = NoAsk.tok /\ idTokens = {}
  /\ asks = [a \in Asker |-> NoAsk]

Kids(keys) == {e.kid : e \in keys}
Usable(e) == e.retired = 0 \/ tokenClock - e.retired <= IdTokenTTL

\* The last key that is not retired signs.
Unretired == {e \in ring : e.retired = 0}
Active == (CHOOSE e \in Unretired : \A d \in Unretired : d.kid <= e.kid).kid

JWKS == Kids({e \in ring : Usable(e)})

RetiredNow == {IF e.kid = Active THEN [e EXCEPT !.retired = tokenClock] ELSE e : e \in ring}
NewKey == [kid |-> rotations + 2, retired |-> 0]

\* A slip to guard against: whatever their tokens, the retired keys but the last are dropped.
RotatedKeepsOne == {e \in RetiredNow : e.kid = Active} \cup {NewKey}

\* The active key is retired now, and keys whose tokens cannot be valid go.
Rotated == {e \in RetiredNow : Usable(e)} \cup {NewKey}

SaveKeys(keys) == keyFile' = keys /\ savedKids' = savedKids \cup Kids(keys)

\* A failed save is returned to the caller, and the new key signs all the same.
Rotate ==
  /\ rotations < MaxRotations
  /\ rotations' = rotations + 1
  /\ ring' = Rotated
  /\ \/ SaveKeys(ring') /\ UNCHANGED ringFaults
     \/ /\ ringFaults < MaxRingFaults /\ ringFaults' = ringFaults + 1
        /\ UNCHANGED <<keyFile, savedKids>>
  /\ UNCHANGED <<tokenClock, jobAttempt, jobToken, asks, idTokens>>

RestartKeyring ==
  /\ ringFaults < MaxRingFaults /\ ringFaults' = ringFaults + 1
  /\ ring' = keyFile
  /\ asks' = [a \in Asker |-> NoAsk]
  /\ UNCHANGED <<keyFile, savedKids, rotations, tokenClock, jobAttempt, jobToken, idTokens>>

TokenTick ==
  /\ tokenClock < MaxTokenClock /\ tokenClock' = tokenClock + 1
  /\ idTokens' = {t \in idTokens : t.exp > tokenClock}
  /\ UNCHANGED <<ring, keyFile, savedKids, rotations, ringFaults, jobAttempt, jobToken, asks>>

\* jobTokenLookup: the row's own attempt, bounded by its timeout.
LookupJob == [attempt |-> jobAttempt, exp |-> tokenClock + JobTokenTTL]

MintJob ==
  /\ jobToken' = LookupJob
  /\ UNCHANGED <<ring, keyFile, savedKids, rotations, ringFaults, tokenClock, jobAttempt, asks, idTokens>>

\* The job's attempt ends and is retried, in the scheduler.
RetryJob ==
  /\ jobAttempt < LastAttempt /\ jobAttempt' = jobAttempt + 1
  /\ UNCHANGED <<ring, keyFile, savedKids, rotations, ringFaults, tokenClock, jobToken, asks, idTokens>>

Unexpired(tok) == tokenClock < tok.exp

\* The middleware: a job token that has not expired.
Verify(a) ==
  /\ asks[a].at = "none"
  /\ Unexpired(jobToken)
  /\ asks' = [asks EXCEPT ![a] = [@ EXCEPT !.at = "verified", !.tok = jobToken]]
  /\ UNCHANGED <<ring, keyFile, savedKids, rotations, ringFaults, tokenClock, jobAttempt, jobToken, idTokens>>

\* oidcLookup refuses a token of another attempt than the row's.
LookupSubject(a) ==
  /\ asks[a].at = "verified"
  /\ asks' = [asks EXCEPT ![a] = IF @.tok.attempt = jobAttempt THEN [@ EXCEPT !.at = "known"] ELSE NoAsk]
  /\ UNCHANGED <<ring, keyFile, savedKids, rotations, ringFaults, tokenClock, jobAttempt, jobToken, idTokens>>

\* Issue reads the clock, and only then the key.
DateToken(a) ==
  /\ asks[a].at = "known"
  /\ asks' = [asks EXCEPT ![a] = [@ EXCEPT !.at = "dated", !.iat = tokenClock]]
  /\ UNCHANGED <<ring, keyFile, savedKids, rotations, ringFaults, tokenClock, jobAttempt, jobToken, idTokens>>

SignToken(a) ==
  /\ asks[a].at = "dated"
  /\ idTokens' = idTokens \cup {[kid |-> Active, exp |-> asks[a].iat + IdTokenTTL]}
  /\ asks' = [asks EXCEPT ![a] = NoAsk]
  /\ UNCHANGED <<ring, keyFile, savedKids, rotations, ringFaults, tokenClock, jobAttempt, jobToken>>

TokenNext ==
  \/ Rotate \/ RestartKeyring \/ TokenTick \/ MintJob \/ RetryJob
  \/ \E a \in Asker : Verify(a) \/ LookupSubject(a) \/ DateToken(a) \/ SignToken(a)

(***************************************************************************)
(* An ID token signed with a key that was ever made durable can be         *)
(* verified until it expires: its key is served in the JWKS, across        *)
(* rotations, failed saves and restarts (rotate, JWKS, Issue; the order in *)
(* which Issue reads the clock and the key is what makes it so).           *)
(***************************************************************************)
IdTokensVerify ==
  \A t \in idTokens : t.kid \in savedKids => t.kid \in JWKS
=============================================================================
