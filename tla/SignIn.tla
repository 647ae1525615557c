--------------------------------- MODULE SignIn ---------------------------------
(***************************************************************************)
(* The password of the web UI: setting it up once, signing in with it and  *)
(* changing it (web/auth.ts), the backoff that bounds guessing             *)
(* (web/throttle.ts) and the sessions (db/sessions.ts).  Every handler     *)
(* reads its request first and then runs without giving way, so each is    *)
(* one action; what matters is their order, the clock and restarts.        *)
(***************************************************************************)
EXTENDS Integers, Sequences, FiniteSets

CONSTANTS
  Browsers, Address,      \* Address[b]: what the server sees of b, all it keys waits by
  Passwords, NoPassword,
  CodeFromEnv,            \* whether BUTLER_SETUP_CODE is set
  SetupWindow, ClaimTtl, SessionTtl,
  FreeAttempts, BaseDelay, MaxDelay, ForgetAfter,
  MaxTime,                \* bound: the clock
  MaxTokens               \* bound: claims and sessions handed out

Addresses == {Address[b] : b \in Browsers}

ASSUME SignInAssumption ==
  /\ DOMAIN Address = Browsers /\ NoPassword \notin Passwords /\ CodeFromEnv \in BOOLEAN
  /\ {SetupWindow, ClaimTtl, SessionTtl, BaseDelay, MaxDelay, ForgetAfter} \subseteq Nat \ {0}
  /\ {FreeAttempts, MaxTime, MaxTokens} \subseteq Nat
  /\ BaseDelay <= MaxDelay /\ MaxDelay < ForgetAfter

VARIABLES
  now, startedAt,
  hash,         \* the password set
  claim,        \* the token of the setup claim and when it was handed out
  sessions,     \* the sessions table: token -> when it expires
  entries,      \* the throttle: by address, none or what it remembers
  cookie,       \* what each browser sends: its setup token and its session
  tokens,       \* how many tokens there have been (bounded)
  failed,       \* history: when each address failed since it was last let in
  proven        \* history: the sessions whose holder gave the password there is now

vars == <<now, startedAt, hash, claim, sessions, entries, cookie, tokens, failed, proven>>

NoToken == 0
NoClaim == [token |-> NoToken, at |-> 0]
Fresh == [failures |-> 0, blockedUntil |-> 0, seenAt |-> 0]

TypeOK ==
  /\ now \in 0 .. MaxTime /\ startedAt \in 0 .. now
  /\ hash \in Passwords \cup {NoPassword}
  /\ claim.token \in 0 .. tokens /\ claim.at \in 0 .. now
  /\ DOMAIN sessions \subseteq 1 .. tokens /\ proven \subseteq 1 .. tokens
  /\ \A s \in DOMAIN sessions : sessions[s] \in 0 .. MaxTime + SessionTtl
  /\ DOMAIN entries \subseteq Addresses
  /\ \A a \in DOMAIN entries : /\ entries[a].failures \in Nat \ {0} /\ entries[a].seenAt \in 0 .. now
                               /\ entries[a].blockedUntil \in 0 .. now + MaxDelay
  /\ \A b \in Browsers : cookie[b].setup \in 0 .. tokens /\ cookie[b].session \in 0 .. tokens
  /\ tokens \in 0 .. MaxTokens
  /\ \A a \in Addresses : failed[a] \in Seq(0 .. now)
  \* a claim is only ever pending while there is no password
  /\ hash # NoPassword => claim = NoClaim

--------------------------------------------------------------------------------
(***************************************************************************)
(* The throttle.                                                           *)
(***************************************************************************)
MinOf(x, y) == IF x < y THEN x ELSE y

\* What a failure past the allowance costs: doubled each time, up to the cap.
Delays[step \in Nat] ==
  IF step = 0 THEN BaseDelay ELSE MinOf(2 * Delays[step - 1], MaxDelay)
Delay(failures) == Delays[failures - FreeAttempts - 1]

\* retryAfterMs
Wait(a) == IF a \in DOMAIN entries /\ entries[a].blockedUntil > now
           THEN entries[a].blockedUntil - now ELSE 0

\* A faulty variant for mutation: an entry is forgotten as soon as it is idle.
RemembersShortly(entry) == entry.blockedUntil > now

Remembers(entry) == entry.seenAt >= now - ForgetAfter

OverAllowance(failures) == failures > FreeAttempts

\* recordFailure: what is idle is forgotten first, this address among it.
RecordFailure(a) ==
  LET kept == {x \in DOMAIN entries : Remembers(entries[x])}
      old == IF a \in kept THEN entries[a] ELSE Fresh
      n == old.failures + 1
      new == [failures |-> n, seenAt |-> now,
              blockedUntil |-> IF OverAllowance(n) THEN now + Delay(n) ELSE old.blockedUntil]
  IN /\ entries' = [x \in kept \cup {a} |-> IF x = a THEN new ELSE entries[x]]
     /\ failed' = [failed EXCEPT ![a] = Append(@, now)]

Clear(a) == /\ entries' = [x \in DOMAIN entries \ {a} |-> entries[x]]
            /\ failed' = [failed EXCEPT ![a] = <<>>]

--------------------------------------------------------------------------------
(***************************************************************************)
(* Sessions.                                                               *)
(***************************************************************************)
Keep(ids) == sessions' = [s \in ids |-> sessions[s]] /\ proven' = proven \cap ids

\* createSession, and the cookie it is sent in.
CreateSession(b) ==
  LET s == tokens + 1 IN
  /\ tokens < MaxTokens /\ tokens' = s
  /\ sessions' = [x \in DOMAIN sessions \cup {s} |-> IF x = s THEN now + SessionTtl ELSE sessions[x]]
  /\ proven' = proven \cup {s}
  /\ cookie' = [cookie EXCEPT ![b] = [setup |-> NoToken, session |-> s]]

Valid(s) == s \in DOMAIN sessions /\ sessions[s] >= now
Authenticated(b) == hash # NoPassword /\ Valid(cookie[b].session)

\* isSessionValid destroys what has expired, when it is asked about it.
Visit(b) ==
  /\ hash # NoPassword /\ cookie[b].session \in DOMAIN sessions /\ ~Valid(cookie[b].session)
  /\ Keep(DOMAIN sessions \ {cookie[b].session})
  /\ UNCHANGED <<now, startedAt, hash, claim, entries, cookie, tokens, failed>>

PruneSessions ==
  /\ \E s \in DOMAIN sessions : sessions[s] < now
  /\ Keep({s \in DOMAIN sessions : sessions[s] >= now})
  /\ UNCHANGED <<now, startedAt, hash, claim, entries, cookie, tokens, failed>>

Logout(b) ==
  /\ cookie[b].session # NoToken
  /\ Keep(DOMAIN sessions \ {cookie[b].session})
  /\ cookie' = [cookie EXCEPT ![b].session = NoToken]
  /\ UNCHANGED <<now, startedAt, hash, claim, entries, tokens, failed>>

--------------------------------------------------------------------------------
(***************************************************************************)
(* Setting up.                                                             *)
(***************************************************************************)
WindowOpen == now - startedAt < SetupWindow
Live == claim # NoClaim /\ now - claim.at <= ClaimTtl
Mine(b) == Live /\ cookie[b].setup = claim.token
CodeRequired == CodeFromEnv \/ ~WindowOpen

\* A faulty variant for mutation: a claim is handed to whoever asks.
HeldBySomeoneElseNever(b) == FALSE

HeldBySomeoneElse(b) == Live /\ cookie[b].setup # claim.token

\* claimSetup: the holder's token is good for as long again.
ClaimSetup(b) ==
  /\ hash = NoPassword /\ ~HeldBySomeoneElse(b)
  /\ IF claim # NoClaim /\ cookie[b].setup = claim.token
     THEN claim' = [claim EXCEPT !.at = now] /\ UNCHANGED <<tokens, cookie>>
     ELSE /\ tokens < MaxTokens /\ tokens' = tokens + 1
          /\ claim' = [token |-> tokens + 1, at |-> now]
          /\ cookie' = [cookie EXCEPT ![b].setup = tokens + 1]
  /\ UNCHANGED <<now, startedAt, hash, sessions, entries, failed, proven>>

CodeGuessed(b) ==
  /\ hash = NoPassword /\ Mine(b) /\ CodeRequired /\ Wait(Address[b]) = 0
  /\ RecordFailure(Address[b])
  /\ UNCHANGED <<now, startedAt, hash, claim, sessions, cookie, tokens, proven>>

\* completeSetup with an acceptable password, and the right code if one is due.
CompleteSetup(b, password) ==
  /\ hash = NoPassword /\ Mine(b) /\ (CodeRequired => Wait(Address[b]) = 0)
  /\ hash' = password /\ claim' = NoClaim
  /\ CreateSession(b)
  /\ UNCHANGED <<now, startedAt, entries, failed>>

--------------------------------------------------------------------------------
(***************************************************************************)
(* Signing in, and changing the password.                                  *)
(***************************************************************************)
Login(b, password) ==
  /\ Wait(Address[b]) = 0 /\ hash # NoPassword
  /\ IF password = hash
     THEN Clear(Address[b]) /\ CreateSession(b)
     ELSE RecordFailure(Address[b]) /\ UNCHANGED <<sessions, proven, cookie, tokens>>
  /\ UNCHANGED <<now, startedAt, hash, claim>>

\* A faulty variant for mutation: everybody stays signed in.
SparedAll(b) == DOMAIN sessions

\* destroyAllSessions spares the one that did the changing.
Spared(b) == DOMAIN sessions \cap {cookie[b].session}

ChangePassword(b, next) ==
  /\ Authenticated(b)
  /\ hash' = next
  /\ sessions' = [s \in Spared(b) |-> sessions[s]] /\ proven' = {cookie[b].session}
  /\ UNCHANGED <<now, startedAt, claim, entries, cookie, tokens, failed>>

--------------------------------------------------------------------------------
\* The claim, the code and the throttle are memory.
Restart ==
  /\ startedAt' = now /\ claim' = NoClaim
  /\ entries' = [a \in {} |-> Fresh] /\ failed' = [a \in Addresses |-> <<>>]
  /\ UNCHANGED <<now, hash, sessions, cookie, tokens, proven>>

Tick ==
  /\ now < MaxTime /\ now' = now + 1
  /\ UNCHANGED <<startedAt, hash, claim, sessions, entries, cookie, tokens, failed, proven>>

Init ==
  /\ now = 0 /\ startedAt = 0 /\ hash = NoPassword /\ claim = NoClaim
  /\ sessions = [s \in {} |-> 0] /\ proven = {}
  /\ entries = [a \in {} |-> Fresh] /\ failed = [a \in Addresses |-> <<>>]
  /\ cookie = [b \in Browsers |-> [setup |-> NoToken, session |-> NoToken]] /\ tokens = 0

Next ==
  \/ \E b \in Browsers :
       \/ ClaimSetup(b) \/ CodeGuessed(b) \/ Visit(b) \/ Logout(b)
       \/ \E password \in Passwords :
            CompleteSetup(b, password) \/ Login(b, password) \/ ChangePassword(b, password)
  \/ PruneSessions \/ Restart \/ Tick

Spec == Init /\ [][Next]_vars

--------------------------------------------------------------------------------
(***************************************************************************)
(* Properties.                                                             *)
(***************************************************************************)
\* How many failures an address can pile up within the time after which it is
\* forgotten: the free ones, the one that starts the waiting, and one more for
\* each wait that fits.
Waited[n \in Nat] == IF n = 0 THEN 0 ELSE Waited[n - 1] + Delay(FreeAttempts + n)
Allowance == FreeAttempts + 1 + Cardinality({n \in 1 .. ForgetAfter : Waited[n] <= ForgetAfter})

\* Guessing is bounded: between two restarts, and as long as it is not let in, an
\* address is heard with a wrong password at most Allowance times in any stretch
\* of time after which an idle address is forgotten (throttle.ts: waits, the cap
\* and forgetting taken together).
GuessesAreBounded ==
  \A a \in Addresses : \A i \in DOMAIN failed[a] :
    i + Allowance \in DOMAIN failed[a] => failed[a][i + Allowance] - failed[a][i] > ForgetAfter

\* Nobody waits who has not used up the free attempts within the time remembered
\* at that address, and nobody longer than the cap after the last failure
\* (throttle.ts FREE_ATTEMPTS, MAX_DELAY_MS, FORGET_AFTER_MS).
WaitsAreEarned ==
  \A a \in Addresses : Wait(a) > 0 =>
    LET n == Len(failed[a]) IN
    /\ n > FreeAttempts /\ now + Wait(a) <= failed[a][n] + MaxDelay
    /\ \A i \in n - FreeAttempts .. n - 1 : failed[a][i + 1] - failed[a][i] <= ForgetAfter

\* The throttle is hard on guessing and easy on a slip: it bounds what an address
\* may try and makes nobody wait who has not earned it (throttle.ts retryAfter,
\* recordFailure, recordSuccess and clearStale over any series of attempts).
ThrottleIsFair == GuessesAreBounded /\ WaitsAreEarned

\* Whoever is signed in has given the password there is now, or was signed in
\* when changing it: a change leaves nobody else signed in (auth.ts changePassword,
\* sessions.ts destroyAllSessions).
SessionsAreOfThisPassword == DOMAIN sessions \subseteq proven

\* While one browser holds the setup claim no other can get it, nor set the
\* password (auth.ts claimSetup "nobody else can submit a password").
ClaimIsExclusive ==
  [][\A b, c \in Browsers : Mine(b) /\ ~Mine(c) =>
       /\ cookie'[c].setup # claim'.token \/ claim' = NoClaim
       /\ cookie'[c].session = cookie[c].session]_vars

=================================================================================
