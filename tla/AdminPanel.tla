------------------------------- MODULE AdminPanel -------------------------------
(***************************************************************************)
(* The whitelist panel, src/admin/app.ts: its sessions and the window of   *)
(* failed logins, both in the process's memory, in front of the            *)
(* transactions of Whitelist.                                              *)
(*                                                                         *)
(* A request's hook and its synchronous handler are one step; one that     *)
(* writes to the whitelist begins a transaction.  A request that the hook  *)
(* refuses before it looks at credentials (plain HTTP, a cross-site form,  *)
(* a wrong form token) changes nothing and is left out.                    *)
(***************************************************************************)
EXTENDS Whitelist, Functions

CONSTANTS
  Scripts,      \* the clients that are scripts; the others are the panel's
  Batches,      \* what db:whitelist-batch may be given
  Ips,          \* addresses of browsers
  MaxSessions,  \* maximumSessions
  SessionTtl,   \* sessionTtlSeconds
  MaxFailures,  \* failures that block
  Window,       \* how long failures are counted together
  BlockFor,     \* how long an address is blocked
  MaxTime,      \* bound: the last instant
  MaxRequests,  \* bound: sessions opened and transactions begun
  MaxRestarts   \* bound: restarts of the panel

ASSUME PanelAssumption ==
  /\ Scripts \subseteq Clients
  /\ Batches \subseteq Seq({Upsert(phone, form) : phone \in Phones, form \in Forms}) \ {<<>>}
  /\ MaxSessions \in Nat \ {0} /\ SessionTtl \in Nat \ {0}
  /\ MaxFailures \in Nat \ {0} /\ Window \in Nat \ {0}
  /\ BlockFor \in Nat /\ BlockFor >= Window
  /\ MaxTime \in Nat /\ MaxRequests \in Nat /\ MaxRestarts \in Nat

VARIABLES
  sessions,  \* the Map of sessions: token -> when it expires
  buckets,   \* loginBuckets: ip -> bucket, NoBucket if there is none
  now,       \* Date.now()
  issued,    \* issued[t]: when token t was given, and whether it was ended
  guesses,   \* guesses[ip]: when wrong passwords were answered as such, of late
  restarts

panel == <<sessions, buckets, issued, guesses, restarts>>
vars == <<whitelist, panel, now>>

NoBucket == [failures |-> 0, resetAt |-> 0, blockedUntil |-> 0]

MoreRequests == Len(issued) + begun < MaxRequests

-----------------------------------------------------------------------------
Youngest(list, n) == SubSeq(list, IF Len(list) > n THEN Len(list) - n + 1 ELSE 1, Len(list))

Live == {t \in DOMAIN sessions : sessions[t] > now}

\* mutant: the newest session makes room
PrunedNewest == {t \in Live : Cardinality({u \in Live : u < t}) < MaxSessions - 1}

\* pruneSessions; tokens are numbered as they are given, so a Map has the oldest first.
Pruned == {t \in Live : Cardinality({u \in Live : u > t}) < MaxSessions - 1}

Holds(token) == token \in Live
Without(token) == Restrict(sessions, DOMAIN sessions \ {token})

\* A bucket whose window is over is replaced, not counted on.
StaleBucket(b) == b.resetAt <= now

\* recordLoginFailure
Failed(b) ==
  LET current == IF StaleBucket(b)
                   THEN [failures |-> 0, resetAt |-> now + Window, blockedUntil |-> 0]
                   ELSE b
      count   == current.failures + 1
  IN IF b.blockedUntil > now THEN b
     ELSE [current EXCEPT !.failures = count,
                          !.blockedUntil = IF count >= MaxFailures THEN now + BlockFor ELSE @]

Most == 2 * (MaxFailures - 1)

\* A wrong password, in the form or in a header: 429 when the address is blocked
\* by now, 401 otherwise.
Refuse(ip) ==
  LET b == Failed(buckets[ip]) IN
  /\ buckets' = [buckets EXCEPT ![ip] = b]
  /\ guesses' = [guesses EXCEPT ![ip] =
                   IF b.blockedUntil > now THEN @ ELSE Youngest(Append(@, now), Most + 1)]
  /\ UNCHANGED <<whitelist, sessions, issued, restarts, now>>

\* A right one, or a valid session, forgets the address's failures, blocked or not.
Welcome(ip) ==
  /\ buckets' = [buckets EXCEPT ![ip] = NoBucket]
  /\ guesses' = [guesses EXCEPT ![ip] = <<>>]

\* POST /login
Login(ip) ==
  /\ MoreRequests
  /\ Welcome(ip)
  /\ LET token == Len(issued) + 1 IN
     sessions' = [t \in Pruned \cup {token} |-> IF t = token THEN now + SessionTtl ELSE sessions[t]]
  /\ issued' = Append(issued, [at |-> now, ended |-> FALSE])
  /\ UNCHANGED <<whitelist, restarts, now>>

\* validSession deletes an expired session; the browser goes to the form.
Expired(token) ==
  /\ token \in DOMAIN sessions \ Live
  /\ sessions' = Without(token)
  /\ UNCHANGED <<whitelist, buckets, issued, guesses, restarts, now>>

\* GET /, or another page, with a session.
Visit(ip, token) ==
  /\ Holds(token) /\ Welcome(ip)
  /\ UNCHANGED <<whitelist, sessions, issued, restarts, now>>

\* POST /logout
Logout(ip, token) ==
  /\ Holds(token) /\ Welcome(ip)
  /\ sessions' = Without(token)
  /\ issued' = [issued EXCEPT ![token].ended = TRUE]
  /\ UNCHANGED <<whitelist, restarts, now>>

\* POST /users and /users/:userId/status with a session.
Submit(ip, token, c, job) ==
  /\ Holds(token) /\ Welcome(ip)
  /\ c \notin Scripts /\ MoreRequests /\ Begin(c, <<job>>)
  /\ UNCHANGED <<sessions, issued, restarts, now>>

\* db:add-user, db:set-user-active, db:whitelist-batch
RunScript(c, jobs) ==
  /\ c \in Scripts /\ MoreRequests /\ Begin(c, jobs)
  /\ UNCHANGED <<panel, now>>

Restart ==
  /\ restarts < MaxRestarts
  /\ restarts' = restarts + 1
  /\ sessions' = <<>>
  /\ buckets' = [ip \in Ips |-> NoBucket]
  /\ guesses' = [ip \in Ips |-> <<>>]
  /\ issued' = [t \in DOMAIN issued |-> [issued[t] EXCEPT !.ended = TRUE]]
  /\ tx' = [c \in Clients |-> IF c \in Scripts THEN tx[c] ELSE IdleTx]
  /\ UNCHANGED <<rows, said, begun, now>>

Tick ==
  /\ now < MaxTime
  /\ now' = now + 1
  /\ UNCHANGED <<whitelist, panel>>

-----------------------------------------------------------------------------
Init ==
  /\ WhitelistInit
  /\ sessions = <<>>
  /\ buckets = [ip \in Ips |-> NoBucket]
  /\ now = 1
  /\ issued = <<>>
  /\ guesses = [ip \in Ips |-> <<>>]
  /\ restarts = 0

Jobs == {Upsert(phone, form) : phone \in Phones, form \in Forms}
          \cup {Activation(phone, active) : phone \in Phones, active \in BOOLEAN}

Next ==
  \/ \E ip \in Ips :
       \/ Login(ip) \/ Refuse(ip)
       \/ \E token \in DOMAIN issued :
            \/ Visit(ip, token) \/ Logout(ip, token)
            \/ \E c \in Clients, job \in Jobs : Submit(ip, token, c, job)
  \/ \E token \in DOMAIN issued : Expired(token)
  \/ \E c \in Clients : \/ \E job \in Jobs : RunScript(c, <<job>>)
                        \/ \E batch \in Batches : RunScript(c, batch)
  \/ Statement /\ UNCHANGED <<panel, now>>
  \/ Restart \/ Tick

Spec == Init /\ [][Next]_vars

-----------------------------------------------------------------------------
\* A session admits the one who logged in until eight hours have passed, a logout
\* or a restart, and only as many younger logins as the map has places end it
\* before; nothing else is admitted (admin/app.ts:161-189, 361-375).
SessionsExact ==
  /\ Cardinality(DOMAIN sessions) <= MaxSessions
  /\ \A token \in DOMAIN issued :
       LET alive == ~issued[token].ended /\ issued[token].at + SessionTtl > now IN
       /\ Holds(token) => alive
       /\ alive /\ Len(issued) - token < MaxSessions => Holds(token)

\* However logins, expiry and blocking interleave, an address between two
\* successes is told at most 2 * (MaxFailures - 1) times in a window's length
\* that its password is wrong (admin/app.ts:199-210).
GuessBound ==
  \A ip \in Ips : Len(guesses[ip]) > Most => guesses[ip][Most + 1] - guesses[ip][1] >= Window

PanelInv == SessionsExact /\ GuessBound
=============================================================================
