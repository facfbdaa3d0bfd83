--------------------------- MODULE SlidingWindow ---------------------------
(* The limiter of checkAndConsumeRate and of its WhatsApp twin: the sends of *)
(* the last Window in a sorted set of Redis, by the time each was asked for. *)
(*                                                                           *)
(* A caller's four commands are pipelined: Redis runs them in order, but not *)
(* as one, so the commands of other callers fall between them.  The time a   *)
(* caller works with is the one it read before it sent its commands.         *)
EXTENDS Integers, FiniteSets

CONSTANTS Callers,    \* send jobs that ask at once
          RateCap,    \* sends allowed within the window
          Window,     \* its length
          MaxTime     \* bound on the clock

ASSUME WindowAssumption ==
  RateCap \in Nat /\ Window \in Nat \ {0} /\ MaxTime \in Nat

VARIABLES
  time,       \* Date.now
  zset,       \* the sorted set: members, each with its score
  expires,    \* when Redis drops the key, 0 without one
  callers,    \* calls in progress
  admitted,   \* the members of the sends that were let through
  trimmed     \* the latest time any trim has used

windowVars == <<time, zset, expires, callers, admitted, trimmed>>

\* A member is unique: the caller's random bytes, and the time as the score.
Entry == [id : Callers, score : Nat]

Caller == [pc : {"idle", "trim", "add", "card", "expire", "answer", "rollback"},
           now : Nat, allowed : BOOLEAN]

WindowTypeOK ==
  /\ time \in Nat
  /\ zset \subseteq Entry /\ IsFiniteSet(zset)
  /\ expires \in Nat
  /\ callers \in [Callers -> Caller]
  /\ admitted \subseteq Entry
  /\ trimmed \in Nat

WindowInit ==
  /\ time = 1 /\ zset = {} /\ expires = 0 /\ admitted = {} /\ trimmed = 0
  /\ callers = [c \in Callers |-> [pc |-> "idle", now |-> 0, allowed |-> FALSE]]

Entry_(c) == [id |-> c, score |-> callers[c].now]

Proceed(c, pc) == callers' = [callers EXCEPT ![c].pc = pc]

\* zremrangebyscore(key, 0, now - window)
Outdated(now) == {e \in zset : e.score <= now - Window}

-----------------------------------------------------------------------------
Ask(c) ==
  /\ callers[c].pc = "idle"
  /\ callers[c].now < time
  /\ callers' = [callers EXCEPT ![c] = [pc |-> "trim", now |-> time,
                                        allowed |-> FALSE]]
  /\ UNCHANGED <<time, zset, expires, admitted, trimmed>>

Trim(c) ==
  /\ callers[c].pc = "trim" /\ Proceed(c, "add")
  /\ zset' = zset \ Outdated(callers[c].now)
  /\ trimmed' = IF callers[c].now > trimmed THEN callers[c].now ELSE trimmed
  /\ UNCHANGED <<time, expires, admitted>>

Add(c) ==
  /\ callers[c].pc = "add" /\ Proceed(c, "card")
  /\ zset' = zset \cup {Entry_(c)}
  /\ UNCHANGED <<time, expires, admitted, trimmed>>

\* Mutant: the attempt does not count itself.
CardOffByOne(c) ==
  /\ callers[c].pc = "card"
  /\ callers' = [callers EXCEPT ![c].pc = "expire",
                   ![c].allowed = Cardinality(zset \ {Entry_(c)}) <= RateCap]
  /\ UNCHANGED <<time, zset, expires, admitted, trimmed>>

\* The count, and what the caller will make of it.
Card(c) ==
  /\ callers[c].pc = "card"
  /\ callers' = [callers EXCEPT ![c].pc = "expire",
                                ![c].allowed = Cardinality(zset) <= RateCap]
  /\ UNCHANGED <<time, zset, expires, admitted, trimmed>>

\* The key outlives the window by one second.
Expire(c) ==
  /\ callers[c].pc = "expire" /\ Proceed(c, "answer")
  /\ expires' = time + Window + 1
  /\ UNCHANGED <<time, zset, admitted, trimmed>>

Decide(c) ==
  /\ callers[c].pc = "answer"
  /\ callers' = [callers EXCEPT ![c].allowed = FALSE,
                   ![c].pc = IF callers[c].allowed THEN "idle" ELSE "rollback"]
  /\ admitted' = IF callers[c].allowed THEN admitted \cup {Entry_(c)}
                 ELSE admitted
  /\ UNCHANGED <<time, zset, expires, trimmed>>

\* A refused attempt takes its member out again; a failure is swallowed.
Rollback(c) ==
  /\ callers[c].pc = "rollback" /\ Proceed(c, "idle")
  /\ zset' \in {zset, zset \ {Entry_(c)}}
  /\ UNCHANGED <<time, expires, admitted, trimmed>>

\* The worker dies or loses Redis between two commands.
Vanish(c) ==
  /\ callers[c].pc # "idle"
  /\ callers' = [callers EXCEPT ![c].pc = "idle", ![c].allowed = FALSE]
  /\ UNCHANGED <<time, zset, expires, admitted, trimmed>>

\* getRateUsage trims before it counts.
GetRateUsage ==
  /\ zset' = zset \ Outdated(time)
  /\ trimmed' = time
  /\ UNCHANGED <<time, expires, callers, admitted>>

\* Every member Redis drops with the key is older than the window.  That the
\* key does not expire between two commands of one pipeline is assumed.
KeyExpires ==
  /\ expires # 0 /\ time >= expires
  /\ \A c \in Callers : callers[c].pc \notin {"card", "expire"}
  /\ zset' = {} /\ expires' = 0 /\ trimmed' = time
  /\ UNCHANGED <<time, callers, admitted>>

Passes ==
  /\ time < MaxTime /\ time' = time + 1
  /\ UNCHANGED <<zset, expires, callers, admitted, trimmed>>

WindowNext ==
  \/ \E c \in Callers : \/ Ask(c) \/ Trim(c) \/ Add(c) \/ Card(c) \/ Expire(c)
                        \/ Decide(c) \/ Rollback(c) \/ Vanish(c)
  \/ GetRateUsage \/ KeyExpires \/ Passes

WindowSpec == WindowInit /\ [][WindowNext]_windowVars

-----------------------------------------------------------------------------
(* Properties.                                                               *)

\* Sends let through, or about to be.
Granted == admitted \cup {Entry_(c) : c \in {d \in Callers : callers[d].allowed}}

Recent == {e \in Granted : e.score > trimmed - Window}

\* However the pipelines of the callers interleave, with refused attempts in
\* the set or left there by a failed rollback, and with times that are late
\* when they are used, no more sends than the cap are allowed within a window
\* of the latest time the set was trimmed for.
CapWithinWindow == Cardinality(Recent) <= RateCap

\* A send that was allowed is never forgotten early: until the set is trimmed
\* for a time a whole window later, its member counts against later sends,
\* whatever the rollbacks of others and the expiry of the key do.
AllowedStillCounts == Recent \subseteq zset

\* The limiter keeps its promise, although its commands are pipelined and its
\* rollback is a call of its own: the cap holds, and because no allowed send is
\* forgotten it goes on holding.
WindowHolds == CapWithinWindow /\ AllowedStillCounts

=============================================================================
