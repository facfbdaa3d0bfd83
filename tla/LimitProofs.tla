----------------------------- MODULE LimitProofs -----------------------------
(* The two limits of the worker hold for every number of callers and every   *)
(* cap: the sliding window of the DM rate limiter, and the monthly budget    *)
(* for model calls, which is passed by no more than the calls in progress.   *)
(*                                                                           *)
(* Neither is inductive alone.  WindowInv adds what each place of a pipeline *)
(* knows: times are not ahead of the clock, a caller's member is unlike      *)
(* those it was granted before (so a rollback takes out its own), the member *)
(* that is about to be counted is in the set, and the key outlives the       *)
(* window of every send it was set or renewed for.  BudgetInv keeps room     *)
(* below the bound for each call that may still add to the month's row.      *)
EXTENDS AiBudget, SlidingWindow, FiniteSetTheorems, WellFoundedInduction, TLAPS

(***************************************************************************)
(* The sliding window.                                                     *)
(***************************************************************************)

ClockInv ==
  /\ trimmed <= time
  /\ \A c \in Callers : callers[c].now <= time

\* A caller is never granted one member twice.
MembersInv ==
  \A e \in admitted, c \in Callers : e.id = c =>
    /\ e.score <= callers[c].now
    /\ callers[c].pc # "idle" => e.score < callers[c].now

AllowedInv ==
  \A c \in Callers : callers[c].allowed => callers[c].pc \in {"expire", "answer"}

\* The member that is counted next is in the set, unless it has aged out.
CountedInv ==
  \A c \in Callers : callers[c].pc = "card" =>
    Entry_(c) \in zset \/ callers[c].now <= trimmed - Window

\* While the key has an expiry, that lies after the window of every send that
\* was let through, or is about to be once EXPIRE has run.
ExpiryInv ==
  expires # 0 =>
    /\ \A e \in admitted : e.score + Window < expires
    /\ \A c \in Callers : callers[c].pc = "answer" /\ callers[c].allowed
         => callers[c].now + Window < expires

WindowInv ==
  /\ WindowTypeOK
  /\ ClockInv
  /\ MembersInv
  /\ AllowedInv
  /\ CountedInv
  /\ ExpiryInv
  /\ WindowHolds

-----------------------------------------------------------------------------
(* Lemmas.                                                                   *)

LEMMA RecentIs ==
  \A e : e \in Recent <=>
    /\ e.score > trimmed - Window
    /\ \/ e \in admitted
       \/ \E c \in Callers : callers[c].allowed /\ e = Entry_(c)
BY DEF Recent, Granted

LEMMA AllowedIsTyped ==
  ASSUME NEW f \in [Callers -> Caller], NEW c \in Callers, NEW b \in BOOLEAN
  PROVE  [f EXCEPT ![c].allowed = b] \in [Callers -> Caller]
BY SMTT(60) DEF Caller

LEMMA EntriesAreTyped ==
  ASSUME WindowTypeOK, NEW c \in Callers
  PROVE  Entry_(c) \in Entry /\ Entry_(c).id = c /\ Entry_(c).score = callers[c].now
BY DEF WindowTypeOK, Caller, Entry, Entry_

LEMMA RecentIsCounted ==
  ASSUME IsFiniteSet(zset), AllowedStillCounts
  PROVE  /\ IsFiniteSet(Recent)
         /\ Cardinality(Recent) \in Nat
         /\ Cardinality(Recent) <= Cardinality(zset)
BY FS_Subset, FS_CardinalityType DEF AllowedStillCounts

\* A step that lets nothing through, and drops no send that is still recent,
\* keeps the promise.
LEMMA StillHolds ==
  ASSUME WindowTypeOK, WindowTypeOK', WindowHolds,
         trimmed <= trimmed', Granted' \subseteq Granted,
         \A e \in Recent' : e \in zset => e \in zset'
  PROVE  WindowHolds'
<1>1. Recent' \subseteq Recent
  BY WindowAssumption DEF Recent, Granted, WindowTypeOK, Entry, Caller, Entry_
<1>2. IsFiniteSet(Recent) /\ Cardinality(Recent) \in Nat
  BY RecentIsCounted DEF WindowTypeOK, WindowHolds
<1>3. Cardinality(Recent') \in Nat /\ Cardinality(Recent') <= Cardinality(Recent)
  BY <1>1, <1>2, FS_Subset, FS_CardinalityType
<1>4. CapWithinWindow'
  BY <1>2, <1>3, WindowAssumption, SMTT(60) DEF WindowHolds, CapWithinWindow
<1>5. AllowedStillCounts'
  BY <1>1 DEF WindowHolds, AllowedStillCounts
<1> QED
  BY <1>4, <1>5 DEF WindowHolds

LEMMA InitHolds == WindowInit => WindowInv
<1> SUFFICES ASSUME WindowInit PROVE WindowInv
  OBVIOUS
<1>1. IsFiniteSet(zset) /\ Cardinality({}) = 0
  BY FS_EmptySet DEF WindowInit
<1>2. WindowTypeOK
  BY <1>1 DEF WindowInit, WindowTypeOK, Caller
<1>3. ClockInv /\ MembersInv /\ AllowedInv /\ CountedInv /\ ExpiryInv
  BY <1>2, WindowAssumption
     DEF WindowInit, ClockInv, MembersInv, AllowedInv, CountedInv, ExpiryInv
<1>4. Recent = {}
  BY DEF WindowInit, Recent, Granted
<1>5. WindowHolds
  BY <1>1, <1>4, WindowAssumption
     DEF WindowHolds, CapWithinWindow, AllowedStillCounts
<1> QED
  BY <1>2, <1>3, <1>5 DEF WindowInv

-----------------------------------------------------------------------------
(* One lemma per command.                                                    *)

\* The new member is later than any the caller was granted.
LEMMA AskKeeps ==
  ASSUME WindowInv, NEW c \in Callers, Ask(c)
  PROVE  WindowInv'
<1>1. IsFiniteSet(zset')
  BY DEF Ask, WindowInv, WindowTypeOK
<1>2. WindowTypeOK'
  BY <1>1, WindowAssumption, SMTT(60)
     DEF Ask, WindowInv, WindowTypeOK, Caller, Entry, Entry_
<1>3. ClockInv'
  BY WindowAssumption, SMTT(60)
     DEF Ask, WindowInv, WindowTypeOK, Caller, Entry, Entry_, ClockInv
<1>4. MembersInv'
  BY SMTT(60)
     DEF Ask, WindowInv, WindowTypeOK, Caller, Entry, Entry_, ClockInv, MembersInv,
         AllowedInv
<1>5. AllowedInv'
  BY SMTT(60) DEF Ask, WindowInv, WindowTypeOK, Caller, Entry, Entry_, AllowedInv
<1>6. CountedInv'
  BY WindowAssumption, SMTT(60)
     DEF Ask, WindowInv, WindowTypeOK, Caller, Entry, Entry_, ClockInv, CountedInv
<1>7. ExpiryInv'
  BY WindowAssumption, SMTT(60)
     DEF Ask, WindowInv, WindowTypeOK, Caller, Entry, Entry_, ClockInv, MembersInv,
         AllowedInv, ExpiryInv
<1>8. WindowHolds'
  <2>1. Granted' \subseteq Granted
    BY SMTT(60)
       DEF Ask, WindowInv, WindowTypeOK, Caller, Entry, Entry_, AllowedInv, Granted
  <2>2. trimmed <= trimmed'
    BY SMTT(60) DEF Ask, WindowInv, WindowTypeOK, ClockInv
  <2>3. \A e \in Recent' : e \in zset => e \in zset'
    BY SMTT(60) DEF Ask
  <2> QED
    BY <1>2, <2>1, <2>2, <2>3, StillHolds DEF WindowInv
<1> QED
  BY <1>2, <1>3, <1>4, <1>5, <1>6, <1>7, <1>8 DEF WindowInv

\* What is trimmed is not recent by the time it is trimmed for.
LEMMA TrimKeeps ==
  ASSUME WindowInv, NEW c \in Callers, Trim(c)
  PROVE  WindowInv'
<1>1. IsFiniteSet(zset')
  BY FS_Subset DEF Trim, Outdated, WindowInv, WindowTypeOK
<1>2. WindowTypeOK'
  BY <1>1, WindowAssumption, SMTT(60)
     DEF Trim, Proceed, Outdated, WindowInv, WindowTypeOK, Caller, Entry, Entry_
<1>3. ClockInv'
  BY WindowAssumption, SMTT(60)
     DEF Trim, Proceed, WindowInv, WindowTypeOK, Caller, Entry, Entry_, ClockInv
<1>4. MembersInv'
  BY SMTT(60)
     DEF Trim, Proceed, WindowInv, WindowTypeOK, Caller, Entry, Entry_, ClockInv,
         MembersInv, AllowedInv
<1>5. AllowedInv'
  BY SMTT(60)
     DEF Trim, Proceed, WindowInv, WindowTypeOK, Caller, Entry, Entry_, AllowedInv
<1>6. CountedInv'
  BY WindowAssumption, SMTT(60)
     DEF Trim, Proceed, Outdated, WindowInv, WindowTypeOK, Caller, Entry, Entry_,
         ClockInv, CountedInv
<1>7. ExpiryInv'
  BY WindowAssumption, SMTT(60)
     DEF Trim, Proceed, WindowInv, WindowTypeOK, Caller, Entry, Entry_, ClockInv,
         MembersInv, AllowedInv, ExpiryInv
<1>8. WindowHolds'
  <2>1. Granted' \subseteq Granted
    BY SMTT(60)
       DEF Trim, Proceed, WindowInv, WindowTypeOK, Caller, Entry, Entry_, AllowedInv,
           Granted
  <2>2. trimmed <= trimmed' /\ callers[c].now <= trimmed'
    BY SMTT(60) DEF Trim, WindowInv, WindowTypeOK, Caller, Entry, Entry_, ClockInv
  <2>3. ASSUME NEW e \in Recent', e \in zset PROVE e \in zset'
    <3>1. e.score > trimmed' - Window /\ e.score \in Nat
      BY <2>3, SMTT(60) DEF Recent, WindowInv, WindowTypeOK, Entry
    <3>2. callers[c].now \in Nat /\ trimmed' \in Nat
      BY <1>2 DEF WindowInv, WindowTypeOK, Caller
    <3> QED
      BY <2>2, <2>3, <3>1, <3>2, WindowAssumption, SMTT(60) DEF Trim, Outdated
  <2> QED
    BY <1>2, <2>1, <2>2, <2>3, StillHolds DEF WindowInv
<1> QED
  BY <1>2, <1>3, <1>4, <1>5, <1>6, <1>7, <1>8 DEF WindowInv

\* The member is in the set from here on.
LEMMA AddKeeps ==
  ASSUME WindowInv, NEW c \in Callers, Add(c)
  PROVE  WindowInv'
<1>1. IsFiniteSet(zset')
  BY FS_AddElement DEF Add, WindowInv, WindowTypeOK
<1>2. WindowTypeOK'
  BY <1>1, WindowAssumption, SMTT(60)
     DEF Add, Proceed, WindowInv, WindowTypeOK, Caller, Entry, Entry_
<1>3. ClockInv'
  BY WindowAssumption, SMTT(60)
     DEF Add, Proceed, WindowInv, WindowTypeOK, Caller, Entry, Entry_, ClockInv
<1>4. MembersInv'
  BY SMTT(60)
     DEF Add, Proceed, WindowInv, WindowTypeOK, Caller, Entry, Entry_, ClockInv,
         MembersInv, AllowedInv
<1>5. AllowedInv'
  BY SMTT(60)
     DEF Add, Proceed, WindowInv, WindowTypeOK, Caller, Entry, Entry_, AllowedInv
<1>6. CountedInv'
  BY WindowAssumption, SMTT(60)
     DEF Add, Proceed, WindowInv, WindowTypeOK, Caller, Entry, Entry_, ClockInv,
         CountedInv
<1>7. ExpiryInv'
  BY WindowAssumption, SMTT(60)
     DEF Add, Proceed, WindowInv, WindowTypeOK, Caller, Entry, Entry_, ClockInv,
         MembersInv, AllowedInv, ExpiryInv
<1>8. WindowHolds'
  <2>1. Granted' \subseteq Granted
    BY SMTT(60)
       DEF Add, Proceed, WindowInv, WindowTypeOK, Caller, Entry, Entry_, AllowedInv,
           Granted
  <2>2. trimmed <= trimmed'
    BY SMTT(60) DEF Add, WindowInv, WindowTypeOK, ClockInv
  <2>3. \A e \in Recent' : e \in zset => e \in zset'
    BY SMTT(60) DEF Add
  <2> QED
    BY <1>2, <2>1, <2>2, <2>3, StillHolds DEF WindowInv
<1> QED
  BY <1>2, <1>3, <1>4, <1>5, <1>6, <1>7, <1>8 DEF WindowInv

\* What is let through is in the set that was counted.
LEMMA CardKeeps ==
  ASSUME WindowInv, NEW c \in Callers, Card(c)
  PROVE  WindowInv'
<1>1. IsFiniteSet(zset')
  BY DEF Card, WindowInv, WindowTypeOK
<1>2. WindowTypeOK'
  <2>1. PICK f : f = [callers EXCEPT ![c].pc = "expire"]
    OBVIOUS
  <2>2. f \in [Callers -> Caller]
    BY <2>1, SMTT(60) DEF WindowInv, WindowTypeOK, Caller
  <2>3. callers' \in [Callers -> Caller]
    <3>1. CASE Cardinality(zset) <= RateCap
      <4>1. (Cardinality(zset) <= RateCap) = TRUE
        BY <3>1
      <4>2. callers' = [f EXCEPT ![c].allowed = TRUE]
        BY <2>1, <4>1, Zenon DEF Card
      <4> QED BY <2>2, <4>2, AllowedIsTyped, Zenon
    <3>2. CASE ~(Cardinality(zset) <= RateCap)
      <4>1. (Cardinality(zset) <= RateCap) = FALSE
        BY <3>2
      <4>2. callers' = [f EXCEPT ![c].allowed = FALSE]
        BY <2>1, <4>1, Zenon DEF Card
      <4> QED BY <2>2, <4>2, AllowedIsTyped, Zenon
    <3> QED BY <3>1, <3>2
  <2> QED
    BY <1>1, <2>3 DEF Card, WindowInv, WindowTypeOK
<1>3. ClockInv'
  BY WindowAssumption, SMTT(60)
     DEF Card, WindowInv, WindowTypeOK, Caller, Entry, Entry_, ClockInv
<1>4. MembersInv'
  BY SMTT(60)
     DEF Card, WindowInv, WindowTypeOK, Caller, Entry, Entry_, ClockInv, MembersInv,
         AllowedInv
<1>5. AllowedInv'
  BY SMTT(60) DEF Card, WindowInv, WindowTypeOK, Caller, Entry, Entry_, AllowedInv
<1>6. CountedInv'
  BY WindowAssumption, SMTT(60)
     DEF Card, WindowInv, WindowTypeOK, Caller, Entry, Entry_, ClockInv, CountedInv
<1>7. ExpiryInv'
  BY WindowAssumption, SMTT(60)
     DEF Card, WindowInv, WindowTypeOK, Caller, Entry, Entry_, ClockInv, MembersInv,
         AllowedInv, ExpiryInv
<1>8. WindowHolds'
  <2>1. CASE Cardinality(zset) <= RateCap
    <3>1. ASSUME NEW e \in Recent' PROVE e \in zset
      <4>1. e \in Recent \/ e = Entry_(c)
        BY SMTT(60)
           DEF Card, Recent, Granted, WindowInv, WindowTypeOK, Caller, Entry, Entry_
      <4>2. CASE e = Entry_(c)
        <5>1. e.score = callers[c].now /\ e.score > trimmed - Window
          BY <4>2, SMTT(60) DEF Recent, Card, Entry_
        <5>2. callers[c].now \in Nat /\ trimmed \in Nat
          BY DEF WindowInv, WindowTypeOK, Caller
        <5> QED
          BY <4>2, <5>1, <5>2, WindowAssumption, SMTT(60)
             DEF Card, WindowInv, CountedInv
      <4>3. CASE e \in Recent
        BY <4>3 DEF WindowInv, WindowHolds, AllowedStillCounts
      <4> QED BY <4>1, <4>2, <4>3
    <3>2. AllowedStillCounts'
      BY <3>1 DEF Card, AllowedStillCounts
    <3>3. Cardinality(Recent') <= Cardinality(zset) /\ Cardinality(Recent') \in Nat
      BY <3>1, FS_Subset, FS_CardinalityType DEF WindowInv, WindowTypeOK
    <3>4. Cardinality(zset) \in Nat
      BY FS_CardinalityType DEF WindowInv, WindowTypeOK
    <3>5. CapWithinWindow'
      BY <2>1, <3>3, <3>4, WindowAssumption, SMTT(60) DEF CapWithinWindow
    <3> QED
      BY <3>2, <3>5 DEF WindowHolds
  <2>2. CASE ~(Cardinality(zset) <= RateCap)
    <3>1. Granted' \subseteq Granted
      BY <2>2, SMTT(60)
         DEF Card, WindowInv, WindowTypeOK, Caller, Entry, Entry_, AllowedInv,
             Granted
    <3>2. trimmed <= trimmed'
      BY SMTT(60) DEF Card, WindowInv, WindowTypeOK
    <3>3. \A e \in Recent' : e \in zset => e \in zset'
      BY DEF Card
    <3> QED
      BY <1>2, <3>1, <3>2, <3>3, StillHolds DEF WindowInv
  <2> QED BY <2>1, <2>2
<1> QED
  BY <1>2, <1>3, <1>4, <1>5, <1>6, <1>7, <1>8 DEF WindowInv

\* The key outlives the window of every send there is by now.
LEMMA ExpireKeeps ==
  ASSUME WindowInv, NEW c \in Callers, Expire(c)
  PROVE  WindowInv'
<1>1. IsFiniteSet(zset')
  BY DEF Expire, WindowInv, WindowTypeOK
<1>2. WindowTypeOK'
  BY <1>1, WindowAssumption, SMTT(60)
     DEF Expire, Proceed, WindowInv, WindowTypeOK, Caller, Entry, Entry_
<1>3. ClockInv'
  BY WindowAssumption, SMTT(60)
     DEF Expire, Proceed, WindowInv, WindowTypeOK, Caller, Entry, Entry_, ClockInv
<1>4. MembersInv'
  BY SMTT(60)
     DEF Expire, Proceed, WindowInv, WindowTypeOK, Caller, Entry, Entry_, ClockInv,
         MembersInv, AllowedInv
<1>5. AllowedInv'
  BY SMTT(60)
     DEF Expire, Proceed, WindowInv, WindowTypeOK, Caller, Entry, Entry_, AllowedInv
<1>6. CountedInv'
  BY WindowAssumption, SMTT(60)
     DEF Expire, Proceed, WindowInv, WindowTypeOK, Caller, Entry, Entry_, ClockInv,
         CountedInv
<1>7. ExpiryInv'
  BY WindowAssumption, SMTT(60)
     DEF Expire, Proceed, WindowInv, WindowTypeOK, Caller, Entry, Entry_, ClockInv,
         MembersInv, AllowedInv, ExpiryInv
<1>8. WindowHolds'
  <2>1. Granted' \subseteq Granted
    BY SMTT(60)
       DEF Expire, Proceed, WindowInv, WindowTypeOK, Caller, Entry, Entry_,
           AllowedInv, Granted
  <2>2. trimmed <= trimmed'
    BY SMTT(60) DEF Expire, WindowInv, WindowTypeOK, ClockInv
  <2>3. \A e \in Recent' : e \in zset => e \in zset'
    BY SMTT(60) DEF Expire
  <2> QED
    BY <1>2, <2>1, <2>2, <2>3, StillHolds DEF WindowInv
<1> QED
  BY <1>2, <1>3, <1>4, <1>5, <1>6, <1>7, <1>8 DEF WindowInv

\* The answer: a send that was about to be let through is.
LEMMA DecideKeeps ==
  ASSUME WindowInv, NEW c \in Callers, Decide(c)
  PROVE  WindowInv'
<1>1. IsFiniteSet(zset')
  BY DEF Decide, WindowInv, WindowTypeOK
<1>2. WindowTypeOK'
  BY <1>1, WindowAssumption, SMTT(60)
     DEF Decide, WindowInv, WindowTypeOK, Caller, Entry, Entry_
<1>3. ClockInv'
  BY WindowAssumption, SMTT(60)
     DEF Decide, WindowInv, WindowTypeOK, Caller, Entry, Entry_, ClockInv
<1>4. MembersInv'
  BY SMTT(60)
     DEF Decide, WindowInv, WindowTypeOK, Caller, Entry, Entry_, ClockInv,
         MembersInv, AllowedInv
<1>5. AllowedInv'
  BY SMTT(60) DEF Decide, WindowInv, WindowTypeOK, Caller, Entry, Entry_, AllowedInv
<1>6. CountedInv'
  BY WindowAssumption, SMTT(60)
     DEF Decide, WindowInv, WindowTypeOK, Caller, Entry, Entry_, ClockInv,
         CountedInv
<1>7. ExpiryInv'
  BY WindowAssumption, SMTT(60)
     DEF Decide, WindowInv, WindowTypeOK, Caller, Entry, Entry_, ClockInv,
         MembersInv, AllowedInv, ExpiryInv
<1>8. WindowHolds'
  <2>1. Granted' \subseteq Granted
    BY SMTT(60)
       DEF Decide, WindowInv, WindowTypeOK, Caller, Entry, Entry_, AllowedInv,
           Granted
  <2>2. trimmed <= trimmed'
    BY SMTT(60) DEF Decide, WindowInv, WindowTypeOK, ClockInv
  <2>3. \A e \in Recent' : e \in zset => e \in zset'
    BY SMTT(60) DEF Decide
  <2> QED
    BY <1>2, <2>1, <2>2, <2>3, StillHolds DEF WindowInv
<1> QED
  BY <1>2, <1>3, <1>4, <1>5, <1>6, <1>7, <1>8 DEF WindowInv

\* The member that is taken out is the caller's own, and was not let through.
LEMMA RollbackKeeps ==
  ASSUME WindowInv, NEW c \in Callers, Rollback(c)
  PROVE  WindowInv'
<1>1. IsFiniteSet(zset')
  BY FS_Subset DEF Rollback, WindowInv, WindowTypeOK
<1>2. WindowTypeOK'
  BY <1>1, WindowAssumption, SMTT(60)
     DEF Rollback, Proceed, WindowInv, WindowTypeOK, Caller, Entry, Entry_
<1>3. ClockInv'
  BY WindowAssumption, SMTT(60)
     DEF Rollback, Proceed, WindowInv, WindowTypeOK, Caller, Entry, Entry_, ClockInv
<1>4. MembersInv'
  BY SMTT(60)
     DEF Rollback, Proceed, WindowInv, WindowTypeOK, Caller, Entry, Entry_, ClockInv,
         MembersInv, AllowedInv
<1>5. AllowedInv'
  BY SMTT(60)
     DEF Rollback, Proceed, WindowInv, WindowTypeOK, Caller, Entry, Entry_,
         AllowedInv
<1>6. CountedInv'
  BY WindowAssumption, SMTT(60)
     DEF Rollback, Proceed, WindowInv, WindowTypeOK, Caller, Entry, Entry_, ClockInv,
         CountedInv
<1>7. ExpiryInv'
  BY WindowAssumption, SMTT(60)
     DEF Rollback, Proceed, WindowInv, WindowTypeOK, Caller, Entry, Entry_, ClockInv,
         MembersInv, AllowedInv, ExpiryInv
<1>8. WindowHolds'
  <2>1. Granted' \subseteq Granted
    BY SMTT(60)
       DEF Rollback, Proceed, WindowInv, WindowTypeOK, Caller, Entry, Entry_,
           AllowedInv, Granted
  <2>2. trimmed <= trimmed'
    BY SMTT(60) DEF Rollback, WindowInv, WindowTypeOK
  <2>3. Entry_(c) \notin Granted
    <3>1. Entry_(c) \notin admitted
      BY EntriesAreTyped, SMTT(60)
         DEF Rollback, WindowInv, WindowTypeOK, Caller, Entry, Entry_, MembersInv
    <3>2. ASSUME NEW d \in Callers, callers[d].allowed PROVE Entry_(c) # Entry_(d)
      BY <3>2, EntriesAreTyped, SMTT(60) DEF Rollback, WindowInv, AllowedInv
    <3> QED BY <3>1, <3>2 DEF Granted
  <2>4. \A e \in Recent' : e \in zset => e \in zset'
    BY <2>1, <2>3, SMTT(60) DEF Rollback, Recent
  <2> QED
    BY <1>2, <2>1, <2>2, <2>4, StillHolds DEF WindowInv
<1> QED
  BY <1>2, <1>3, <1>4, <1>5, <1>6, <1>7, <1>8 DEF WindowInv

\* A caller that dies is let through no more.
LEMMA VanishKeeps ==
  ASSUME WindowInv, NEW c \in Callers, Vanish(c)
  PROVE  WindowInv'
<1>1. IsFiniteSet(zset')
  BY DEF Vanish, WindowInv, WindowTypeOK
<1>2. WindowTypeOK'
  <2>1. PICK f : f = [callers EXCEPT ![c].pc = "idle"]
    OBVIOUS
  <2>2. f \in [Callers -> Caller]
    BY <2>1, SMTT(60) DEF WindowInv, WindowTypeOK, Caller
  <2>3. callers' = [f EXCEPT ![c].allowed = FALSE]
    BY <2>1, Zenon DEF Vanish
  <2>4. callers' \in [Callers -> Caller]
    BY <2>2, <2>3, AllowedIsTyped, Zenon
  <2> QED
    BY <1>1, <2>4 DEF Vanish, WindowInv, WindowTypeOK
<1>3. ClockInv'
  BY WindowAssumption, SMTT(60)
     DEF Vanish, WindowInv, WindowTypeOK, Caller, Entry, Entry_, ClockInv
<1>4. MembersInv'
  BY SMTT(60)
     DEF Vanish, WindowInv, WindowTypeOK, Caller, Entry, Entry_, ClockInv,
         MembersInv, AllowedInv
<1>5. AllowedInv'
  BY SMTT(60) DEF Vanish, WindowInv, WindowTypeOK, Caller, Entry, Entry_, AllowedInv
<1>6. CountedInv'
  BY WindowAssumption, SMTT(60)
     DEF Vanish, WindowInv, WindowTypeOK, Caller, Entry, Entry_, ClockInv,
         CountedInv
<1>7. ExpiryInv'
  BY WindowAssumption, SMTT(60)
     DEF Vanish, WindowInv, WindowTypeOK, Caller, Entry, Entry_, ClockInv,
         MembersInv, AllowedInv, ExpiryInv
<1>8. WindowHolds'
  <2>1. Granted' \subseteq Granted
    BY SMTT(60)
       DEF Vanish, WindowInv, WindowTypeOK, Caller, Entry, Entry_, AllowedInv,
           Granted
  <2>2. trimmed <= trimmed'
    BY SMTT(60) DEF Vanish, WindowInv, WindowTypeOK, ClockInv
  <2>3. \A e \in Recent' : e \in zset => e \in zset'
    BY SMTT(60) DEF Vanish
  <2> QED
    BY <1>2, <2>1, <2>2, <2>3, StillHolds DEF WindowInv
<1> QED
  BY <1>2, <1>3, <1>4, <1>5, <1>6, <1>7, <1>8 DEF WindowInv

\* What the settings page trims is a window old.
LEMMA GetRateUsageKeeps ==
  ASSUME WindowInv, GetRateUsage
  PROVE  WindowInv'
<1>1. IsFiniteSet(zset')
  BY FS_Subset DEF GetRateUsage, Outdated, WindowInv, WindowTypeOK
<1>2. WindowTypeOK'
  BY <1>1, WindowAssumption, SMTT(60)
     DEF GetRateUsage, Outdated, WindowInv, WindowTypeOK, Caller, Entry, Entry_
<1>3. ClockInv'
  BY WindowAssumption, SMTT(60)
     DEF GetRateUsage, WindowInv, WindowTypeOK, Caller, Entry, Entry_, ClockInv
<1>4. MembersInv'
  BY SMTT(60)
     DEF GetRateUsage, WindowInv, WindowTypeOK, Caller, Entry, Entry_, ClockInv,
         MembersInv, AllowedInv
<1>5. AllowedInv'
  BY SMTT(60)
     DEF GetRateUsage, WindowInv, WindowTypeOK, Caller, Entry, Entry_, AllowedInv
<1>6. CountedInv'
  BY WindowAssumption, SMTT(60)
     DEF GetRateUsage, Outdated, WindowInv, WindowTypeOK, Caller, Entry, Entry_,
         ClockInv, CountedInv
<1>7. ExpiryInv'
  BY WindowAssumption, SMTT(60)
     DEF GetRateUsage, WindowInv, WindowTypeOK, Caller, Entry, Entry_, ClockInv,
         MembersInv, AllowedInv, ExpiryInv
<1>8. WindowHolds'
  <2>1. Granted' \subseteq Granted
    BY DEF GetRateUsage, Granted, Entry_
  <2>2. trimmed <= trimmed'
    BY SMTT(60) DEF GetRateUsage, WindowInv, WindowTypeOK, ClockInv
  <2>3. ASSUME NEW e \in Recent', e \in zset PROVE e \in zset'
    <3>1. e.score > time - Window /\ e.score \in Nat /\ time \in Nat
      BY <2>3, SMTT(60) DEF Recent, GetRateUsage, WindowInv, WindowTypeOK, Entry
    <3> QED
      BY <2>3, <3>1, WindowAssumption, SMTT(60) DEF GetRateUsage, Outdated
  <2> QED
    BY <1>2, <2>1, <2>2, <2>3, StillHolds DEF WindowInv
<1> QED
  BY <1>2, <1>3, <1>4, <1>5, <1>6, <1>7, <1>8 DEF WindowInv

\* When the key is dropped, no send is recent.
LEMMA KeyExpiresKeeps ==
  ASSUME WindowInv, KeyExpires
  PROVE  WindowInv'
<1>1. IsFiniteSet(zset')
  BY FS_EmptySet DEF KeyExpires
<1>2. WindowTypeOK'
  BY <1>1, WindowAssumption, SMTT(60)
     DEF KeyExpires, WindowInv, WindowTypeOK, Caller, Entry, Entry_
<1>3. ClockInv'
  BY WindowAssumption, SMTT(60)
     DEF KeyExpires, WindowInv, WindowTypeOK, Caller, Entry, Entry_, ClockInv
<1>4. MembersInv'
  BY SMTT(60)
     DEF KeyExpires, WindowInv, WindowTypeOK, Caller, Entry, Entry_, ClockInv,
         MembersInv, AllowedInv
<1>5. AllowedInv'
  BY SMTT(60)
     DEF KeyExpires, WindowInv, WindowTypeOK, Caller, Entry, Entry_, AllowedInv
<1>6. CountedInv'
  BY WindowAssumption, SMTT(60)
     DEF KeyExpires, WindowInv, WindowTypeOK, Caller, Entry, Entry_, ClockInv,
         CountedInv
<1>7. ExpiryInv'
  BY WindowAssumption, SMTT(60)
     DEF KeyExpires, WindowInv, WindowTypeOK, Caller, Entry, Entry_, ClockInv,
         MembersInv, AllowedInv, ExpiryInv
<1>8. WindowHolds'
  <2>1. Granted' \subseteq Granted
    BY DEF KeyExpires, Granted, Entry_
  <2>2. trimmed <= trimmed'
    BY SMTT(60) DEF KeyExpires, WindowInv, WindowTypeOK, ClockInv
  <2>3. ASSUME NEW e \in Granted PROVE e.score \in Nat /\ e.score + Window < expires
    <3>1. CASE e \in admitted
      BY <3>1, SMTT(60) DEF KeyExpires, WindowInv, WindowTypeOK, Entry, ExpiryInv
    <3>2. ASSUME NEW c \in Callers, callers[c].allowed, e = Entry_(c)
          PROVE  e.score \in Nat /\ e.score + Window < expires
      <4>1. callers[c].pc = "answer"
        BY <3>2, SMTT(60) DEF KeyExpires, WindowInv, AllowedInv
      <4>2. callers[c].now + Window < expires /\ callers[c].now \in Nat
        BY <3>2, <4>1, SMTT(60)
           DEF KeyExpires, WindowInv, ExpiryInv, WindowTypeOK, Caller
      <4> QED BY <3>2, <4>2 DEF Entry_
    <3> QED BY <3>1, <3>2 DEF Granted
  <2>4. ASSUME NEW e \in Recent' PROVE FALSE
    <3>1. e \in Granted /\ e.score > time - Window
      BY <2>1, SMTT(60) DEF Recent, KeyExpires
    <3>2. e.score \in Nat /\ e.score + Window < expires
      BY <2>3, <3>1
    <3> QED
      BY <3>1, <3>2, WindowAssumption, SMTT(60)
         DEF KeyExpires, WindowInv, WindowTypeOK
  <2> QED
    BY <1>2, <2>1, <2>2, <2>4, StillHolds DEF WindowInv
<1> QED
  BY <1>2, <1>3, <1>4, <1>5, <1>6, <1>7, <1>8 DEF WindowInv


LEMMA PassesKeeps ==
  ASSUME WindowInv, Passes
  PROVE  WindowInv'
<1>1. IsFiniteSet(zset')
  BY DEF Passes, WindowInv, WindowTypeOK
<1>2. WindowTypeOK'
  BY <1>1, WindowAssumption, SMTT(60)
     DEF Passes, WindowInv, WindowTypeOK, Caller, Entry, Entry_
<1>3. ClockInv'
  BY WindowAssumption, SMTT(60)
     DEF Passes, WindowInv, WindowTypeOK, Caller, Entry, Entry_, ClockInv
<1>4. MembersInv'
  BY SMTT(60)
     DEF Passes, WindowInv, WindowTypeOK, Caller, Entry, Entry_, ClockInv,
         MembersInv, AllowedInv
<1>5. AllowedInv'
  BY SMTT(60) DEF Passes, WindowInv, WindowTypeOK, Caller, Entry, Entry_, AllowedInv
<1>6. CountedInv'
  BY WindowAssumption, SMTT(60)
     DEF Passes, WindowInv, WindowTypeOK, Caller, Entry, Entry_, ClockInv,
         CountedInv
<1>7. ExpiryInv'
  BY WindowAssumption, SMTT(60)
     DEF Passes, WindowInv, WindowTypeOK, Caller, Entry, Entry_, ClockInv,
         MembersInv, AllowedInv, ExpiryInv
<1>8. WindowHolds'
  <2>1. Granted' \subseteq Granted
    BY DEF Passes, Granted, Entry_
  <2>2. trimmed <= trimmed'
    BY SMTT(60) DEF Passes, WindowInv, WindowTypeOK
  <2>3. \A e \in Recent' : e \in zset => e \in zset'
    BY DEF Passes
  <2> QED
    BY <1>2, <2>1, <2>2, <2>3, StillHolds DEF WindowInv
<1> QED
  BY <1>2, <1>3, <1>4, <1>5, <1>6, <1>7, <1>8 DEF WindowInv

LEMMA NothingChanges ==
  ASSUME WindowInv, UNCHANGED windowVars
  PROVE  WindowInv'
BY DEF windowVars, WindowInv, WindowTypeOK, ClockInv, MembersInv, AllowedInv,
       CountedInv, ExpiryInv, WindowHolds, CapWithinWindow, AllowedStillCounts,
       Recent, Granted, Entry_

-----------------------------------------------------------------------------
(* Theorems.                                                                 *)

LEMMA WindowStep == WindowInv /\ [WindowNext]_windowVars => WindowInv'
<1> SUFFICES ASSUME WindowInv, [WindowNext]_windowVars PROVE WindowInv'
  OBVIOUS
<1>1. CASE UNCHANGED windowVars
  BY <1>1, NothingChanges
<1>2. ASSUME NEW c \in Callers,
             \/ Ask(c) \/ Trim(c) \/ Add(c) \/ Card(c) \/ Expire(c)
             \/ Decide(c) \/ Rollback(c) \/ Vanish(c)
      PROVE  WindowInv'
  BY <1>2, AskKeeps, TrimKeeps, AddKeeps, CardKeeps, ExpireKeeps, DecideKeeps,
     RollbackKeeps, VanishKeeps
<1>3. CASE GetRateUsage
  BY <1>3, GetRateUsageKeeps
<1>4. CASE KeyExpires
  BY <1>4, KeyExpiresKeeps
<1>5. CASE Passes
  BY <1>5, PassesKeeps
<1> QED
  BY <1>1, <1>2, <1>3, <1>4, <1>5 DEF WindowNext

\* Every command of checkAndConsumeRate, and every fault between two of them,
\* keeps the invariant.
THEOREM WindowInvariant == WindowSpec => []WindowInv
BY InitHolds, WindowStep, PTL DEF WindowSpec

\* The set, its key and the calls in progress keep their types, and the set
\* stays finite.
THEOREM WindowTypes == WindowSpec => []WindowTypeOK
<1>1. WindowInv => WindowTypeOK
  BY DEF WindowInv
<1> QED
  BY <1>1, WindowInvariant, PTL

\* The limiter keeps its promise, for every cap, window and number of jobs: no
\* more sends than the cap are let through in a window, and none of them is
\* forgotten before the window has passed.
THEOREM TheCapHoldsInEveryWindow == WindowSpec => []WindowHolds
<1>1. WindowInv => WindowHolds
  BY DEF WindowInv
<1> QED
  BY <1>1, WindowInvariant, PTL

(***************************************************************************)
(* The budget for model calls.                                             *)
(***************************************************************************)

\* A call that may still add to the row of this month: one that has passed the
\* gate, or one that goes by the row of an earlier month.
MayAdd(c) ==
  \/ calls[c].pc \in {"chat", "moderate", "record"}
  \/ calls[c].pc \in {"create", "reread"} /\ calls[c].month < month

Adders == {c \in Calls : MayAdd(c)}

Dearest == Max(Costs)

\* What is spent, and what the calls that may add could cost, stays below the
\* cap and one dearest answer for each place of the worker.
RoomInv ==
  SpentIn(month) + Dearest * Cardinality(Adders)
    < Cap + Dearest * Cardinality(Calls)

CallsInv ==
  /\ \A m \in Months : m > month => usage[m] = NoRow
  /\ \A c \in Calls : calls[c].month <= month /\ calls[c].cost <= Dearest

BudgetInv == BudgetTypeOK /\ CallsInv /\ RoomInv /\ OvershootIsBounded

\* A finite set of natural numbers has a maximum: take a number with as few
\* above it as can be.
LEMMA MaxIs ==
  ASSUME NEW S, S \subseteq Nat, S # {}, IsFiniteSet(S)
  PROVE  Max(S) \in S /\ \A y \in S : y <= Max(S)
<1> DEFINE Above(x) == {y \in S : y > x}
           T == {Above(x) : x \in S}
<1>1. T \subseteq FiniteSubsetsOf(S)
  <2> SUFFICES ASSUME NEW x \in S PROVE Above(x) \in FiniteSubsetsOf(S)
    OBVIOUS
  <2>1. Above(x) \subseteq S /\ IsFiniteSet(Above(x))
    BY FS_Subset
  <2> QED
    BY <2>1 DEF FiniteSubsetsOf
<1>2. T # {}
  OBVIOUS
<1>3. IsWellFoundedOn(StrictSubsetOrdering(S), FiniteSubsetsOf(S))
  BY FS_StrictSubsetOrderingWellFounded
<1> HIDE DEF T
<1>4. PICK X \in T : \A Y \in T : <<Y, X>> \notin StrictSubsetOrdering(S)
  BY <1>1, <1>2, <1>3, WFMin
<1>5. PICK x \in S : X = Above(x)
  BY DEF T
<1>6. \A y \in S : y <= x
  <2> SUFFICES ASSUME NEW y \in S, y > x PROVE FALSE
    BY <1>5
  <2>1. Above(y) \subseteq Above(x) /\ y \in Above(x) /\ y \notin Above(y)
    <3>1. \A z \in S : z > y => z > x
      BY <1>5
    <3>2. ~(y > y)
      OBVIOUS
    <3> QED
      BY <3>1, <3>2
  <2>2. <<Above(y), Above(x)>> \in StrictSubsetOrdering(S)
    BY <2>1 DEF StrictSubsetOrdering
  <2>3. Above(y) \in T
    BY DEF T
  <2> QED
    BY <1>4, <1>5, <2>2, <2>3
<1>7. \A y \in S : x >= y
  BY <1>6
<1>8. Max(S) \in S /\ \A y \in S : Max(S) >= y
  BY <1>5, <1>7, Zenon DEF Max
<1> QED
  BY <1>8

LEMMA DearestIs ==
  Dearest \in Nat /\ \A cost \in Costs : cost \in Nat /\ cost <= Dearest
<1>1. ASSUME NEW u \in Usages PROVE CostPaise(u) \in Nat
  <2>1. u[1] \in Nat /\ u[2] \in Nat
    BY BudgetAssumption
  <2> QED
    BY <2>1 DEF CostPaise
<1>2. Costs \subseteq Nat
  BY <1>1 DEF Costs
<1>3. Costs # {}
  BY BudgetAssumption DEF Costs
<1>4. IsFiniteSet(Costs)
  <2> DEFINE f == [u \in Usages |-> CostPaise(u)]
  <2>1. f \in Surjection(Usages, Costs)
    BY DEF Surjection, Costs
  <2> QED
    BY <2>1, BudgetAssumption, FS_Surjection
<1>5. Max(Costs) \in Costs /\ \A y \in Costs : y <= Max(Costs)
  BY <1>2, <1>3, <1>4, MaxIs
<1> QED
  BY <1>2, <1>5 DEF Dearest

LEMMA TimesIs ==
  ASSUME NEW d \in Nat, NEW n \in Nat, NEW m \in Nat, n <= m
  PROVE  /\ d * n \in Nat /\ d * m \in Nat /\ d * n <= d * m
         /\ m * d = d * m /\ d * (n + 1) = d * n + d
<1>1. PICK k \in Nat : m = n + k
  <2>1. m - n \in Nat /\ m = n + (m - n)
    OBVIOUS
  <2> QED
    BY <2>1
<1>2. d * n \in Nat /\ d * k \in Nat /\ d * m = d * n + d * k
  BY <1>1
<1> QED
  BY <1>2

LEMMA CountsAre ==
  /\ Cardinality(Calls) \in Nat
  /\ \A S \in SUBSET Calls : IsFiniteSet(S) /\ Cardinality(S) \in Nat
                             /\ Cardinality(S) <= Cardinality(Calls)
BY BudgetAssumption, FS_Subset, FS_CardinalityType

LEMMA SpentIs ==
  ASSUME BudgetTypeOK, NEW m \in Months PROVE SpentIn(m) \in Nat
BY DEF BudgetTypeOK, SpentIn

\* What a call becomes is a call, and none that may add unless it passes the gate.
LEMMA EndedIs ==
  ASSUME NEW call \in Call, NEW outcome \in Outcomes
  PROVE  /\ Ended(call, outcome) \in Call /\ Ended(call, outcome).pc = "idle"
         /\ Ended(call, outcome).cost = 0 /\ Ended(call, outcome).month = 0
<1>1. 0 \in Months
  BY BudgetAssumption DEF Months
<1> QED
  BY <1>1 DEF Ended, Call

LEMMA GateIs ==
  ASSUME NEW call \in Call, NEW cost \in Nat
  PROVE  /\ Gate(call, cost) \in Call
         /\ Gate(call, cost).month \in {0, call.month}
         /\ Gate(call, cost).cost \in {0, call.cost}
         /\ \/ Gate(call, cost).pc = "idle"
            \/ Gate(call, cost).pc = "chat" /\ cost < Cap
<1>1. Cap \in Nat
  BY BudgetAssumption
<1>2. [call EXCEPT !.pc = "chat"] \in Call
      /\ [call EXCEPT !.pc = "chat"].pc = "chat"
      /\ [call EXCEPT !.pc = "chat"].month = call.month
      /\ [call EXCEPT !.pc = "chat"].cost = call.cost
  BY DEF Call
<1>3. "capped" \in Outcomes /\ "unclassified" \in Outcomes
  BY DEF Outcomes
<1>4. CASE cost >= Cap
  <2>1. PICK outcome \in Outcomes : Gate(call, cost) = Ended(call, outcome)
    BY <1>3, <1>4 DEF Gate
  <2> QED
    BY <2>1, EndedIs
<1>5. CASE ~(cost >= Cap)
  BY <1>1, <1>2, <1>5 DEF Gate
<1> QED
  BY <1>4, <1>5

\* One call moves.
LEMMA CallMoves ==
  ASSUME BudgetTypeOK, NEW c \in Calls, NEW call \in Call, calls' = [calls EXCEPT ![c] = call]
  PROVE  /\ calls' \in [Calls -> Call] /\ calls'[c] = call
         /\ \A d \in Calls \ {c} : calls'[d] = calls[d]
BY DEF BudgetTypeOK

\* A step of one call that leaves the month and the rows of other months: it
\* adds to this month's row no more than the room it gives up, or the row is
\* below the cap.
LEMMA BudgetFrame ==
  ASSUME BudgetInv, NEW c \in Calls, NEW call \in Call, calls' = [calls EXCEPT ![c] = call],
         month' = month, BudgetTypeOK',
         \A m \in Months \ {month} : SpentIn(m)' = SpentIn(m) /\ (m > month => usage'[m] = usage[m]),
         call.month <= month, call.cost <= Dearest,
         \/ /\ SpentIn(month)' <= SpentIn(month)
            /\ call.pc \in {"chat", "moderate", "record"}
                 \/ (call.pc \in {"create", "reread"} /\ call.month < month)
                 => MayAdd(c)
         \/ SpentIn(month)' < Cap
         \/ /\ SpentIn(month)' <= SpentIn(month) + Dearest
            /\ MayAdd(c) /\ call.pc = "idle"
  PROVE  BudgetInv'
<1> USE DEF Adders
<1>1. /\ calls'[c] = call /\ \A d \in Calls \ {c} : calls'[d] = calls[d]
      /\ month \in Months /\ Cap \in Nat /\ Dearest \in Nat
      /\ SpentIn(month) \in Nat /\ SpentIn(month)' \in Nat
  <2>1. calls'[c] = call /\ \A d \in Calls \ {c} : calls'[d] = calls[d]
    BY CallMoves DEF BudgetInv
  <2>2. month \in Months /\ Cap \in Nat /\ SpentIn(month) \in Nat
    BY SpentIs, BudgetAssumption DEF BudgetInv, BudgetTypeOK
  <2>3. SpentIn(month)' \in Nat
    BY <2>2 DEF BudgetTypeOK, SpentIn
  <2> QED
    BY <2>1, <2>2, <2>3, DearestIs
<1>2. CallsInv'
  <2>1. \A m \in Months : m > month' => usage'[m] = NoRow
    <3>1. \A m \in Months : m > month => m # month
      BY BudgetAssumption DEF BudgetInv, BudgetTypeOK, Months
    <3> QED
      BY <3>1 DEF BudgetInv, CallsInv
  <2>2. \A d \in Calls : calls'[d].month <= month' /\ calls'[d].cost <= Dearest
    BY <1>1 DEF BudgetInv, CallsInv
  <2> QED
    BY <2>1, <2>2 DEF CallsInv
<1> DEFINE n == Cardinality(Adders)
           k == Cardinality(Calls)
           n1 == Cardinality(Adders')
<1>3. /\ n \in Nat /\ k \in Nat /\ n1 \in Nat /\ n1 <= k /\ IsFiniteSet(Adders)
      /\ Adders \subseteq Calls /\ Adders' \subseteq Calls
  BY CountsAre
<1>4. \A d \in Calls \ {c} : MayAdd(d)' <=> MayAdd(d)
  BY <1>1 DEF MayAdd
<1>5. SpentIn(month) + Dearest * n < Cap + Dearest * k
  BY DEF BudgetInv, RoomInv
<1>6. SpentIn(month)' + Dearest * n1 < Cap + Dearest * k
  <2>1. CASE SpentIn(month)' < Cap
    <3>1. Dearest * n1 \in Nat /\ Dearest * k \in Nat /\ Dearest * n1 <= Dearest * k
      BY <1>1, <1>3, TimesIs
    <3> QED
      BY <1>1, <2>1, <3>1
  <2>2. CASE /\ SpentIn(month)' <= SpentIn(month)
             /\ call.pc \in {"chat", "moderate", "record"}
                  \/ (call.pc \in {"create", "reread"} /\ call.month < month)
                  => MayAdd(c)
    <3>1. Adders' \subseteq Adders
      BY <1>1, <1>4, <2>2 DEF MayAdd
    <3>2. n1 <= n
      BY <1>3, <3>1, FS_Subset
    <3>3. /\ Dearest * n1 \in Nat /\ Dearest * n \in Nat /\ Dearest * k \in Nat
          /\ Dearest * n1 <= Dearest * n
      BY <1>1, <1>3, <3>2, TimesIs
    <3> HIDE DEF n, n1, k
    <3> QED
      BY <1>1, <1>5, <2>2, <3>3
  <2>3. CASE /\ SpentIn(month)' <= SpentIn(month) + Dearest
             /\ MayAdd(c) /\ call.pc = "idle"
    <3>1. Adders' \subseteq Adders \ {c}
      BY <1>1, <1>4, <2>3 DEF MayAdd
    <3>2. c \in Adders
      BY <2>3
    <3>3. IsFiniteSet(Adders \ {c}) /\ Cardinality(Adders \ {c}) = n - 1
      BY <1>3, <3>2, FS_RemoveElement
    <3>4. n1 <= Cardinality(Adders \ {c}) /\ Cardinality(Adders \ {c}) \in Nat
      BY <3>1, <3>3, FS_Subset, FS_CardinalityType
    <3>5. n1 + 1 <= n
      <4> HIDE DEF n, n1
      <4> QED
        BY <1>3, <3>3, <3>4
    <3>6. /\ Dearest * (n1 + 1) \in Nat /\ Dearest * n \in Nat /\ Dearest * k \in Nat
          /\ Dearest * (n1 + 1) <= Dearest * n
      <4>1. n1 + 1 \in Nat
        BY <1>3
      <4> HIDE DEF n, n1, k
      <4> QED
        BY <1>1, <1>3, <3>5, <4>1, TimesIs
    <3>7. Dearest * (n1 + 1) = Dearest * n1 + Dearest /\ Dearest * n1 \in Nat
      <4> HIDE DEF n1
      <4> QED
        BY <1>1, <1>3, TimesIs
    <3> HIDE DEF n, n1, k
    <3> QED
      BY <1>1, <1>5, <2>3, <3>6, <3>7
  <2> QED
    BY <2>1, <2>2, <2>3
<1>7. OvershootIsBounded'
  <2>1. /\ Dearest * n1 \in Nat /\ Dearest * k \in Nat /\ Dearest * k = k * Dearest
    <3> HIDE DEF n1, k
    <3> QED
      BY <1>1, <1>3, TimesIs
  <2>2. SpentIn(month)' < Cap + k * Dearest
    <3> HIDE DEF n1, k
    <3> QED
      BY <1>1, <1>6, <2>1
  <2>3. \A m \in Months : SpentIn(m) < Cap + k * Dearest
    BY DEF BudgetInv, OvershootIsBounded, Dearest
  <2>4. \A m \in Months : SpentIn(m)' < Cap + k * Dearest
    <3> HIDE DEF k
    <3> QED
      BY <2>2, <2>3
  <2> QED
    BY <2>4 DEF OvershootIsBounded, Dearest, SpentIn
<1>8. RoomInv'
  BY <1>6 DEF RoomInv, SpentIn
<1> QED
  BY <1>2, <1>7, <1>8 DEF BudgetInv

LEMMA BudgetStarts == BudgetInit => BudgetInv
<1> SUFFICES ASSUME BudgetInit PROVE BudgetInv
  OBVIOUS
<1> DEFINE none == [pc |-> "idle", kind |-> "reply", month |-> 0, cost |-> 0,
                    fallback |-> FALSE, outcome |-> "none"]
<1>1. 0 \in Months /\ 0 \in 0..MaxBegun /\ Cap \in Nat \ {0} /\ Dearest \in Nat
  BY BudgetAssumption, DearestIs DEF Months
<1>2. \A c \in Calls : calls[c].pc = "idle" /\ calls[c].month = 0 /\ calls[c].cost = 0
  BY DEF BudgetInit
<1>3. none \in Call
  BY <1>1 DEF Call, Outcomes
<1>4. BudgetTypeOK
  BY <1>1, <1>3 DEF BudgetInit, BudgetTypeOK
<1>5. CallsInv
  BY <1>1, <1>2 DEF BudgetInit, CallsInv
<1>6. \A m \in Months : SpentIn(m) = 0
  BY DEF BudgetInit, SpentIn
<1>7. Dearest * Cardinality(Adders) <= Dearest * Cardinality(Calls)
      /\ Dearest * Cardinality(Adders) \in Nat /\ Dearest * Cardinality(Calls) \in Nat
      /\ Dearest * Cardinality(Calls) = Cardinality(Calls) * Dearest
  <2>1. Adders \in SUBSET Calls
    BY DEF Adders
  <2>2. /\ Cardinality(Adders) \in Nat /\ Cardinality(Calls) \in Nat
        /\ Cardinality(Adders) <= Cardinality(Calls)
    BY <2>1, CountsAre
  <2> QED
    BY <1>1, <2>2, TimesIs
<1>8. RoomInv
  BY <1>1, <1>6, <1>7 DEF RoomInv, BudgetInit
<1>9. OvershootIsBounded
  BY <1>1, <1>6, <1>7 DEF OvershootIsBounded, Dearest
<1> QED
  BY <1>4, <1>5, <1>8, <1>9 DEF BudgetInv

LEMMA BudgetStep ==
  ASSUME BudgetInv, [BudgetNext]_budgetVars PROVE BudgetInv'
<1>t. /\ BudgetTypeOK /\ Cap \in Nat \ {0} /\ NoRow \notin Nat /\ Dearest \in Nat
      /\ month \in Months /\ month \in Nat
      /\ \A c \in Calls : /\ calls[c] \in Call /\ calls[c].month \in Months
                          /\ calls[c].month \in Nat
                          /\ calls[c].month <= month
                          /\ calls[c].cost \in Nat /\ calls[c].cost <= Dearest
                          /\ calls[c].kind \in {"reply", "classify"}
  BY BudgetAssumption, DearestIs DEF BudgetInv, BudgetTypeOK, CallsInv, Call, Months
<1>o. {"none", "sent", "fallback", "failed", "capped", "classified", "unclassified"}
        \subseteq Outcomes /\ 0 \in Months
  BY BudgetAssumption DEF Outcomes, Months
\* A call that ends, without adding to a row.
<1>e. ASSUME NEW c \in Calls, NEW outcome \in Outcomes, Ends(c, outcome),
             UNCHANGED <<usage, month>>, begun' \in 0..MaxBegun, paid' \in Nat,
             gaps' \subseteq Gaps
      PROVE  BudgetInv'
  <2> DEFINE call == Ended(calls[c], outcome)
  <2>1. call \in Call /\ call.pc = "idle" /\ call.cost = 0 /\ call.month = 0
    BY <1>t, EndedIs
  <2>2. calls' = [calls EXCEPT ![c] = call]
    BY <1>e DEF Ends
  <2>3. BudgetTypeOK'
    BY <1>t, <1>e, <2>1, <2>2, CallMoves DEF BudgetTypeOK
  <2>4. \A m \in Months : SpentIn(m)' = SpentIn(m) /\ SpentIn(m) \in Nat
    BY <1>e, <1>t, SpentIs DEF SpentIn
  <2>5. 0 <= month /\ 0 <= Dearest /\ SpentIn(month)' <= SpentIn(month)
    BY <1>t, <1>e, <2>4
  <2> HIDE DEF call
  <2> QED
    BY <1>e, <2>1, <2>2, <2>3, <2>4, <2>5, BudgetFrame
\* A call that passes the gate or not.
<1>g. ASSUME NEW c \in Calls, NEW call \in Call, NEW cost \in Nat,
             calls' = [calls EXCEPT ![c] = Gate(call, cost)],
             call.month <= month, call.cost <= Dearest, month' = month, BudgetTypeOK',
             \A m \in Months : SpentIn(m)' = SpentIn(m),
             \A m \in Months : m > month => usage'[m] = usage[m],
             (cost < Cap => SpentIn(month) < Cap) \/ MayAdd(c)
      PROVE  BudgetInv'
  <2> DEFINE gated == Gate(call, cost)
  <2>1. /\ gated \in Call /\ gated.month \in {0, call.month} /\ gated.cost \in {0, call.cost}
        /\ gated.pc = "idle" \/ (gated.pc = "chat" /\ cost < Cap)
    BY <1>g, GateIs
  <2>2. gated.month <= month /\ gated.cost <= Dearest
    BY <1>t, <1>g, <2>1
  <2>3. SpentIn(month)' <= SpentIn(month)
    BY <1>g, <1>t, SpentIs
  <2> HIDE DEF gated
  <2>4. calls' = [calls EXCEPT ![c] = gated]
    BY <1>g DEF gated
  <2>5. (gated.pc = "chat" => MayAdd(c)) \/ SpentIn(month)' < Cap
    BY <1>g, <1>t, <2>1
  <2> QED
    BY <1>g, <2>1, <2>2, <2>3, <2>4, <2>5, BudgetFrame
<1>1. ASSUME NEW c \in Calls, Begin(c)
      PROVE  BudgetInv'
  <2>1. PICK kind \in {"reply", "classify"}, fallback \in BOOLEAN :
          LET call == [pc |-> "create", kind |-> kind, month |-> month, cost |-> 0,
                       fallback |-> fallback, outcome |-> "none"]
          IN calls' = [calls EXCEPT ![c] =
               IF usage[month] = NoRow THEN call ELSE Gate(call, usage[month])]
    BY <1>1 DEF Begin
  <2> DEFINE call == [pc |-> "create", kind |-> kind, month |-> month, cost |-> 0,
                      fallback |-> fallback, outcome |-> "none"]
  <2>2. /\ call \in Call /\ call.month = month /\ call.cost = 0 /\ call.pc = "create"
    BY <1>t, <1>o DEF Call
  <2>3. /\ UNCHANGED <<usage, month, paid, gaps>> /\ begun' \in 0..MaxBegun
    BY <1>1, <1>t, BudgetAssumption DEF Begin, BudgetTypeOK
  <2>4. \A m \in Months : SpentIn(m)' = SpentIn(m) /\ SpentIn(m) \in Nat
    BY <1>t, <2>3, SpentIs DEF SpentIn
  <2>5. month <= month /\ 0 <= Dearest
    BY <1>t
  <2>6. CASE usage[month] = NoRow
    <3>1. calls' = [calls EXCEPT ![c] = call]
      BY <2>1, <2>6
    <3> HIDE DEF call
    <3>2. BudgetTypeOK'
      BY <1>t, <2>2, <2>3, <3>1, CallMoves DEF BudgetTypeOK
    <3>3. SpentIn(month)' < Cap
      BY <1>t, <2>3, <2>6 DEF SpentIn
    <3> QED
      BY <1>t, <2>2, <2>3, <2>4, <2>5, <3>1, <3>2, <3>3, BudgetFrame
  <2>7. CASE usage[month] # NoRow
    <3> DEFINE row == usage[month]
    <3>1. row \in Nat /\ SpentIn(month) = row
      BY <1>t, <2>7 DEF BudgetTypeOK, SpentIn
    <3>2. calls' = [calls EXCEPT ![c] = Gate(call, row)]
      BY <2>1, <2>7
    <3> HIDE DEF call, row
    <3>3. BudgetTypeOK'
      <4>1. Gate(call, row) \in Call
        BY <2>2, <3>1, GateIs
      <4> QED
        BY <1>t, <2>3, <3>2, <4>1, CallMoves DEF BudgetTypeOK
    <3> QED
      BY <1>g, <2>2, <2>3, <2>4, <2>5, <3>1, <3>2, <3>3
  <2> QED
    BY <2>6, <2>7
<1>2. ASSUME NEW c \in Calls, CreateRow(c)
      PROVE  BudgetInv'
  <2> DEFINE m == calls[c].month
  <2>1. /\ UNCHANGED <<month, begun, paid, gaps>> /\ calls[c].pc = "create"
        /\ m \in Months /\ calls[c] \in Call /\ m \in Nat /\ m <= month
    BY <1>2, <1>t DEF CreateRow
  <2>2. MayAdd(c) \/ m = month
    <3>1. m < month \/ m = month
      BY <1>t, <2>1
    <3> QED
      BY <2>1, <3>1 DEF MayAdd
  <2>3. CASE /\ usage[m] = NoRow /\ usage' = [usage EXCEPT ![m] = 0]
             /\ calls' = [calls EXCEPT ![c] = Gate(@, 0)]
    <3>1. calls' = [calls EXCEPT ![c] = Gate(calls[c], 0)]
      BY <2>3
    <3>2. BudgetTypeOK'
      <4>1. Gate(calls[c], 0) \in Call
        BY <2>1, GateIs
      <4>2. usage' \in [Months -> Nat \cup {NoRow}]
        BY <1>t, <2>3 DEF BudgetTypeOK
      <4> QED
        BY <1>t, <2>1, <3>1, <4>1, <4>2, CallMoves DEF BudgetTypeOK
    <3>3. \A n \in Months : SpentIn(n)' = SpentIn(n)
      BY <1>t, <2>1, <2>3 DEF SpentIn, BudgetTypeOK
    <3>4. \A n \in Months : n > month => usage'[n] = usage[n]
      BY <1>t, <2>1, <2>3 DEF BudgetTypeOK
    <3>5. MayAdd(c) \/ SpentIn(month) < Cap
      BY <1>t, <2>2, <2>3 DEF SpentIn
    <3> QED
      BY <1>g, <1>t, <2>1, <3>1, <3>2, <3>3, <3>4, <3>5
  <2>4. CASE calls' = [calls EXCEPT ![c].pc = "reread"] /\ usage' = usage
    <3> DEFINE call == [calls[c] EXCEPT !.pc = "reread"]
    <3>1. calls' = [calls EXCEPT ![c] = call]
      BY <1>t, <2>4 DEF BudgetTypeOK
    <3>2. call \in Call /\ call.pc = "reread" /\ call.month = m /\ call.cost = calls[c].cost
      BY <2>1 DEF Call
    <3> HIDE DEF call
    <3>3. BudgetTypeOK'
      BY <1>t, <2>1, <2>4, <3>1, <3>2, CallMoves DEF BudgetTypeOK
    <3>4. \A n \in Months : SpentIn(n)' = SpentIn(n) /\ SpentIn(n) \in Nat
      BY <1>t, <2>4, SpentIs DEF SpentIn
    <3>5. call.month < month => MayAdd(c)
      BY <2>1, <3>2 DEF MayAdd
    <3>6. /\ SpentIn(month)' <= SpentIn(month)
          /\ call.month <= month /\ call.cost <= Dearest
      BY <1>t, <2>1, <3>2, <3>4
    <3> QED
      BY <2>1, <2>4, <3>1, <3>2, <3>3, <3>4, <3>5, <3>6, BudgetFrame
  <2> QED
    BY <1>2, <2>3, <2>4 DEF CreateRow
<1>3. ASSUME NEW c \in Calls, RereadRow(c)
      PROVE  BudgetInv'
  <2> DEFINE m == calls[c].month
             cost == IF usage[m] = NoRow THEN 0 ELSE usage[m]
  <2>1. /\ UNCHANGED <<usage, month, begun, paid, gaps>> /\ calls[c].pc = "reread"
        /\ calls' = [calls EXCEPT ![c] = Gate(calls[c], cost)]
        /\ m \in Months /\ calls[c] \in Call /\ m \in Nat /\ m <= month
    BY <1>3, <1>t DEF RereadRow
  <2>2. cost \in Nat /\ cost = SpentIn(m)
    BY <1>t, <2>1 DEF BudgetTypeOK, SpentIn
  <2>3. MayAdd(c) \/ m = month
    <3>1. m < month \/ m = month
      BY <1>t, <2>1
    <3> QED
      BY <2>1, <3>1 DEF MayAdd
  <2>4. (cost < Cap => SpentIn(month) < Cap) \/ MayAdd(c)
    BY <2>2, <2>3
  <2> HIDE DEF cost
  <2>5. BudgetTypeOK'
    <3>1. Gate(calls[c], cost) \in Call
      BY <2>1, <2>2, GateIs
    <3> QED
      BY <1>t, <2>1, <3>1, CallMoves DEF BudgetTypeOK
  <2>6. \A n \in Months : SpentIn(n)' = SpentIn(n)
    BY <2>1 DEF SpentIn
  <2> QED
    BY <1>g, <1>t, <2>1, <2>2, <2>4, <2>5, <2>6
\* A call that goes on beyond the gate.
<1>b. ASSUME NEW c \in Calls, NEW call \in Call, calls' = [calls EXCEPT ![c] = call],
             calls[c].pc \in {"chat", "moderate"}, call.month = calls[c].month,
             call.cost <= Dearest, UNCHANGED <<usage, month, begun>>, paid' \in Nat,
             gaps' \subseteq Gaps
      PROVE  BudgetInv'
  <2>1. BudgetTypeOK'
    BY <1>t, <1>b, CallMoves DEF BudgetTypeOK
  <2>2. \A n \in Months : SpentIn(n)' = SpentIn(n) /\ SpentIn(n) \in Nat
    BY <1>t, <1>b, SpentIs DEF SpentIn
  <2>3. MayAdd(c) /\ call.month <= month /\ SpentIn(month)' <= SpentIn(month)
    BY <1>t, <1>b, <2>2 DEF MayAdd
  <2> QED
    BY <1>b, <2>1, <2>2, <2>3, BudgetFrame
<1>4. ASSUME NEW c \in Calls, Chat(c)
      PROVE  BudgetInv'
  <2>1. calls[c].pc = "chat" /\ UNCHANGED <<usage, month, begun>> /\ calls[c] \in Call
        /\ begun \in 0..MaxBegun /\ paid \in Nat /\ gaps \subseteq Gaps
    BY <1>4, <1>t DEF Chat, BudgetTypeOK
  <2>2. PICK charge \in Costs \cup {0} :
          /\ paid' = paid + charge
          /\ \/ \E told \in {charge, 0} :
                  /\ calls' = [calls EXCEPT ![c].cost = told,
                       ![c].pc = IF calls[c].kind = "reply" THEN "moderate" ELSE "record"]
                  /\ Lost(charge - told, "unmetered")
             \/ FallsBack(c) /\ Lost(charge, "discarded")
    BY <1>4 DEF Chat
  <2>3. charge \in Nat /\ charge <= Dearest /\ 0 <= Dearest /\ paid' \in Nat
    BY <1>t, <2>1, <2>2, DearestIs
  <2>4. ASSUME NEW told \in {charge, 0}, Lost(charge - told, "unmetered"),
               calls' = [calls EXCEPT ![c].cost = told,
                 ![c].pc = IF calls[c].kind = "reply" THEN "moderate" ELSE "record"]
        PROVE  BudgetInv'
    <3> DEFINE pc == IF calls[c].kind = "reply" THEN "moderate" ELSE "record"
               call == [calls[c] EXCEPT !.cost = told, !.pc = pc]
    <3>1. calls' = [calls EXCEPT ![c] = call]
      BY <1>t, <2>4 DEF BudgetTypeOK
    <3>2. told \in Nat /\ told <= Dearest /\ pc \in {"moderate", "record"}
      BY <2>3
    <3> HIDE DEF pc
    <3>3. call \in Call /\ call.month = calls[c].month /\ call.cost = told
      BY <2>1, <3>2 DEF Call
    <3>4. gaps' \subseteq Gaps
      BY <2>1, <2>4 DEF Lost, Gaps
    <3> HIDE DEF call
    <3> QED
      BY <1>b, <2>1, <2>3, <3>1, <3>2, <3>3, <3>4
  <2>5. CASE FallsBack(c) /\ Lost(charge, "discarded")
    <3>1. PICK outcome \in Outcomes : Ends(c, outcome)
      BY <1>o, <2>5 DEF FallsBack
    <3>2. gaps' \subseteq Gaps
      BY <2>1, <2>5 DEF Lost, Gaps
    <3> QED
      BY <1>e, <2>1, <2>3, <3>1, <3>2
  <2> QED
    BY <2>2, <2>4, <2>5
<1>5. ASSUME NEW c \in Calls, Moderate(c)
      PROVE  BudgetInv'
  <2>1. calls[c].pc = "moderate" /\ UNCHANGED <<usage, month, begun, paid>>
        /\ calls[c] \in Call /\ begun \in 0..MaxBegun /\ paid \in Nat
        /\ gaps' \subseteq Gaps
    BY <1>5, <1>t DEF Moderate, Lost, Gaps, BudgetTypeOK
  <2>2. CASE calls' = [calls EXCEPT ![c].pc = "record"]
    <3> DEFINE call == [calls[c] EXCEPT !.pc = "record"]
    <3>1. calls' = [calls EXCEPT ![c] = call]
      BY <1>t, <2>2 DEF BudgetTypeOK
    <3>2. call \in Call /\ call.month = calls[c].month /\ call.cost = calls[c].cost
      BY <2>1 DEF Call
    <3> HIDE DEF call
    <3> QED
      BY <1>b, <1>t, <2>1, <3>1, <3>2
  <2>3. CASE FallsBack(c)
    <3>1. PICK outcome \in Outcomes : Ends(c, outcome)
      BY <1>o, <2>3 DEF FallsBack
    <3> QED
      BY <1>e, <2>1, <3>1
  <2> QED
    BY <1>5, <2>2, <2>3 DEF Moderate
<1>6. ASSUME NEW c \in Calls, Record(c)
      PROVE  BudgetInv'
  <2>1. calls[c].pc = "record" /\ UNCHANGED <<month, begun, paid>>
        /\ begun \in 0..MaxBegun /\ paid \in Nat /\ calls[c] \in Call
        /\ gaps' \subseteq Gaps
    BY <1>6, <1>t DEF Record, Gaps, BudgetTypeOK
  <2>2. PICK outcome \in Outcomes : Ends(c, outcome)
    BY <1>6, <1>o DEF Record
  <2>3. CASE usage' = usage
    BY <1>e, <2>1, <2>2, <2>3
  <2>4. CASE usage[month] # NoRow /\ usage' = [usage EXCEPT ![month] = @ + calls[c].cost]
    <3> DEFINE call == Ended(calls[c], outcome)
    <3>1. call \in Call /\ call.pc = "idle" /\ call.cost = 0 /\ call.month = 0
      BY <1>t, EndedIs
    <3>2. calls' = [calls EXCEPT ![c] = call]
      BY <2>2 DEF Ends
    <3> HIDE DEF call
    <3>3. usage[month] \in Nat /\ usage' \in [Months -> Nat \cup {NoRow}]
          /\ usage'[month] = usage[month] + calls[c].cost
          /\ \A n \in Months \ {month} : usage'[n] = usage[n]
      BY <1>t, <2>4 DEF BudgetTypeOK
    <3>4. BudgetTypeOK'
      BY <1>t, <2>1, <3>1, <3>2, <3>3, CallMoves DEF BudgetTypeOK
    <3>5. SpentIn(month)' <= SpentIn(month) + Dearest
      <4>1. SpentIn(month) = usage[month] /\ SpentIn(month)' = usage[month] + calls[c].cost
        BY <1>t, <2>1, <3>3 DEF SpentIn
      <4> QED
        BY <1>t, <3>3, <4>1
    <3>6. \A n \in Months \ {month} : SpentIn(n)' = SpentIn(n)
      BY <3>3 DEF SpentIn
    <3>7. MayAdd(c) /\ 0 <= month /\ 0 <= Dearest
      BY <1>t, <2>1 DEF MayAdd
    <3> QED
      BY <2>1, <3>1, <3>2, <3>3, <3>4, <3>5, <3>6, <3>7, BudgetFrame
  <2> QED
    BY <1>6, <2>3, <2>4 DEF Record
<1>7. ASSUME NEW c \in Calls, Die(c)
      PROVE  BudgetInv'
  <2>1. PICK charge \in Costs \cup {0} :
          paid' = paid + charge /\ Lost(calls[c].cost + charge, "crash")
    BY <1>7 DEF Die
  <2>2. charge \in Nat
    BY <2>1, DearestIs
  <2>3. UNCHANGED <<usage, month, begun>> /\ begun \in 0..MaxBegun /\ Ends(c, "none")
        /\ paid \in Nat /\ gaps \subseteq Gaps
    BY <1>7, <1>t DEF Die, BudgetTypeOK
  <2>4. paid' \in Nat /\ gaps' \subseteq Gaps
    BY <2>1, <2>2, <2>3 DEF Lost, Gaps
  <2> QED
    BY <1>e, <1>o, <2>3, <2>4
<1>8. CASE MonthTurns
  <2>1. month' = month + 1 /\ month' \in Months /\ UNCHANGED <<usage, calls, begun, paid, gaps>>
    BY <1>8, <1>t, BudgetAssumption DEF MonthTurns, Months
  <2>2. BudgetTypeOK'
    BY <1>t, <2>1 DEF BudgetTypeOK
  <2>3. CallsInv'
    <3>1. \A n \in Months : n > month' => n > month
      BY <1>t, <2>1
    <3>2. \A c \in Calls : calls[c].month <= month'
      BY <1>t, <2>1
    <3> QED
      BY <2>1, <3>1, <3>2 DEF BudgetInv, CallsInv
  <2>4. SpentIn(month)' = 0
    <3>1. month' > month
      BY <1>t, <2>1
    <3>2. usage'[month'] = NoRow
      BY <2>1, <3>1 DEF BudgetInv, CallsInv
    <3> QED
      BY <3>2 DEF SpentIn
  <2>5. RoomInv'
    <3>1. Adders' \in SUBSET Calls
      BY DEF Adders
    <3>2. /\ Cardinality(Adders') \in Nat /\ Cardinality(Calls) \in Nat
          /\ Cardinality(Adders') <= Cardinality(Calls)
      BY <3>1, CountsAre
    <3>3. /\ Dearest * Cardinality(Adders') <= Dearest * Cardinality(Calls)
          /\ Dearest * Cardinality(Adders') \in Nat /\ Dearest * Cardinality(Calls) \in Nat
      BY <1>t, <3>2, TimesIs
    <3> QED
      BY <1>t, <2>4, <3>3 DEF RoomInv, SpentIn
  <2>6. OvershootIsBounded'
    BY <2>1 DEF BudgetInv, OvershootIsBounded, SpentIn
  <2> QED
    BY <2>2, <2>3, <2>5, <2>6 DEF BudgetInv
<1>9. CASE UNCHANGED budgetVars
  BY <1>9
     DEF budgetVars, BudgetInv, BudgetTypeOK, CallsInv, RoomInv, OvershootIsBounded,
              SpentIn, Adders, MayAdd
<1> QED
  BY <1>1, <1>2, <1>3, <1>4, <1>5, <1>6, <1>7, <1>8, <1>9 DEF BudgetNext

\* The cap of a plan can be passed, for the gate is read before the call and the
\* cost added after it, but only by one dearest answer for each model call that
\* the worker can have in progress, in every month.
THEOREM TheCapIsPassedByACallEach ==
  BudgetSpec => []OvershootIsBounded
<1>1. BudgetInv /\ [BudgetNext]_budgetVars => BudgetInv'
  BY BudgetStep
<1>2. BudgetInv => OvershootIsBounded
  BY DEF BudgetInv
<1> QED
  BY <1>1, <1>2, BudgetStarts, PTL DEF BudgetSpec

\* The card of the dashboard never shows a month as open in which the gate
\* refuses calls, and shows it as used up at most half a percent too early, for
\* every cap and every cost: pctOf rounds, and the gate compares paise.
THEOREM TheCardFollowsTheGate ==
  BudgetSpec => []CardMatchesGate
<1>1. ASSUME NEW cap \in Nat \ {0}, NEW used \in Nat
      PROVE  /\ used >= cap => CardSaysOver(used, cap)
             /\ CardSaysOver(used, cap) => 200 * (cap - used) <= cap
  <2> DEFINE pct == (200 * used + cap) \div (2 * cap)
  <2>1. /\ pct \in Nat
        /\ 2 * cap * pct <= 200 * used + cap /\ 200 * used + cap < 2 * cap * (pct + 1)
    OBVIOUS
  <2>2. pct >= 100 <=> PctOf(used, cap) >= 100
    <3>1. PctOf(used, cap) = Min({999, pct})
      BY DEF PctOf
    <3>2. Min({999, pct}) = IF pct < 999 THEN pct ELSE 999
      BY <2>1 DEF Min
    <3> QED
      BY <2>1, <3>1, <3>2
  <2>3. used >= cap => pct >= 100
    BY <2>1
  <2>4. pct >= 100 => 200 * (cap - used) <= cap
    BY <2>1
  <2> QED
    BY <2>2, <2>3, <2>4 DEF CardSaysOver
<1>2. BudgetInv => CardMatchesGate
  BY <1>1, SpentIs, BudgetAssumption DEF BudgetInv, CardMatchesGate
<1>3. BudgetInv /\ [BudgetNext]_budgetVars => BudgetInv'
  BY BudgetStep
<1> QED
  BY <1>2, <1>3, BudgetStarts, PTL DEF BudgetSpec

(***************************************************************************)
(* Sums over finite sets.  An induction on the number of elements takes    *)
(* its hypothesis from the set of numbers it holds for, not an operator.   *)
(***************************************************************************)

\* The library's induction is over a relation and a set; this is the form for numbers.
LEMMA Induction ==
  ASSUME NEW S \in SUBSET Nat, 0 \in S, \A n \in S : n + 1 \in S
  PROVE  S = Nat
<1> DEFINE Less == OpToRel(<, Nat)
           Rest == Nat \ S
<1> SUFFICES ASSUME Rest # {} PROVE FALSE
  OBVIOUS
<1>1. IsWellFoundedOn(Less, Nat)
  BY NatLessThanWellFounded
<1>2. PICK x \in Rest : \A y \in Rest : <<y, x>> \notin Less
  <2> Rest \subseteq Nat
    OBVIOUS
  <2> HIDE DEF Less, Rest
  <2> QED
    BY <1>1, WFMin, Zenon
<1>3. \A y \in Rest : ~ (y < x)
  BY <1>2 DEF OpToRel
<1>4. x # 0 /\ x - 1 \in Nat
  OBVIOUS
<1> QED
  BY <1>3, <1>4

First(s) == CHOOSE x \in s : TRUE

\* total[s] is the sum of g over s, for every subset s of S.
Totals(g, S, total) ==
  total = [s \in SUBSET S |-> IF s = {} THEN 0
                              ELSE g[First(s)] + total[s \ {First(s)}]]

SumOf(g, S) == (CHOOSE total : Totals(g, S, total))[S]

\* What a solution is: a number for each subset, and an element taken out at each step.
Sums(g, S, f) ==
  /\ f \in [SUBSET S -> Nat]
  /\ f[{}] = 0
  /\ \A s \in SUBSET S : s # {} => f[s] = g[First(s)] + f[s \ {First(s)}]


\* Subsets of S with at most n elements.
Small(S, n) == {s \in SUBSET S : Cardinality(s) <= n}

LEMMA FirstIs ==
  ASSUME NEW S, IsFiniteSet(S), NEW s \in SUBSET S, s # {}
  PROVE  /\ First(s) \in s
         /\ s \ {First(s)} \in SUBSET S
         /\ Cardinality(s) \in Nat /\ Cardinality(s \ {First(s)}) = Cardinality(s) - 1
<1>1. First(s) \in s
  BY DEF First
<1>2. IsFiniteSet(s)
  BY FS_Subset
<1> QED
  BY <1>1, <1>2, FS_RemoveElement, FS_CardinalityType

LEMMA SizeIs ==
  ASSUME NEW S, IsFiniteSet(S), NEW s \in SUBSET S
  PROVE  IsFiniteSet(s) /\ Cardinality(s) \in Nat /\ (Cardinality(s) = 0 <=> s = {})
BY FS_Subset, FS_CardinalityType, FS_EmptySet

LEMMA SmallIs ==
  ASSUME NEW S, IsFiniteSet(S)
  PROVE  /\ \A s \in Small(S, 0) : s = {}
         /\ \A n \in Nat : Small(S, n) \subseteq Small(S, n + 1)
<1>1. ASSUME NEW s \in Small(S, 0) PROVE s = {}
  BY SizeIs DEF Small
<1>2. ASSUME NEW n \in Nat, NEW s \in Small(S, n) PROVE s \in Small(S, n + 1)
  BY SizeIs DEF Small
<1> QED
  BY <1>1, <1>2

\* The equation that defines the totals has a solution: one for the sets of n elements
\* gives one for those of n + 1.
LEMMA TotalsExist ==
  ASSUME NEW S, IsFiniteSet(S), NEW g \in [S -> Nat]
  PROVE  \E total \in [SUBSET S -> Nat] : Totals(g, S, total)
<1> DEFINE Step(f, s) == IF s = {} THEN 0 ELSE g[First(s)] + f[s \ {First(s)}]
           Solves(f, n) == \A s \in Small(S, n) : f[s] = Step(f, s)
           Sizes == {n \in Nat : \E f \in [Small(S, n) -> Nat] : Solves(f, n)}
<1>1. 0 \in Sizes
  <2>1. \A s \in Small(S, 0) : s = {}
    BY SizeIs DEF Small
  <2>2. Solves([s \in Small(S, 0) |-> 0], 0)
    BY <2>1
  <2> QED
    BY <2>2
<1>2. ASSUME NEW n \in Sizes PROVE n + 1 \in Sizes
  <2>1. PICK f \in [Small(S, n) -> Nat] : Solves(f, n)
    OBVIOUS
  <2> DEFINE h == [s \in Small(S, n + 1) |-> Step(f, s)]
  <2>2. ASSUME NEW s \in Small(S, n + 1), s # {}
        PROVE  First(s) \in S /\ s \ {First(s)} \in Small(S, n)
    BY <2>2, FirstIs, SizeIs DEF Small
  <2>3. \A s \in Small(S, n + 1) : Step(f, s) \in Nat
    BY <2>2
  <2>4. h \in [Small(S, n + 1) -> Nat]
    BY <2>3
  <2>5. \A s \in Small(S, n) : s \in Small(S, n + 1) /\ h[s] = f[s]
    <3> SUFFICES ASSUME NEW s \in Small(S, n)
                 PROVE  s \in Small(S, n + 1) /\ h[s] = f[s]
      OBVIOUS
    <3>1. s \in Small(S, n + 1)
      BY SizeIs DEF Small
    <3> QED
      BY <2>1, <3>1
  <2>6. Solves(h, n + 1)
    BY <2>2, <2>5
  <2> HIDE DEF h, Solves
  <2> QED
    BY <2>4, <2>6
<1>3. Sizes = Nat
  <2> Sizes \in SUBSET Nat
    OBVIOUS
  <2> HIDE DEF Sizes
  <2> QED
    BY <1>1, <1>2, Induction
<1>4. Cardinality(S) \in Nat /\ Small(S, Cardinality(S)) = SUBSET S
  BY FS_Subset, FS_CardinalityType DEF Small
<1>5. PICK f \in [SUBSET S -> Nat] : Solves(f, Cardinality(S))
  <2>1. Cardinality(S) \in Sizes
    BY <1>3, <1>4
  <2> HIDE DEF Solves
  <2> QED
    BY <1>4, <2>1
<1>6. f = [s \in SUBSET S |-> Step(f, s)]
  BY <1>4, <1>5
<1> QED
  BY <1>6 DEF Totals

LEMMA TotalIs ==
  ASSUME NEW S, IsFiniteSet(S), NEW g \in [S -> Nat]
  PROVE  \E f : Sums(g, S, f) /\ f[S] = SumOf(g, S)
<1> DEFINE f == CHOOSE total : Totals(g, S, total)
<1>1. Totals(g, S, f)
  BY TotalsExist
<1>2. f[S] = SumOf(g, S)
  BY DEF SumOf
<1> HIDE DEF f
<1>3. DOMAIN f = SUBSET S
  BY <1>1 DEF Totals
<1>4. f[{}] = 0 /\ \A s \in SUBSET S : s # {} => f[s] = g[First(s)] + f[s \ {First(s)}]
  BY <1>1 DEF Totals
<1> DEFINE Sizes == {n \in Nat : \A s \in Small(S, n) : f[s] \in Nat}
<1>5. 0 \in Sizes
  <2>1. ASSUME NEW s \in Small(S, 0) PROVE f[s] \in Nat
    <3>1. s = {}
      BY SizeIs DEF Small
    <3> QED
      BY <1>4, <3>1
  <2> QED
    BY <2>1
<1>6. ASSUME NEW n \in Sizes PROVE n + 1 \in Sizes
  <2>1. ASSUME NEW s \in Small(S, n + 1), s # {} PROVE f[s] \in Nat
    <3>1. First(s) \in S /\ s \ {First(s)} \in Small(S, n) /\ s \in SUBSET S
      BY <2>1, FirstIs, SizeIs DEF Small
    <3> QED
      BY <1>4, <2>1, <3>1
  <2> QED
    BY <2>1, <1>4
<1>7. Sizes = Nat
  <2> Sizes \in SUBSET Nat
    OBVIOUS
  <2> HIDE DEF Sizes
  <2> QED
    BY <1>5, <1>6, Induction
<1>8. \A s \in SUBSET S : f[s] \in Nat
  BY <1>7, SizeIs DEF Small
<1>9. f \in [SUBSET S -> Nat]
  BY <1>1, <1>3, <1>8 DEF Totals
<1> QED
  BY <1>2, <1>4, <1>9 DEF Sums

\* Any element can be taken out first.
LEMMA TakeOut ==
  ASSUME NEW S, IsFiniteSet(S), NEW g \in [S -> Nat], NEW f, Sums(g, S, f), NEW c \in S
  PROVE  f[S] = g[c] + f[S \ {c}]
<1> DEFINE Sizes == {n \in Nat : \A s \in Small(S, n) : \A x \in s : f[s] = g[x] + f[s \ {x}]}
<1>1. 0 \in Sizes
  BY SizeIs DEF Small
<1>2. ASSUME NEW n \in Sizes PROVE n + 1 \in Sizes
  <2>1. ASSUME NEW s \in Small(S, n + 1), NEW x \in s PROVE f[s] = g[x] + f[s \ {x}]
    <3>1. PICK p \in s : p = First(s) /\ f[s] = g[p] + f[s \ {p}]
      BY FirstIs DEF Small, Sums
    <3>2. CASE p = x
      BY <3>1, <3>2
    <3>3. CASE p # x
      <4>1. s \ {p} \in Small(S, n) /\ s \ {x} \in Small(S, n)
        <5>1. IsFiniteSet(s) /\ Cardinality(s) <= n + 1 /\ Cardinality(s) \in Nat
          BY SizeIs DEF Small
        <5> QED
          BY <5>1, FS_RemoveElement, SizeIs DEF Small
      <4>2. PICK r \in SUBSET S : r = (s \ {p}) \ {x} /\ r = (s \ {x}) \ {p}
        <5>1. (s \ {p}) \ {x} = (s \ {x}) \ {p} /\ (s \ {p}) \ {x} \in SUBSET S
          BY DEF Small
        <5> QED
          BY <5>1
      <4>3. f[s \ {p}] = g[x] + f[r]
        BY <3>3, <4>1, <4>2
      <4>4. f[s \ {x}] = g[p] + f[r]
        BY <3>3, <4>1, <4>2
      <4>5. f[r] \in Nat /\ g[x] \in Nat /\ g[p] \in Nat
        BY DEF Sums, Small
      <4> HIDE DEF Sizes
      <4> QED
        BY ONLY <3>1, <4>3, <4>4, <4>5
    <3> QED
      BY <3>2, <3>3
  <2> QED
    BY <2>1
<1>3. Sizes = Nat
  <2> Sizes \in SUBSET Nat
    OBVIOUS
  <2> HIDE DEF Sizes
  <2> QED
    BY <1>1, <1>2, Induction
<1> QED
  <2>1. Cardinality(S) \in Sizes /\ S \in Small(S, Cardinality(S))
    BY <1>3, SizeIs DEF Small
  <2> QED
    BY <2>1

\* Two functions that agree on a set have the same total there.
LEMMA SameTotal ==
  ASSUME NEW S, IsFiniteSet(S), NEW g \in [S -> Nat], NEW h \in [S -> Nat],
         NEW f, Sums(g, S, f), NEW k, Sums(h, S, k)
  PROVE  \A s \in SUBSET S : (\A x \in s : g[x] = h[x]) => f[s] = k[s]
<1> DEFINE Same(s) == (\A x \in s : g[x] = h[x]) => f[s] = k[s]
           Sizes == {n \in Nat : \A s \in Small(S, n) : Same(s)}
<1>1. 0 \in Sizes
  <2>1. ASSUME NEW s \in Small(S, 0) PROVE f[s] = k[s]
    <3>1. s = {}
      BY SizeIs DEF Small
    <3> QED
      BY <3>1 DEF Sums
  <2> QED
    BY <2>1
<1>2. ASSUME NEW n \in Sizes PROVE n + 1 \in Sizes
  <2>1. ASSUME NEW s \in Small(S, n + 1), s # {}, \A x \in s : g[x] = h[x] PROVE f[s] = k[s]
    <3>1. PICK p \in s, r \in Small(S, n) : p = First(s) /\ r = s \ {First(s)} /\ s \in SUBSET S
      <4>1. First(s) \in s /\ s \ {First(s)} \in Small(S, n) /\ s \in SUBSET S
        BY <2>1, FirstIs, SizeIs DEF Small
      <4> QED
        BY <4>1
    <3>2. f[s] = g[p] + f[r] /\ k[s] = h[p] + k[r]
      BY <2>1, <3>1 DEF Sums
    <3>3. f[r] = k[r] /\ g[p] = h[p]
      BY <2>1, <3>1
    <3> QED
      BY ONLY <3>2, <3>3
  <2>2. ASSUME NEW s \in Small(S, n + 1), s = {} PROVE f[s] = k[s]
    BY <2>2 DEF Sums
  <2> QED
    BY <2>1, <2>2
<1>3. Sizes = Nat
  <2> Sizes \in SUBSET Nat
    OBVIOUS
  <2> HIDE DEF Sizes
  <2> QED
    BY <1>1, <1>2, Induction
<1>4. ASSUME NEW s \in SUBSET S PROVE Same(s)
  <2>1. Cardinality(s) \in Sizes /\ s \in Small(S, Cardinality(s))
    BY <1>3, SizeIs DEF Small
  <2> HIDE DEF Same
  <2> QED
    BY <2>1
<1> QED
  BY <1>4

\* What a sum over a finite set is when every term is 0, and when one term changes.
LEMMA SumOfNothing ==
  ASSUME NEW S, IsFiniteSet(S)
  PROVE  SumOf([x \in S |-> 0], S) = 0
<1> DEFINE g == [x \in S |-> 0]
           k == [s \in SUBSET S |-> 0]
<1>1. g \in [S -> Nat] /\ k \in [SUBSET S -> Nat]
  OBVIOUS
<1>2. Sums(g, S, k)
  <2>1. ASSUME NEW s \in SUBSET S, s # {} PROVE k[s] = g[First(s)] + k[s \ {First(s)}]
    <3>1. First(s) \in S /\ s \ {First(s)} \in SUBSET S
      BY <2>1, FirstIs
    <3> QED
      BY <3>1
  <2> QED
    BY <1>1, <2>1 DEF Sums
<1>3. k[S] = 0
  OBVIOUS
<1> HIDE DEF g, k
<1>4. PICK f : Sums(g, S, f) /\ f[S] = SumOf(g, S)
  BY <1>1, TotalIs
<1>5. f[S] = k[S]
  BY <1>1, <1>2, <1>4, SameTotal
<1> QED
  BY <1>3, <1>4, <1>5 DEF g

LEMMA SumOfChange ==
  ASSUME NEW S, IsFiniteSet(S), NEW g \in [S -> Nat], NEW h \in [S -> Nat], NEW c \in S,
         \A x \in S : x # c => h[x] = g[x]
  PROVE  /\ SumOf(g, S) \in Nat /\ SumOf(h, S) \in Nat
         /\ SumOf(h, S) - h[c] = SumOf(g, S) - g[c]
<1>1. PICK f : Sums(g, S, f) /\ f[S] = SumOf(g, S)
  BY TotalIs
<1>2. PICK k : Sums(h, S, k) /\ k[S] = SumOf(h, S)
  BY TotalIs
<1>3. f[S] = g[c] + f[S \ {c}] /\ k[S] = h[c] + k[S \ {c}]
  BY <1>1, <1>2, TakeOut
<1>4. f[S \ {c}] = k[S \ {c}]
  BY <1>1, <1>2, SameTotal
<1>5. f[S \ {c}] \in Nat /\ g[c] \in Nat /\ h[c] \in Nat
  BY <1>1 DEF Sums
<1> QED
  BY <1>1, <1>2, <1>3, <1>4, <1>5

(***************************************************************************)
(* What OpenAI charged is in the rows or in a call in progress.            *)
(***************************************************************************)

Spent == [m \in Months |-> SpentIn(m)]

Open == [c \in Calls |-> InFlight(c)]

SumsFit ==
  /\ IsFiniteSet(Months) /\ IsFiniteSet(Calls)
  /\ Spent \in [Months -> Nat] /\ Open \in [Calls -> Nat]
  /\ Recorded = SumOf(Spent, Months)
  /\ MapThenSumSet(InFlight, Calls) = SumOf(Open, Calls)

LEMMA SumsAre == BudgetTypeOK => SumsFit
<1> SUFFICES ASSUME BudgetTypeOK PROVE SumsFit
  OBVIOUS
<1>1. IsFiniteSet(Months) /\ IsFiniteSet(Calls)
  BY BudgetAssumption, FS_Interval DEF Months
<1>2. Spent \in [Months -> Nat]
  BY SpentIs DEF Spent
<1>3. Open \in [Calls -> Nat]
  BY DEF Open, InFlight, BudgetTypeOK, Call
<1>4. Recorded = SumOf(Spent, Months)
  BY DEF Recorded, Spent, MapThenSumSet, MapThenFoldSet, SumOf, Totals, First
<1>5. MapThenSumSet(InFlight, Calls) = SumOf(Open, Calls)
  BY DEF Open, MapThenSumSet, MapThenFoldSet, SumOf, Totals, First
<1> QED
  BY <1>1, <1>2, <1>3, <1>4, <1>5 DEF SumsFit

LEMMA SumsStayFit == BudgetTypeOK' => SumsFit'
  BY SumsAre, PTL

\* A call costs nothing until the model has answered.
ChargesInv ==
  /\ BudgetInv
  /\ ChargesAreRecorded
  /\ \A c \in Calls : calls[c].pc \in {"idle", "create", "reread", "chat"} => calls[c].cost = 0

LEMMA Ledger ==
  ASSUME NEW p \in Nat, NEW p1 \in Nat, NEW r \in Nat, NEW r1 \in Nat, NEW s \in Nat,
         NEW s1 \in Nat, NEW o \in Nat, NEW o1 \in Nat, NEW d \in Nat, NEW d1 \in Nat,
         r1 - s1 = r - s, o1 - d1 = o - d
  PROVE  /\ r + o <= p /\ p + s1 + d1 <= p1 + s + d => r1 + o1 <= p1
         /\ r + o = p /\ p + s1 + d1 = p1 + s + d => r1 + o1 = p1
OBVIOUS

\* A step of one call that moves what it owes, or what is charged, between the call
\* and the row of one month.
LEMMA ChargeFrame ==
  ASSUME ChargesInv, BudgetInv', NEW c \in Calls, NEW call \in Call,
         calls' = [calls EXCEPT ![c] = call],
         call.pc \in {"idle", "create", "reread", "chat"} => call.cost = 0,
         NEW m \in Months, \A n \in Months : n # m => SpentIn(n)' = SpentIn(n),
         paid + SpentIn(m)' + call.cost <= paid' + SpentIn(m) + calls[c].cost,
         gaps' = {} => /\ gaps = {}
                       /\ paid + SpentIn(m)' + call.cost
                            = paid' + SpentIn(m) + calls[c].cost
  PROVE  ChargesInv'
<1>1. BudgetTypeOK /\ BudgetTypeOK'
  BY DEF ChargesInv, BudgetInv
<1>2. calls'[c] = call /\ \A d \in Calls \ {c} : calls'[d] = calls[d]
  BY <1>1, CallMoves
<1>3. \A d \in Calls : calls'[d].pc \in {"idle", "create", "reread", "chat"} => calls'[d].cost = 0
  BY <1>2 DEF ChargesInv
<1>4. ChargesAreRecorded'
  <2>1. /\ SumOf(Spent, Months) + SumOf(Open, Calls) <= paid
        /\ gaps = {} => SumOf(Spent, Months) + SumOf(Open, Calls) = paid
    BY <1>1, SumsAre DEF ChargesInv, ChargesAreRecorded, SumsFit
  <2>2. /\ IsFiniteSet(Months) /\ IsFiniteSet(Calls)
        /\ Spent \in [Months -> Nat] /\ Open \in [Calls -> Nat]
    BY <1>1, SumsAre DEF SumsFit
  <2>3. /\ Spent' \in [Months -> Nat] /\ Open' \in [Calls -> Nat]
        /\ Recorded' = SumOf(Spent', Months)
        /\ MapThenSumSet(InFlight, Calls)' = SumOf(Open', Calls)
    BY <1>1, SumsStayFit DEF SumsFit
  <2>4. /\ SumOf(Spent, Months) \in Nat /\ SumOf(Spent', Months) \in Nat
        /\ SumOf(Spent', Months) - Spent'[m] = SumOf(Spent, Months) - Spent[m]
    <3>1. \A n \in Months : n # m => Spent'[n] = Spent[n]
      BY DEF Spent
    <3> QED
      BY <2>2, <2>3, <3>1, SumOfChange
  <2>5. /\ SumOf(Open, Calls) \in Nat /\ SumOf(Open', Calls) \in Nat
        /\ SumOf(Open', Calls) - Open'[c] = SumOf(Open, Calls) - Open[c]
    <3>1. \A d \in Calls : d # c => Open'[d] = Open[d]
      BY <1>2 DEF Open, InFlight
    <3> QED
      BY <2>2, <2>3, <3>1, SumOfChange
  <2>6. /\ Spent[m] = SpentIn(m) /\ Spent'[m] = SpentIn(m)'
        /\ Open[c] = calls[c].cost /\ Open'[c] = call.cost
    BY <1>2 DEF Spent, Open, InFlight
  <2>7. Spent[m] \in Nat /\ Spent'[m] \in Nat /\ Open[c] \in Nat /\ Open'[c] \in Nat
        /\ paid \in Nat /\ paid' \in Nat
    BY <1>1, <2>2, <2>3 DEF BudgetTypeOK
  <2>8. /\ paid + Spent'[m] + Open'[c] <= paid' + Spent[m] + Open[c]
        /\ gaps' = {} => /\ gaps = {}
                          /\ paid + Spent'[m] + Open'[c] = paid' + Spent[m] + Open[c]
    BY <2>6
  <2>9. /\ SumOf(Spent', Months) + SumOf(Open', Calls) <= paid'
        /\ gaps' = {} => SumOf(Spent', Months) + SumOf(Open', Calls) = paid'
    BY <2>1, <2>4, <2>5, <2>7, <2>8, Ledger
  <2> QED
    BY <2>3, <2>9 DEF ChargesAreRecorded
<1> QED
  BY <1>3, <1>4 DEF ChargesInv

LEMMA ChargesStart == BudgetInit => ChargesInv
<1> SUFFICES ASSUME BudgetInit PROVE ChargesInv
  OBVIOUS
<1>1. BudgetInv /\ BudgetTypeOK
  BY BudgetStarts DEF BudgetInv
<1>2. Spent = [m \in Months |-> 0] /\ Open = [c \in Calls |-> 0]
  BY DEF BudgetInit, Spent, SpentIn, Open, InFlight
<1>3. SumOf(Spent, Months) = 0 /\ SumOf(Open, Calls) = 0
  BY <1>1, <1>2, SumsAre, SumOfNothing DEF SumsFit
<1>4. ChargesAreRecorded
  BY <1>1, <1>3, SumsAre DEF ChargesAreRecorded, BudgetInit, SumsFit
<1> QED
  BY <1>1, <1>4 DEF ChargesInv, BudgetInit

LEMMA ChargesStep ==
  ASSUME ChargesInv, [BudgetNext]_budgetVars PROVE ChargesInv'
<1>t. /\ BudgetInv /\ BudgetInv' /\ BudgetTypeOK /\ month \in Months /\ paid \in Nat
      /\ \A c \in Calls : calls[c] \in Call /\ calls[c].month \in Months /\ calls[c].cost \in Nat
      /\ \A m \in Months : SpentIn(m) \in Nat /\ SpentIn(m)' \in Nat
      /\ paid' \in Nat
  <2>1. BudgetInv /\ BudgetInv' /\ BudgetTypeOK /\ BudgetTypeOK'
    BY BudgetStep DEF ChargesInv, BudgetInv
  <2>2. \A m \in Months : SpentIn(m) \in Nat /\ SpentIn(m)' \in Nat
    BY <2>1 DEF BudgetTypeOK, SpentIn
  <2> QED
    BY <2>1, <2>2 DEF BudgetTypeOK, Call
\* This month, whatever month it is afterwards.
<1>m. PICK now \in Months : now = month
  BY <1>t
<1>o. /\ {"capped", "unclassified", "failed", "fallback", "none", "sent", "classified"}
           \subseteq Outcomes
      /\ 0 \in Months
  BY BudgetAssumption DEF Outcomes, Months
\* A call that ends: what it owed is in the row, or a gap.
<1>e. ASSUME NEW c \in Calls, NEW outcome \in Outcomes, Ends(c, outcome),
             NEW m \in Months, \A n \in Months : n # m => SpentIn(n)' = SpentIn(n),
             paid + SpentIn(m)' <= paid' + SpentIn(m) + calls[c].cost,
             gaps' = {} => gaps = {} /\ paid + SpentIn(m)' = paid' + SpentIn(m) + calls[c].cost
      PROVE  ChargesInv'
  <2> DEFINE call == Ended(calls[c], outcome)
  <2>1. call \in Call /\ call.pc = "idle" /\ call.cost = 0
    BY <1>t, EndedIs
  <2>2. calls' = [calls EXCEPT ![c] = call]
    BY <1>e DEF Ends
  <2> HIDE DEF call
  <2>3. paid + SpentIn(m)' + call.cost = paid + SpentIn(m)'
    BY <1>t, <2>1
  <2> QED
    BY <1>e, <1>t, <2>1, <2>2, <2>3, ChargeFrame
\* A call that goes on, before the model is asked.
<1>g. ASSUME NEW c \in Calls, NEW call \in Call, calls' = [calls EXCEPT ![c] = call],
             call.cost = 0, calls[c].cost = 0, UNCHANGED <<paid, gaps>>,
             \A n \in Months : SpentIn(n)' = SpentIn(n)
      PROVE  ChargesInv'
  <2>1. /\ paid + SpentIn(now)' + call.cost = paid' + SpentIn(now) + calls[c].cost
        /\ paid + SpentIn(now)' + call.cost <= paid' + SpentIn(now) + calls[c].cost
    BY <1>g, <1>m, <1>t
  <2> QED
    BY <1>g, <1>m, <1>t, <2>1, ChargeFrame
<1>1. ASSUME NEW c \in Calls, Begin(c)
      PROVE  ChargesInv'
  <2>1. PICK kind \in {"reply", "classify"}, fallback \in BOOLEAN :
          calls' = [calls EXCEPT ![c] =
            IF usage[month] = NoRow
              THEN [pc |-> "create", kind |-> kind, month |-> month, cost |-> 0,
                    fallback |-> fallback, outcome |-> "none"]
              ELSE Gate([pc |-> "create", kind |-> kind, month |-> month, cost |-> 0,
                    fallback |-> fallback, outcome |-> "none"], usage[month])]
    BY <1>1 DEF Begin
  <2> DEFINE call == [pc |-> "create", kind |-> kind, month |-> month, cost |-> 0,
                      fallback |-> fallback, outcome |-> "none"]
  <2>2. call \in Call /\ call.cost = 0
    BY <1>t, <1>o DEF Call
  <2>3. UNCHANGED <<paid, gaps>> /\ calls[c].cost = 0 /\ \A n \in Months : SpentIn(n)' = SpentIn(n)
    BY <1>1 DEF Begin, ChargesInv, SpentIn
  <2>4. calls' = [calls EXCEPT ![c] = IF usage[month] = NoRow THEN call
                                      ELSE Gate(call, usage[month])]
    BY <2>1
  <2> HIDE DEF call
  <2>5. CASE usage[month] = NoRow
    BY <1>g, <2>2, <2>3, <2>4, <2>5
  <2>6. CASE usage[month] # NoRow
    <3>1. usage[month] \in Nat
      BY <1>t, <2>6 DEF BudgetTypeOK
    <3>2. Gate(call, usage[month]) \in Call /\ Gate(call, usage[month]).cost = 0
      BY <2>2, <3>1, GateIs
    <3> QED
      BY <1>g, <2>3, <2>4, <2>6, <3>2
  <2> QED
    BY <2>5, <2>6
<1>2. ASSUME NEW c \in Calls, CreateRow(c)
      PROVE  ChargesInv'
  <2>1. UNCHANGED <<paid, gaps>> /\ calls[c].cost = 0 /\ calls[c].pc = "create"
    BY <1>2 DEF CreateRow, ChargesInv
  <2>2. CASE /\ usage[calls[c].month] = NoRow /\ usage' = [usage EXCEPT ![calls[c].month] = 0]
             /\ calls' = [calls EXCEPT ![c] = Gate(@, 0)]
    <3>1. calls' = [calls EXCEPT ![c] = Gate(calls[c], 0)]
      BY <2>2
    <3>2. Gate(calls[c], 0) \in Call /\ Gate(calls[c], 0).cost = 0
      BY <1>t, <2>1, GateIs
    <3>3. \A n \in Months : SpentIn(n)' = SpentIn(n)
      BY <1>t, <2>2 DEF SpentIn, BudgetTypeOK
    <3> QED
      BY <1>g, <2>1, <3>1, <3>2, <3>3
  <2>3. CASE calls' = [calls EXCEPT ![c].pc = "reread"] /\ usage' = usage
    <3> DEFINE call == [calls[c] EXCEPT !.pc = "reread"]
    <3>1. calls' = [calls EXCEPT ![c] = call]
      BY <1>t, <2>3 DEF BudgetTypeOK
    <3>2. call \in Call /\ call.cost = 0
      BY <1>t, <2>1 DEF Call
    <3> HIDE DEF call
    <3>3. \A n \in Months : SpentIn(n)' = SpentIn(n)
      BY <2>3 DEF SpentIn
    <3> QED
      BY <1>g, <2>1, <3>1, <3>2, <3>3
  <2> QED
    BY <1>2, <2>2, <2>3 DEF CreateRow
<1>3. ASSUME NEW c \in Calls, RereadRow(c)
      PROVE  ChargesInv'
  <2> DEFINE cost == IF usage[calls[c].month] = NoRow THEN 0 ELSE usage[calls[c].month]
  <2>1. /\ UNCHANGED <<usage, paid, gaps>> /\ calls[c].cost = 0
        /\ calls' = [calls EXCEPT ![c] = Gate(calls[c], cost)]
    BY <1>3 DEF RereadRow, ChargesInv
  <2>2. cost \in Nat
    BY <1>t DEF BudgetTypeOK
  <2> HIDE DEF cost
  <2>3. Gate(calls[c], cost) \in Call /\ Gate(calls[c], cost).cost = 0
    BY <1>t, <2>1, <2>2, GateIs
  <2>4. \A n \in Months : SpentIn(n)' = SpentIn(n)
    BY <2>1 DEF SpentIn
  <2> QED
    BY <1>g, <2>1, <2>3, <2>4
<1>4. ASSUME NEW c \in Calls, Chat(c)
      PROVE  ChargesInv'
  <2>1. calls[c].pc = "chat" /\ calls[c].cost = 0 /\ \A n \in Months : SpentIn(n)' = SpentIn(n)
    BY <1>4 DEF Chat, ChargesInv, SpentIn
  <2>2. PICK charge \in Costs \cup {0} :
          /\ paid' = paid + charge
          /\ \/ \E told \in {charge, 0} :
                  /\ calls' = [calls EXCEPT ![c].cost = told,
                       ![c].pc = IF calls[c].kind = "reply" THEN "moderate" ELSE "record"]
                  /\ Lost(charge - told, "unmetered")
             \/ FallsBack(c) /\ Lost(charge, "discarded")
    BY <1>4 DEF Chat
  <2>3. /\ charge \in Nat /\ paid \in Nat /\ SpentIn(now) \in Nat
        /\ SpentIn(now)' = SpentIn(now)
    BY <1>m, <1>t, <2>1, DearestIs
  <2>4. ASSUME NEW told \in {charge, 0}, Lost(charge - told, "unmetered"),
               calls' = [calls EXCEPT ![c].cost = told,
                 ![c].pc = IF calls[c].kind = "reply" THEN "moderate" ELSE "record"]
        PROVE  ChargesInv'
    <3> DEFINE pc == IF calls[c].kind = "reply" THEN "moderate" ELSE "record"
               call == [calls[c] EXCEPT !.cost = told, !.pc = pc]
    <3>1. calls' = [calls EXCEPT ![c] = call]
      BY <1>t, <2>4 DEF BudgetTypeOK
    <3>2. told \in Nat /\ told <= charge /\ pc \in {"moderate", "record"}
      BY <2>3
    <3> HIDE DEF pc
    <3>3. call \in Call /\ call.pc = pc /\ call.cost = told
      BY <1>t, <3>2 DEF Call
    <3>4. gaps' = {} => gaps = {} /\ told = charge
      BY <2>3, <2>4 DEF Lost
    <3> HIDE DEF call
    <3>5. /\ paid + SpentIn(now)' + call.cost <= paid' + SpentIn(now) + calls[c].cost
          /\ gaps' = {} => paid + SpentIn(now)' + call.cost = paid' + SpentIn(now) + calls[c].cost
      BY <2>1, <2>2, <2>3, <3>2, <3>3, <3>4
    <3> QED
      BY <1>t, <2>1, <3>1, <3>2, <3>3, <3>4, <3>5, ChargeFrame
  <2>5. CASE FallsBack(c) /\ Lost(charge, "discarded")
    <3>1. PICK outcome \in Outcomes : Ends(c, outcome)
      BY <1>o, <2>5 DEF FallsBack
    <3>2. gaps' = {} => gaps = {} /\ charge = 0
      BY <2>3, <2>5 DEF Lost
    <3>3. /\ paid + SpentIn(now)' <= paid' + SpentIn(now) + calls[c].cost
          /\ gaps' = {} => paid + SpentIn(now)' = paid' + SpentIn(now) + calls[c].cost
      BY <2>1, <2>2, <2>3, <3>2
    <3> QED
      BY <1>e, <2>1, <3>1, <3>2, <3>3
  <2> QED
    BY <2>2, <2>4, <2>5
<1>5. ASSUME NEW c \in Calls, Moderate(c)
      PROVE  ChargesInv'
  <2>1. paid' = paid /\ \A n \in Months : SpentIn(n)' = SpentIn(n)
    BY <1>5 DEF Moderate, SpentIn
  <2>2. CASE calls' = [calls EXCEPT ![c].pc = "record"] /\ gaps' = gaps
    <3> DEFINE call == [calls[c] EXCEPT !.pc = "record"]
    <3>1. calls' = [calls EXCEPT ![c] = call]
      BY <1>t, <2>2 DEF BudgetTypeOK
    <3>2. call \in Call /\ call.pc = "record" /\ call.cost = calls[c].cost
      BY <1>t DEF Call
    <3> HIDE DEF call
    <3>3. /\ paid + SpentIn(now)' + call.cost = paid' + SpentIn(now) + calls[c].cost
          /\ paid + SpentIn(now)' + call.cost <= paid' + SpentIn(now) + calls[c].cost
      BY <1>m, <1>t, <2>1, <3>2
    <3> QED
      BY <1>t, <2>1, <2>2, <3>1, <3>2, <3>3, ChargeFrame
  <2>3. CASE FallsBack(c) /\ Lost(calls[c].cost, "flagged")
    <3>1. PICK outcome \in Outcomes : Ends(c, outcome)
      BY <1>o, <2>3 DEF FallsBack
    <3>2. gaps' = {} => gaps = {} /\ calls[c].cost = 0
      BY <1>t, <2>3 DEF Lost
    <3>3. /\ paid + SpentIn(now)' <= paid' + SpentIn(now) + calls[c].cost
          /\ gaps' = {} => paid + SpentIn(now)' = paid' + SpentIn(now) + calls[c].cost
      BY <1>m, <1>t, <2>1, <3>2
    <3> QED
      BY <1>e, <1>t, <2>1, <3>1, <3>2, <3>3
  <2> QED
    BY <1>5, <2>2, <2>3 DEF Moderate
<1>6. ASSUME NEW c \in Calls, Record(c)
      PROVE  ChargesInv'
  <2>1. paid' = paid
    BY <1>6 DEF Record
  <2>2. PICK outcome \in Outcomes : Ends(c, outcome)
    BY <1>6, <1>o DEF Record
  <2>3. /\ gaps' = {} => gaps = {}
        /\ gaps' = {} => SpentIn(now)' = SpentIn(now) + calls[c].cost
        /\ SpentIn(now)' <= SpentIn(now) + calls[c].cost
        /\ \A n \in Months : n # now => SpentIn(n)' = SpentIn(n)
    <3>1. CASE usage[now] = NoRow
      <4>1. usage' = usage /\ gaps' # {}
        BY <1>6, <1>m, <3>1 DEF Record
      <4>2. /\ \A n \in Months : SpentIn(n)' = SpentIn(n)
            /\ SpentIn(now) = 0 /\ calls[c].cost \in Nat
        BY <1>m, <1>t, <3>1, <4>1 DEF SpentIn
      <4> QED
        BY <1>m, <4>1, <4>2
    <3>2. CASE usage[now] # NoRow
      <4>1. /\ usage' = [usage EXCEPT ![now] = @ + calls[c].cost] /\ gaps' = gaps
            /\ usage[now] \in Nat
        BY <1>6, <1>m, <1>t, <3>2 DEF Record, BudgetTypeOK
      <4>2. /\ usage'[now] = usage[now] + calls[c].cost /\ usage'[now] \in Nat
            /\ \A n \in Months : n # now => usage'[n] = usage[n]
        BY <1>t, <4>1 DEF BudgetTypeOK
      <4> QED
        BY <1>t, <3>2, <4>1, <4>2, BudgetAssumption DEF SpentIn
    <3> QED
      BY <3>1, <3>2
  <2>4. /\ paid + SpentIn(now)' <= paid' + SpentIn(now) + calls[c].cost
        /\ gaps' = {} => paid + SpentIn(now)' = paid' + SpentIn(now) + calls[c].cost
    BY <1>m, <1>t, <2>1, <2>3
  <2> QED
    BY <1>e, <1>t, <2>2, <2>3, <2>4
<1>7. ASSUME NEW c \in Calls, Die(c)
      PROVE  ChargesInv'
  <2>1. PICK charge \in Costs \cup {0} :
          paid' = paid + charge /\ Lost(calls[c].cost + charge, "crash")
    BY <1>7 DEF Die
  <2>2. Ends(c, "none") /\ \A n \in Months : SpentIn(n)' = SpentIn(n)
    BY <1>7 DEF Die, SpentIn
  <2>3. /\ charge \in Nat /\ calls[c].cost \in Nat /\ paid \in Nat
        /\ SpentIn(now)' = SpentIn(now) /\ SpentIn(now) \in Nat
    BY <1>m, <1>t, <2>1, <2>2, DearestIs
  <2>4. gaps' = {} => gaps = {} /\ calls[c].cost = 0 /\ charge = 0
    BY <2>1, <2>3 DEF Lost
  <2>5. /\ paid + SpentIn(now)' <= paid' + SpentIn(now) + calls[c].cost
        /\ gaps' = {} => paid + SpentIn(now)' = paid' + SpentIn(now) + calls[c].cost
    BY <2>1, <2>3, <2>4
  <2> QED
    BY <1>e, <1>o, <2>2, <2>4, <2>5
<1>8. ASSUME UNCHANGED <<usage, calls, paid, gaps>>
      PROVE  ChargesInv'
  <2>1. Spent' = Spent /\ Open' = Open
    BY <1>8 DEF Spent, SpentIn, Open, InFlight
  <2>2. /\ Recorded = SumOf(Spent, Months) /\ Recorded' = SumOf(Spent', Months)
        /\ MapThenSumSet(InFlight, Calls) = SumOf(Open, Calls)
        /\ MapThenSumSet(InFlight, Calls)' = SumOf(Open', Calls)
    <3>1. BudgetTypeOK /\ BudgetTypeOK'
      BY <1>t DEF BudgetInv
    <3> QED
      BY <3>1, SumsAre, SumsStayFit DEF SumsFit
  <2>3. ChargesAreRecorded'
    BY <1>8, <2>1, <2>2 DEF ChargesInv, ChargesAreRecorded
  <2> QED
    BY <1>8, <1>t, <2>3 DEF ChargesInv
<1> QED
  BY <1>1, <1>2, <1>3, <1>4, <1>5, <1>6, <1>7, <1>8 DEF BudgetNext, MonthTurns, budgetVars

\* The usage card is true: the rows it adds up and the calls in progress hold no
\* paisa that OpenAI did not charge, and all of them until one of the six named gaps
\* opens, however the calls race for the first row of a month; and it shows a budget
\* as used up when the gate closes.
THEOREM TheCardIsTrue ==
  BudgetSpec => []CardIsTrue
<1>1. ChargesInv /\ [BudgetNext]_budgetVars => ChargesInv'
  BY ChargesStep
<1>2. ChargesInv => ChargesAreRecorded
  BY DEF ChargesInv
<1>3. BudgetSpec => []ChargesAreRecorded
  BY <1>1, <1>2, ChargesStart, PTL DEF BudgetSpec
<1> QED
  BY <1>3, TheCardFollowsTheGate, PTL DEF CardIsTrue

================================================================================
