-------------------------- MODULE TradingAppProofs --------------------------
(***************************************************************************)
(* Proofs about TradingApp and the feed that it extends, for any set of    *)
(* markets, any back-off and frames of any length.                         *)
(***************************************************************************)
EXTENDS TradingApp, InductionLemmas
-----------------------------------------------------------------------------
(* The loop over a frame *)

LEMMA FrameShape ==
  ASSUME NEW ms \in Frames
  PROVE  Len(ms) \in 1..MaxFrame /\ DOMAIN ms = 1..Len(ms)
<1>1. PICK n \in 1..MaxFrame : ms \in [1..n -> Messages]
  BY DEF Frames
<1>2. Len(ms) = n /\ DOMAIN ms = 1..n
  BY <1>1, MaxFrameAssumption
<1> QED BY <1>2

\* The loop does something with message j of the frame.
Acts(ms, j) == YieldsTick(ms[j]) \/ IsMalformed(ms[j])

\* NextStop is the first message behind k with which the loop does something.
LEMMA NextStopFirst ==
  ASSUME NEW ms, Len(ms) \in Nat, NEW k \in 0..Len(ms)
  PROVE  /\ NextStop(ms, k) \in (k + 1)..(Len(ms) + 1)
         /\ NextStop(ms, k) \leq Len(ms) => Acts(ms, NextStop(ms, k))
         /\ \A i \in (k + 1)..(NextStop(ms, k) - 1) : ~YieldsTick(ms[i]) /\ ~IsMalformed(ms[i])
<1> DEFINE T == {i \in (k + 1)..(Len(ms) + 1) : i \leq Len(ms) => Acts(ms, i)}
<1>1. T \subseteq Nat /\ Len(ms) + 1 \in T
  OBVIOUS
<1>2. PICK x \in T : \A y \in T : x \leq y
  BY <1>1, LeastElement
<1>3. \A i \in (k + 1)..(x - 1) : ~Acts(ms, i)
  BY <1>1, <1>2
<1>4. \E y \in (k + 1)..(Len(ms) + 1) :
        /\ y \leq Len(ms) => YieldsTick(ms[y]) \/ IsMalformed(ms[y])
        /\ \A i \in (k + 1)..(y - 1) : ~YieldsTick(ms[i]) /\ ~IsMalformed(ms[i])
  BY <1>2, <1>3 DEF Acts
<1> QED BY <1>4 DEF NextStop, Acts

\* What the loop over frame ms has done before message k, or that there is
\* none: hs are the messages handed to on_tick.
LoopAt(place, ms, k, hs) ==
  IF place \in {"listening", "handling"}
    THEN /\ {hs[i] : i \in DOMAIN hs} = TicksUpTo(ms, k)
         /\ \A i, j \in DOMAIN hs : i < j => hs[i] < hs[j]
         /\ k \in DOMAIN ms => Acts(ms, k)
         /\ place = "handling" => k \in 1..Len(ms)
    ELSE ms = <<>> /\ k = 0 /\ hs = <<>>

FrameAt(f) == LoopAt(conn[f], frame[f], at[f], handed[f])

FeedTyped(f) == /\ frame[f] \in Frames \cup {<<>>}
                /\ at[f] \in 0..(MaxFrame + 1)
                /\ handed[f] \in Seq(1..MaxFrame)

LEMMA ProceedKeeps ==
  ASSUME FeedTypeOK, NEW f \in Feeds, NEW ms \in Frames, NEW k \in 0..Len(ms),
         Proceed(f, ms, k),
         k # 0 => ms = frame[f] /\ k = at[f] /\ FrameAt(f) /\ conn[f] = "handling"
  PROVE  FrameAt(f)' /\ FeedTyped(f)'
<1> USE MaxFrameAssumption
<1> DEFINE j == NextStop(ms, k)
<1> DEFINE hands == j \leq Len(ms) /\ YieldsTick(ms[j])
<1> DEFINE before == IF k = 0 THEN <<>> ELSE handed[f]
<1>1. /\ Len(ms) \in 1..MaxFrame /\ DOMAIN ms = 1..Len(ms)
  BY FrameShape
<1>2. /\ j \in (k + 1)..(Len(ms) + 1)
      /\ j \leq Len(ms) => Acts(ms, j)
      /\ \A i \in (k + 1)..(j - 1) : ~YieldsTick(ms[i]) /\ ~IsMalformed(ms[i])
  <2>1. Len(ms) \in Nat
    BY <1>1
  <2> QED BY <2>1, NextStopFirst
<1>3. /\ frame'[f] = ms /\ at'[f] = j
      /\ handed'[f] = IF hands THEN Append(before, j) ELSE before
      /\ conn'[f] = IF hands THEN "handling" ELSE "listening"
  BY DEF Proceed, Move, FeedTypeOK
<1> HIDE DEF j
<1>4. before \in Seq(1..MaxFrame)
  <2>1. handed[f] \in Seq(1..MaxFrame)
    BY DEF FeedTypeOK
  <2>2. <<>> \in Seq(1..MaxFrame)
    OBVIOUS
  <2> QED BY <2>1, <2>2
<1>5. /\ {before[i] : i \in DOMAIN before} = TicksUpTo(ms, k)
      /\ \A i, m \in DOMAIN before : i < m => before[i] < before[m]
  <2>1. CASE k = 0
    BY <2>1 DEF TicksUpTo
  <2>2. CASE k # 0
    BY <2>2 DEF LoopAt, FrameAt
  <2> QED BY <2>1, <2>2
<1>6. \A i \in DOMAIN before : before[i] \in 1..k
  BY <1>5 DEF TicksUpTo
<1> HIDE DEF before
<1>7. CASE hands
  <2>1. j \in 1..MaxFrame /\ j > k
    BY <1>1, <1>2, <1>7
  <2>2. /\ handed'[f] \in Seq(1..MaxFrame)
        /\ DOMAIN handed'[f] = 1..(Len(before) + 1)
        /\ \A i \in DOMAIN before : handed'[f][i] = before[i]
        /\ DOMAIN before = 1..Len(before) /\ Len(before) \in Nat
        /\ handed'[f][Len(before) + 1] = j
    BY <1>3, <1>4, <1>7, <2>1
  <2>3. TicksUpTo(ms, j) = TicksUpTo(ms, k) \cup {j}
    BY <1>1, <1>2, <1>7, <2>1 DEF TicksUpTo
  <2>4. {handed'[f][i] : i \in DOMAIN handed'[f]} = {before[i] : i \in DOMAIN before} \cup {j}
    <3>1. DOMAIN handed'[f] = DOMAIN before \cup {Len(before) + 1}
      BY <2>2
    <3> QED BY <2>2, <3>1
  <2>5. \A i, m \in DOMAIN handed'[f] : i < m => handed'[f][i] < handed'[f][m]
    <3> SUFFICES ASSUME NEW i \in DOMAIN handed'[f], NEW m \in DOMAIN handed'[f], i < m
                 PROVE  handed'[f][i] < handed'[f][m]
      OBVIOUS
    <3>1. i \in DOMAIN before
      BY <2>2
    <3>2. CASE m \in DOMAIN before
      BY <1>5, <2>2, <3>1, <3>2
    <3>3. CASE m = Len(before) + 1
      BY <1>6, <2>1, <2>2, <3>1, <3>3
    <3> QED BY <2>2, <3>2, <3>3
  <2> QED BY <1>1, <1>2, <1>3, <1>5, <1>7, <2>1, <2>2, <2>3, <2>4, <2>5 DEF LoopAt, FrameAt, FeedTyped
<1>8. CASE ~hands
  <2>1. TicksUpTo(ms, j) = TicksUpTo(ms, k)
    BY <1>1, <1>2, <1>8 DEF TicksUpTo
  <2> QED BY <1>1, <1>2, <1>3, <1>4, <1>5, <1>8, <2>1 DEF LoopAt, FrameAt, FeedTyped
<1> QED BY <1>7, <1>8
-----------------------------------------------------------------------------
(* The feed *)

\* Every variable has its type, a socket that stop() closes finds the flag
\* cleared, and every loop over a frame is where its history says.
FeedInv == /\ FeedTypeOK
           /\ closing # {} => ~running
           /\ \A f \in Feeds : FrameAt(f)

\* A step of one connection, with a frame or without.
LEMMA OneConnection ==
  ASSUME FeedInv, NEW f \in Feeds, FrameAt(f)', FeedTyped(f)',
         conn'[f] \in Places,
         conn' = [conn EXCEPT ![f] = conn'[f]],
         DOMAIN frame' = Feeds, \A g \in Feeds \ {f} : frame'[g] = frame[g],
         at' = [at EXCEPT ![f] = at'[f]],
         handed' = [handed EXCEPT ![f] = handed'[f]],
         backoff' \in [Feeds -> 1..MaxBackoff],
         running' \in BOOLEAN, running' => running,
         closing' \subseteq closing, f \in closing' => conn'[f] \in Connected,
         authFailed' \subseteq Feeds
  PROVE  FeedInv'
<1>1. \A g \in Feeds \ {f} : /\ conn'[g] = conn[g] /\ frame'[g] = frame[g]
                             /\ at'[g] = at[g] /\ handed'[g] = handed[g]
  BY DEF FeedInv, FeedTypeOK
<1>2. \A g \in Feeds : FrameAt(g)'
  <2>1. ASSUME NEW g \in Feeds \ {f} PROVE FrameAt(g)'
    <3>1. FrameAt(g)
      BY DEF FeedInv
    <3> QED BY <1>1, <3>1 DEF FrameAt
  <2> QED BY <2>1
<1>3. closing' \subseteq {g \in Feeds : conn'[g] \in Connected}
  BY <1>1 DEF FeedInv, FeedTypeOK
<1>4. FeedTypeOK'
  BY <1>1, <1>3 DEF FeedInv, FeedTypeOK, FeedTyped
<1> QED BY <1>2, <1>4 DEF FeedInv

\* A connection moves, and its frame stays or is forgotten.
LEMMA MoveKeeps ==
  ASSUME FeedInv, NEW f \in Feeds, NEW place \in Places, Move(f, place),
         \/ /\ UNCHANGED frameVars
            /\ \/ {conn[f], place} \cap {"listening", "handling"} = {}
               \/ place = "listening" /\ conn[f] \in {"subscribing", "handling"}
         \/ ForgetFrame(f) /\ place \notin {"listening", "handling"},
         backoff' \in [Feeds -> 1..MaxBackoff],
         running' \in BOOLEAN, running' => running,
         closing' \subseteq closing, f \in closing' => place \in Connected,
         authFailed' \subseteq Feeds
  PROVE  FeedInv'
<1>1. conn'[f] = place /\ conn' = [conn EXCEPT ![f] = conn'[f]]
  BY DEF Move, FeedInv, FeedTypeOK
<1>2. /\ DOMAIN frame' = Feeds /\ \A g \in Feeds \ {f} : frame'[g] = frame[g]
      /\ at' = [at EXCEPT ![f] = at'[f]]
      /\ handed' = [handed EXCEPT ![f] = handed'[f]]
  BY DEF ForgetFrame, frameVars, FeedInv, FeedTypeOK
<1>3. FrameAt(f) /\ FeedTyped(f)
  BY DEF FeedInv, FeedTypeOK, FeedTyped
<1>4. <<>> \in Seq(1..MaxFrame)
  OBVIOUS
<1>5. CASE UNCHANGED frameVars
  <2>1. FeedTyped(f)'
    BY <1>3, <1>5 DEF frameVars, FeedTyped
  <2>2. CASE {conn[f], place} \cap {"listening", "handling"} = {}
    <3>1. FrameAt(f)'
      BY <1>1, <1>3, <1>5, <2>2 DEF frameVars, LoopAt, FrameAt
    <3> QED BY <1>1, <1>2, <2>1, <3>1, OneConnection
  <2>3. CASE place = "listening" /\ conn[f] = "handling"
    <3>1. FrameAt(f)'
      BY <1>1, <1>3, <1>5, <2>3 DEF frameVars, LoopAt, FrameAt
    <3> QED BY <1>1, <1>2, <2>1, <3>1, OneConnection
  <2>4. CASE place = "listening" /\ conn[f] = "subscribing"
    <3>1. frame'[f] = <<>> /\ at'[f] = 0 /\ handed'[f] = <<>> /\ conn'[f] = "listening"
      BY <1>1, <1>3, <1>5, <2>4 DEF frameVars, LoopAt, FrameAt
    <3>2. FrameAt(f)'
      BY <3>1 DEF LoopAt, FrameAt, TicksUpTo
    <3> QED BY <1>1, <1>2, <2>1, <3>2, OneConnection
  <2> QED BY <1>3, <1>5, <2>2, <2>3, <2>4 DEF ForgetFrame, LoopAt, FrameAt
<1>6. CASE ForgetFrame(f) /\ place \notin {"listening", "handling"}
  <2>1. frame'[f] = <<>> /\ at'[f] = 0 /\ handed'[f] = <<>>
    BY <1>6 DEF ForgetFrame, FeedInv, FeedTypeOK
  <2>2. FrameAt(f)' /\ FeedTyped(f)'
    BY <1>1, <1>4, <1>6, <2>1, MaxFrameAssumption DEF LoopAt, FrameAt, FeedTyped
  <2> QED BY <1>1, <1>2, <2>2, OneConnection
<1> QED BY <1>5, <1>6

LEMMA LongerBounded ==
  ASSUME NEW b \in 1..MaxBackoff PROVE Longer(b) \in 1..MaxBackoff
BY MaxBackoffAssumption DEF Longer

LEMMA ProceedInv ==
  ASSUME FeedInv, NEW f \in Feeds, NEW ms \in Frames, NEW k \in 0..Len(ms),
         Proceed(f, ms, k),
         k # 0 => ms = frame[f] /\ k = at[f] /\ conn[f] = "handling",
         conn[f] \in {"listening", "handling"}
  PROVE  FeedInv'
<1>1. FrameAt(f)' /\ FeedTyped(f)'
  BY ProceedKeeps DEF FeedInv
<1>2. /\ conn' = [conn EXCEPT ![f] = conn'[f]] /\ conn'[f] \in {"listening", "handling"}
      /\ DOMAIN frame' = Feeds /\ \A g \in Feeds \ {f} : frame'[g] = frame[g]
      /\ at' = [at EXCEPT ![f] = at'[f]]
      /\ handed' = [handed EXCEPT ![f] = handed'[f]]
  BY DEF Proceed, Move, FeedInv, FeedTypeOK
<1>3. UNCHANGED <<running, backoff, closing, authFailed>>
  BY DEF Proceed
<1>4. /\ conn'[f] \in Places /\ conn'[f] \in Connected
      /\ backoff' \in [Feeds -> 1..MaxBackoff] /\ running' \in BOOLEAN
      /\ authFailed' \subseteq Feeds
  BY <1>2, <1>3 DEF FeedInv, FeedTypeOK, Places, Connected
<1> QED BY <1>1, <1>2, <1>3, <1>4, OneConnection

LEMMA FeedStepInv ==
  ASSUME FeedInv, NEW f \in Feeds, FeedStep(f)
  PROVE  FeedInv'
<1> DEFINE Same == UNCHANGED <<running, backoff, closing, authFailed>>
<1>0. /\ backoff \in [Feeds -> 1..MaxBackoff] /\ running \in BOOLEAN
      /\ closing \subseteq {g \in Feeds : conn[g] \in Connected} /\ authFailed \subseteq Feeds
      /\ FrameAt(f)
  BY DEF FeedInv, FeedTypeOK
<1>1. CASE LoopHead(f)
  <2>1. backoff' \in [Feeds -> 1..MaxBackoff]
    BY <1>0, <1>1, LongerBounded DEF LoopHead
  <2>2. f \notin closing
    BY <1>0, <1>1 DEF LoopHead, Connected
  <2>3. PICK place \in {"connecting", "ended"} : Move(f, place)
    BY <1>1 DEF LoopHead
  <2> QED BY <1>0, <1>1, <2>1, <2>2, <2>3, MoveKeeps DEF LoopHead, Places
<1>2. CASE ConnectFails(f) \/ Leaves(f)
  <2>1. Retry(f) /\ conn[f] \in {"connecting", "leaving"}
    BY <1>2 DEF ConnectFails, Leaves
  <2>2. f \notin closing
    BY <1>0, <2>1 DEF Connected
  <2>3. PICK place \in {"sleeping", "ended"} : Move(f, place)
    BY <2>1 DEF Retry
  <2> QED BY <1>0, <2>1, <2>2, <2>3, MoveKeeps DEF Retry, Places
<1>3. CASE Connects(f)
  <2>1. backoff' \in [Feeds -> 1..MaxBackoff]
    BY <1>0, <1>3, MaxBackoffAssumption DEF Connects
  <2> QED BY <1>0, <1>3, <2>1, MoveKeeps DEF Connects, Places, Connected
<1>4. CASE AuthSucceeds(f)
  BY <1>0, <1>4, MoveKeeps DEF AuthSucceeds, Places, Connected
<1>5. CASE AuthDenied(f)
  BY <1>0, <1>5, MoveKeeps DEF AuthDenied, LeaveBlock, Places
<1>6. CASE Subscribed(f)
  BY <1>0, <1>6, MoveKeeps DEF Subscribed, Places, Connected
<1>7. CASE ConnectionEnds(f)
  BY <1>0, <1>7, MoveKeeps DEF ConnectionEnds, LeaveBlock, Places
<1>8. CASE FrameArrives(f)
  <2>1. CASE running
    <3>1. PICK ms \in Frames : Proceed(f, ms, 0)
      BY <1>8, <2>1 DEF FrameArrives
    <3>2. 0 \in 0..Len(ms)
      BY FrameShape
    <3> QED BY <1>8, <3>1, <3>2, ProceedInv DEF FrameArrives
  <2>2. CASE ~running
    BY <1>0, <1>8, <2>2, MoveKeeps DEF FrameArrives, LeaveBlock, Places
  <2> QED BY <2>1, <2>2
<1>9. CASE TickHandled(f)
  <2>1. /\ conn[f] = "handling" /\ Proceed(f, frame[f], at[f])
        /\ at[f] \in 1..Len(frame[f]) /\ frame[f] \in Frames \cup {<<>>}
    BY <1>0, <1>9 DEF TickHandled, FrameAt, LoopAt, FeedInv, FeedTypeOK
  <2>2. frame[f] \in Frames /\ at[f] \in 0..Len(frame[f])
    BY <2>1
  <2> QED BY <2>1, <2>2, ProceedInv
<1>10. CASE TickRaises(f)
  BY <1>0, <1>10, MoveKeeps DEF TickRaises, Places, Connected
<1>11. CASE LeavesDenied(f)
  <2>1. f \notin closing
    BY <1>0, <1>11 DEF LeavesDenied, Connected
  <2> QED BY <1>0, <1>11, <2>1, MoveKeeps DEF LeavesDenied, Places
<1>12. CASE Unwinds(f)
  <2>1. f \notin closing
    BY <1>0, <1>12 DEF Unwinds, Connected
  <2> QED BY <1>0, <1>12, <2>1, MoveKeeps DEF Unwinds, Places
<1> QED BY <1>1, <1>2, <1>3, <1>4, <1>5, <1>6, <1>7, <1>8, <1>9, <1>10, <1>11, <1>12
        DEF FeedStep

LEMMA RunFeedInv ==
  ASSUME FeedInv, RunFeed
  PROVE  FeedInv'
<1>1. /\ \A f \in Feeds : conn[f] = "unborn" /\ conn'[f] = "starting"
      /\ conn' \in [Feeds -> Places] /\ running' = TRUE
      /\ UNCHANGED <<backoff, frame, at, handed, closing, authFailed>>
  BY DEF RunFeed, frameVars, Places
<1>2. closing = {}
  BY <1>1 DEF FeedInv, FeedTypeOK, Connected
<1>3. \A f \in Feeds : FrameAt(f)'
  BY <1>1 DEF FeedInv, FrameAt, LoopAt
<1> QED BY <1>1, <1>2, <1>3 DEF FeedInv, FeedTypeOK

LEMMA FirstStepsInv ==
  ASSUME FeedInv, FirstSteps
  PROVE  FeedInv'
<1>1. /\ conn' = [f \in Feeds |-> IF conn[f] # "starting" THEN conn[f]
                                  ELSE IF running THEN "connecting" ELSE "ended"]
      /\ UNCHANGED <<running, backoff, frame, at, handed, closing, authFailed>>
  BY DEF FirstSteps, frameVars
<1>2. \A f \in Feeds : \/ conn'[f] = conn[f]
                       \/ conn[f] = "starting" /\ conn'[f] \in {"connecting", "ended"}
  BY <1>1
<1>3. \A f \in Feeds : FrameAt(f)'
  BY <1>1, <1>2 DEF FeedInv, FrameAt, LoopAt
<1>4. closing' \subseteq {f \in Feeds : conn'[f] \in Connected}
  BY <1>1, <1>2 DEF FeedInv, FeedTypeOK, Connected
<1>5. conn' \in [Feeds -> Places]
  BY <1>1 DEF FeedInv, FeedTypeOK, Places
<1> QED BY <1>1, <1>3, <1>4, <1>5 DEF FeedInv, FeedTypeOK

LEMMA StopFeedInv ==
  ASSUME FeedInv, StopFeed
  PROVE  FeedInv'
<1>1. /\ running' = FALSE /\ UNCHANGED <<conn, backoff, frame, at, handed, authFailed>>
      /\ closing' \subseteq {f \in Feeds : conn[f] \in Connected}
  BY DEF StopFeed, frameVars, FeedInv, FeedTypeOK
<1>2. \A f \in Feeds : FrameAt(f)'
  BY <1>1 DEF FeedInv, FrameAt
<1> QED BY <1>1, <1>2 DEF FeedInv, FeedTypeOK

\* Connection f is over, or closes its socket after a cancellation.
Settled(f) == conn[f] \in {"unwinding", "ended", "cancelled"}

\* What a cancellation leaves of every connection.
LEMMA CancelFeedInv ==
  ASSUME FeedInv, CancelFeed
  PROVE  /\ FeedInv'
         /\ UNCHANGED running
         /\ \A f \in Feeds : \/ Settled(f)'
                             \/ /\ conn[f] = "handling" /\ conn'[f] = "handling"
                                /\ f \in closing => f \in closing'
<1>1. PICK survivors \in SUBSET {f \in Feeds : conn[f] = "handling"} :
        LET hit == {f \in Feeds : f \notin survivors /\ conn[f] \notin {"unborn", "ended", "cancelled"}}
        IN /\ conn' = [f \in Feeds |-> IF f \in hit THEN "unwinding"
                                       ELSE IF conn[f] = "unborn" THEN "cancelled" ELSE conn[f]]
           /\ frame' = [f \in Feeds |-> IF f \in hit THEN <<>> ELSE frame[f]]
           /\ at' = [f \in Feeds |-> IF f \in hit THEN 0 ELSE at[f]]
           /\ handed' = [f \in Feeds |-> IF f \in hit THEN <<>> ELSE handed[f]]
           /\ closing' = closing \ hit
           /\ UNCHANGED <<running, backoff, authFailed>>
  BY DEF CancelFeed
<1> DEFINE hit == {f \in Feeds : f \notin survivors /\ conn[f] \notin {"unborn", "ended", "cancelled"}}
<1>2. /\ \A f \in hit : /\ conn'[f] = "unwinding" /\ frame'[f] = <<>>
                        /\ at'[f] = 0 /\ handed'[f] = <<>>
      /\ \A f \in Feeds \ hit : /\ conn'[f] = IF conn[f] = "unborn" THEN "cancelled" ELSE conn[f]
                                /\ frame'[f] = frame[f] /\ at'[f] = at[f]
                                /\ handed'[f] = handed[f]
      /\ hit \subseteq Feeds /\ closing' = closing \ hit
      /\ UNCHANGED <<running, backoff, authFailed>>
  BY <1>1
<1>3. \A f \in Feeds : FrameAt(f)'
  <2>1. ASSUME NEW f \in hit PROVE FrameAt(f)'
    BY <1>2, <2>1 DEF FrameAt, LoopAt
  <2>2. ASSUME NEW f \in Feeds \ hit PROVE FrameAt(f)'
    <3>1. FrameAt(f)
      BY DEF FeedInv
    <3>2. CASE conn[f] = "unborn"
      BY <1>2, <3>1, <3>2 DEF FrameAt, LoopAt
    <3>3. CASE conn[f] # "unborn"
      <4>1. /\ conn'[f] = conn[f] /\ frame'[f] = frame[f] /\ at'[f] = at[f]
            /\ handed'[f] = handed[f]
        BY <1>2, <3>3
      <4> QED BY <3>1, <4>1 DEF FrameAt
    <3> QED BY <3>2, <3>3
  <2> QED BY <2>1, <2>2
<1>4. \A f \in Feeds : f \in closing => f \in hit \/ (f \in survivors /\ conn'[f] = "handling")
  <2> SUFFICES ASSUME NEW f \in Feeds, f \in closing
               PROVE  f \in hit \/ (f \in survivors /\ conn'[f] = "handling")
    OBVIOUS
  <2>1. conn[f] \in Connected
    BY DEF FeedInv, FeedTypeOK
  <2>2. CASE f \in survivors
    BY <1>2, <2>2
  <2>3. CASE f \notin survivors
    <3>1. conn[f] \notin {"unborn", "ended", "cancelled"}
      BY <2>1 DEF Connected
    <3>2. f \in {g \in Feeds : g \notin survivors /\ conn[g] \notin {"unborn", "ended", "cancelled"}}
      BY <2>3, <3>1
    <3> QED BY <3>2
  <2> QED BY <2>2, <2>3
<1>5. FeedTypeOK'
  <2>1. conn' \in [Feeds -> Places]
    BY <1>1 DEF FeedInv, FeedTypeOK, Places
  <2>2. <<>> \in Seq(1..MaxFrame) /\ 0 \in 0..(MaxFrame + 1)
    BY MaxFrameAssumption
  <2>3. at' \in [Feeds -> 0..(MaxFrame + 1)] /\ handed' \in [Feeds -> Seq(1..MaxFrame)]
    BY <1>1, <2>2 DEF FeedInv, FeedTypeOK
  <2>4. DOMAIN frame' = Feeds /\ \A f \in Feeds : frame'[f] \in Frames \cup {<<>>}
    BY <1>1, <1>2 DEF FeedInv, FeedTypeOK
  <2>5. closing' \subseteq {f \in Feeds : conn'[f] \in Connected}
    BY <1>2, <1>4 DEF FeedInv, FeedTypeOK, Connected
  <2> QED BY <1>2, <2>1, <2>3, <2>4, <2>5 DEF FeedInv, FeedTypeOK
<1>6. ASSUME NEW f \in Feeds
      PROVE  \/ Settled(f)'
             \/ /\ conn[f] = "handling" /\ conn'[f] = "handling"
                /\ f \in closing => f \in closing'
  <2>1. CASE f \in hit
    BY <1>2, <2>1 DEF Settled
  <2>2. CASE f \in survivors
    BY <1>2, <2>2
  <2>3. CASE f \notin hit /\ f \notin survivors
    BY <1>2, <2>3 DEF Settled
  <2> QED BY <2>1, <2>2, <2>3
<1> QED BY <1>2, <1>3, <1>5, <1>6 DEF FeedInv
-----------------------------------------------------------------------------
(* The process *)

\* Connection f is over or on its way there, with no way back.
Ending(f) == \/ Settled(f)
             \/ /\ ~running
                /\ \/ f \in closing /\ conn[f] \in {"listening", "handling"}
                   \/ conn[f] = "leaving"

\* What a stop request leaves of connection f: nothing that is handling a
\* tick, unless its socket is being closed.
Stopped(f) == \/ Settled(f) \/ conn[f] \in {"unborn", "starting"}
              \/ ~running /\ (conn[f] = "handling" => f \in closing)

\* Whoever is left after one cancellation, or two, has swallowed each.
SurvivorsInv ==
  /\ Runs => ~interrupted /\ \A f \in Feeds : survived[f] = 0
  /\ main \in {"stoppingFeed", "stoppingBot"} =>
       \A f \in Feeds : Settled(f) \/ survived[f] = 1
  /\ main \in {"down", "exited"} =>
       \A f \in Feeds : Settled(f) \/ (survived[f] = 2 /\ (interrupted \/ Ending(f)))

\* The invariant of the process: run() is left for a reason, a stop request
\* reaches every connection, and once _main has returned nothing runs that
\* could start or stop anything.
AppInv == /\ FeedInv
          /\ AppTypeOK
          /\ SurvivorsInv
          /\ ~Runs => stopRequested \/ interrupted
          /\ stopRequested /\ ~interrupted => \A f \in Feeds : Stopped(f)
          /\ main \in {"down", "exited"} => BotOver /\ command = "none"

LEMMA EndingStays ==
  ASSUME FeedInv, NEW f \in Feeds, FeedStep(f), NEW g \in Feeds, Ending(g)
  PROVE  Ending(g)'
<1>1. /\ conn \in [Feeds -> Places]
      /\ closing \subseteq {h \in Feeds : conn[h] \in Connected}
  BY DEF FeedInv, FeedTypeOK
<1>2. CASE g # f
  BY <1>1, <1>2 DEF FeedStep, LoopHead, ConnectFails, Connects, AuthSucceeds, AuthDenied, Subscribed,
       ConnectionEnds, FrameArrives, TickHandled, TickRaises, Leaves, LeavesDenied, Unwinds,
       Retry, LeaveBlock, Proceed, Move, Ending, Settled
<1>3. CASE g = f
  <2>1. CASE Settled(f)
    <3>1. Unwinds(f)
      BY <2>1 DEF Settled, FeedStep, LoopHead, ConnectFails, Connects, AuthSucceeds, AuthDenied, Subscribed,
           ConnectionEnds, FrameArrives, TickHandled, TickRaises, Leaves, LeavesDenied
    <3> QED BY <1>1, <1>3, <3>1 DEF Unwinds, Move, Ending, Settled
  <2>2. CASE conn[f] = "leaving" /\ ~running
    <3>1. Leaves(f)
      BY <2>2 DEF FeedStep, LoopHead, ConnectFails, Connects, AuthSucceeds, AuthDenied, Subscribed,
           ConnectionEnds, FrameArrives, TickHandled, TickRaises, LeavesDenied, Unwinds
    <3> QED BY <1>1, <1>3, <2>2, <3>1 DEF Leaves, Retry, Move, Ending, Settled
  <2>3. CASE f \in closing /\ conn[f] \in {"listening", "handling"} /\ ~running
    <3>1. ConnectionEnds(f) \/ FrameArrives(f) \/ TickHandled(f) \/ TickRaises(f)
      BY <2>3 DEF FeedStep, LoopHead, ConnectFails, Connects, AuthSucceeds, AuthDenied, Subscribed,
           Leaves, LeavesDenied, Unwinds
    <3>2. CASE TickHandled(f) \/ TickRaises(f)
      BY <1>1, <1>3, <2>3, <3>2 DEF TickHandled, TickRaises, Proceed, Move, Ending, Settled
    <3>3. CASE ConnectionEnds(f) \/ FrameArrives(f)
      BY <1>1, <1>3, <2>3, <3>3 DEF ConnectionEnds, FrameArrives, LeaveBlock, Move, Ending, Settled
    <3> QED BY <3>1, <3>2, <3>3
  <2> QED BY <1>3, <2>1, <2>2, <2>3 DEF Ending
<1> QED BY <1>2, <1>3

LEMMA SettledStays ==
  ASSUME FeedInv, NEW f \in Feeds, FeedStep(f), NEW g \in Feeds, Settled(g)
  PROVE  Settled(g)'
<1>1. conn \in [Feeds -> Places]
  BY DEF FeedInv, FeedTypeOK
<1>2. CASE g # f
  BY <1>1, <1>2 DEF FeedStep, LoopHead, ConnectFails, Connects, AuthSucceeds, AuthDenied, Subscribed,
       ConnectionEnds, FrameArrives, TickHandled, TickRaises, Leaves, LeavesDenied, Unwinds,
       Retry, LeaveBlock, Proceed, Move, Settled
<1>3. CASE g = f
  <2>1. Unwinds(f)
    BY <1>3 DEF Settled, FeedStep, LoopHead, ConnectFails, Connects, AuthSucceeds, AuthDenied, Subscribed,
         ConnectionEnds, FrameArrives, TickHandled, TickRaises, Leaves, LeavesDenied
  <2> QED BY <1>1, <1>3, <2>1 DEF Unwinds, Move, Settled
<1> QED BY <1>2, <1>3

LEMMA StoppedStays ==
  ASSUME FeedInv, NEW f \in Feeds, FeedStep(f), NEW g \in Feeds, Stopped(g)
  PROVE  Stopped(g)'
<1>1. /\ conn \in [Feeds -> Places]
      /\ closing \subseteq {h \in Feeds : conn[h] \in Connected}
  BY DEF FeedInv, FeedTypeOK
<1>2. CASE Settled(g)
  BY <1>2, SettledStays DEF Stopped
<1>3. CASE g # f
  BY <1>1, <1>3 DEF FeedStep, LoopHead, ConnectFails, Connects, AuthSucceeds, AuthDenied, Subscribed,
       ConnectionEnds, FrameArrives, TickHandled, TickRaises, Leaves, LeavesDenied, Unwinds,
       Retry, LeaveBlock, Proceed, Move, Settled, Stopped
<1>4. CASE g = f /\ ~Settled(f)
  <2>1. conn[f] \notin {"unborn", "starting"}
    BY DEF FeedStep, LoopHead, ConnectFails, Connects, AuthSucceeds, AuthDenied, Subscribed,
         ConnectionEnds, FrameArrives, TickHandled, TickRaises, Leaves, LeavesDenied, Unwinds
  <2>2. ~running /\ (conn[f] = "handling" => f \in closing)
    BY <1>4, <2>1 DEF Stopped
  <2>3. CASE TickHandled(f) \/ TickRaises(f)
    BY <1>1, <1>4, <2>2, <2>3 DEF TickHandled, TickRaises, Proceed, Move, Stopped
  <2>4. CASE ~TickHandled(f) /\ ~TickRaises(f)
    <3>1. ~running' /\ conn'[f] # "handling"
      BY <1>1, <2>2, <2>4 DEF FeedStep, LoopHead, ConnectFails, Connects, AuthSucceeds, AuthDenied,
           Subscribed, ConnectionEnds, FrameArrives, Leaves, LeavesDenied, Unwinds,
           Retry, LeaveBlock, Move
    <3> QED BY <1>4, <3>1 DEF Stopped
  <2> QED BY <2>3, <2>4
<1> QED BY <1>2, <1>3, <1>4

\* A cancellation, the first one or the second one.
LEMMA CancelKeeps ==
  ASSUME AppInv, CancelConnections
  PROVE  /\ FeedInv'
         /\ threads' \subseteq Feeds
         /\ survived' \in [Feeds -> Nat]
         /\ \A f \in Feeds : \/ Settled(f)' /\ survived'[f] = survived[f]
                             \/ ~Settled(f) /\ survived'[f] = survived[f] + 1
         /\ stopRequested /\ ~interrupted =>
              \A f \in Feeds : Stopped(f)' /\ Ending(f)'
<1>1. /\ FeedInv' /\ UNCHANGED running
      /\ \A f \in Feeds : \/ Settled(f)'
                          \/ /\ conn[f] = "handling" /\ conn'[f] = "handling"
                             /\ f \in closing => f \in closing'
  BY CancelFeedInv DEF CancelConnections, AppInv
<1>2. /\ survived \in [Feeds -> 0..2] /\ threads \subseteq Feeds
      /\ survived' = [f \in Feeds |-> IF conn'[f] = "handling" THEN survived[f] + 1 ELSE survived[f]]
      /\ threads' \subseteq Feeds
  BY DEF CancelConnections, AppInv, AppTypeOK
<1>3. ASSUME NEW f \in Feeds
      PROVE  \/ Settled(f)' /\ survived'[f] = survived[f]
             \/ ~Settled(f) /\ survived'[f] = survived[f] + 1
  BY <1>1, <1>2 DEF Settled
<1>4. ASSUME stopRequested, ~interrupted, NEW f \in Feeds
      PROVE  Stopped(f)' /\ Ending(f)'
  <2>1. Stopped(f)
    BY <1>4 DEF AppInv
  <2> QED BY <1>1, <2>1 DEF Stopped, Ending, Settled
<1>5. survived' \in [Feeds -> Nat]
  BY <1>2
<1> QED BY <1>1, <1>2, <1>3, <1>4, <1>5

\* The first cancellation, after a stop request or without one.
LEMMA CancelsFeedInv ==
  ASSUME AppInv, CancelsFeed, Runs,
         interrupted' \in BOOLEAN, interrupted' <=> ~stopRequested,
         UNCHANGED <<bot, command, stopRequested>>
  PROVE  AppInv'
<1>1. /\ main' = "stoppingFeed" /\ CancelConnections
      /\ ~interrupted /\ \A f \in Feeds : survived[f] = 0
  BY DEF CancelsFeed, AppInv, SurvivorsInv
<1>2. ~Runs' /\ main' \notin {"down", "exited"}
  BY <1>1 DEF Runs
<1>3. /\ FeedInv' /\ threads' \subseteq Feeds
      /\ survived' \in [Feeds -> Nat]
      /\ \A f \in Feeds : \/ Settled(f)' /\ survived'[f] = 0
                          \/ survived'[f] = 1
      /\ stopRequested => \A f \in Feeds : Stopped(f)'
  BY <1>1, CancelKeeps
<1>4. survived' \in [Feeds -> 0..2]
  BY <1>3
<1>5. AppTypeOK'
  BY <1>1, <1>3, <1>4 DEF AppInv, AppTypeOK, FeedInv
<1>6. SurvivorsInv'
  BY <1>1, <1>2, <1>3 DEF SurvivorsInv
<1> QED BY <1>2, <1>3, <1>5, <1>6 DEF AppInv

\* The second one.
LEMMA GoesDownInv ==
  ASSUME AppInv, GoesDown
  PROVE  AppInv'
<1>1. /\ main = "stoppingBot" /\ main' = "down" /\ CancelConnections
      /\ BotOver /\ command' = "none"
      /\ UNCHANGED <<bot, stopRequested, interrupted>>
      /\ \A f \in Feeds : Settled(f) \/ survived[f] = 1
      /\ stopRequested \/ interrupted
  BY DEF GoesDown, AppInv, SurvivorsInv, Runs
<1>2. ~Runs' /\ BotOver'
  BY <1>1 DEF Runs, BotOver
<1>3. /\ FeedInv' /\ threads' \subseteq Feeds
      /\ survived' \in [Feeds -> Nat]
      /\ \A f \in Feeds : \/ Settled(f)' /\ survived'[f] = survived[f]
                          \/ survived'[f] = 2
      /\ ~interrupted => \A f \in Feeds : Stopped(f)' /\ Ending(f)'
  BY <1>1, CancelKeeps
<1>4. survived' \in [Feeds -> 0..2]
  BY <1>3 DEF AppInv, AppTypeOK
<1>5. AppTypeOK'
  BY <1>1, <1>3, <1>4 DEF AppInv, AppTypeOK, FeedInv
<1>6. SurvivorsInv'
  BY <1>1, <1>2, <1>3 DEF SurvivorsInv
<1> QED BY <1>1, <1>2, <1>3, <1>5, <1>6 DEF AppInv

\* A step of the process that is no cancellation.
Onward == \/ UNCHANGED main
          \/ Runs /\ Runs'
          \/ main = "stoppingFeed" /\ main' = "stoppingBot"
          \/ main = "down" /\ main' = "exited"

\* What it keeps.
LEMMA QuietStep ==
  ASSUME AppInv, FeedInv', Onward, UNCHANGED <<threads, survived, interrupted>>,
         main' \in {"boot", "awaitingBot", "serving", "stoppingFeed", "stoppingBot", "down", "exited"},
         bot' \in {"off", "connecting", "retrying", "polling", "unwinding", "done"},
         command' \in {"none", "replying"}, stopRequested' \in BOOLEAN,
         \A f \in Feeds : (Settled(f) => Settled(f)') /\ (Ending(f) => Ending(f)'),
         stopRequested => stopRequested',
         stopRequested' /\ ~interrupted => \A f \in Feeds : Stopped(f)',
         main' \in {"down", "exited"} => BotOver' /\ command' = "none"
  PROVE  AppInv'
<1>1. AppTypeOK'
  BY DEF AppInv, AppTypeOK, FeedInv
<1>2. SurvivorsInv'
  BY DEF AppInv, SurvivorsInv, Onward, Runs
<1>3. ~Runs' => stopRequested' \/ interrupted'
  BY DEF AppInv, Onward, Runs
<1> QED BY <1>1, <1>2, <1>3 DEF AppInv

\* A step of the main task, of the bot or of a thread alone.
LEMMA FeedsAside ==
  ASSUME AppInv, UNCHANGED feedVars
  PROVE  /\ FeedInv'
         /\ \A f \in Feeds : /\ Settled(f) => Settled(f)'
                             /\ Ending(f) => Ending(f)'
                             /\ Stopped(f) => Stopped(f)'
<1>1. UNCHANGED <<running, conn, backoff, frame, at, handed, closing, authFailed>>
  BY DEF feedVars, frameVars
<1>2. \A f \in Feeds : FrameAt(f)'
  BY <1>1 DEF AppInv, FeedInv, FrameAt
<1> QED BY <1>1, <1>2 DEF AppInv, FeedInv, FeedTypeOK, Settled, Ending, Stopped

\* A step of the feed alone.
LEMMA FeedAlone ==
  ASSUME AppInv, FeedInv', UNCHANGED mainVars,
         \A f \in Feeds : (Settled(f) => Settled(f)') /\ (Ending(f) => Ending(f)'),
         stopRequested /\ ~interrupted => \A f \in Feeds : Stopped(f)'
  PROVE  AppInv'
<1>1. UNCHANGED <<main, bot, command, stopRequested, threads, survived, interrupted>>
  BY DEF mainVars, endVars
<1>2. /\ stopRequested' /\ ~interrupted => \A f \in Feeds : Stopped(f)'
      /\ stopRequested => stopRequested'
  BY <1>1
<1>3. /\ main' \in {"boot", "awaitingBot", "serving", "stoppingFeed", "stoppingBot", "down", "exited"}
      /\ bot' \in {"off", "connecting", "retrying", "polling", "unwinding", "done"}
      /\ command' \in {"none", "replying"} /\ stopRequested' \in BOOLEAN
      /\ main' \in {"down", "exited"} => BotOver' /\ command' = "none"
  BY <1>1 DEF AppInv, AppTypeOK, BotOver
<1> QED BY <1>1, <1>2, <1>3, QuietStep DEF Onward

LEMMA StopsInv ==
  ASSUME AppInv, Stops, UNCHANGED <<main, bot, endVars>>, command' \in {"none", command}
  PROVE  AppInv'
<1>1. /\ FeedInv' /\ stopRequested' = TRUE /\ ~running' /\ conn' = conn
      /\ closing' = closing \cup {f \in Feeds : conn[f] \in Connected}
      /\ UNCHANGED <<threads, survived, interrupted, main, bot>>
  BY StopFeedInv DEF Stops, StopFeed, AppInv, endVars
<1>2. \A f \in Feeds : /\ Settled(f) => Settled(f)'
                       /\ Ending(f) => Ending(f)'
                       /\ Stopped(f)'
  BY <1>1 DEF Settled, Ending, Stopped, Connected
<1>3. /\ main' \in {"boot", "awaitingBot", "serving", "stoppingFeed", "stoppingBot", "down", "exited"}
      /\ bot' \in {"off", "connecting", "retrying", "polling", "unwinding", "done"}
      /\ command' \in {"none", "replying"} /\ stopRequested' \in BOOLEAN
      /\ main' \in {"down", "exited"} => BotOver' /\ command' = "none"
  BY <1>1 DEF AppInv, AppTypeOK, BotOver
<1> QED BY <1>1, <1>2, <1>3, QuietStep DEF Onward

LEMMA AppInvStep ==
  ASSUME AppInv, [AppNext]_appVars
  PROVE  AppInv'
<1> USE DEF Onward
<1>0. FeedInv /\ AppTypeOK
  BY DEF AppInv
<1>1. ASSUME NEW f \in Feeds, FeedStep(f), UNCHANGED mainVars PROVE AppInv'
  <2>1. FeedInv'
    BY <1>0, <1>1, FeedStepInv
  <2>2. \A g \in Feeds : /\ Settled(g) => Settled(g)'
                         /\ Ending(g) => Ending(g)'
                         /\ Stopped(g) => Stopped(g)'
    BY <1>0, <1>1, SettledStays, EndingStays, StoppedStays
  <2>3. stopRequested /\ ~interrupted => \A g \in Feeds : Stopped(g)'
    <3> SUFFICES ASSUME stopRequested, ~interrupted, NEW g \in Feeds
                 PROVE  Stopped(g)'
      OBVIOUS
    <3>1. Stopped(g)
      BY DEF AppInv
    <3> QED BY <2>2, <3>1
  <2> QED BY <1>1, <2>1, <2>2, <2>3, FeedAlone
<1>2. CASE FeedStarts
  <2>1. /\ FirstSteps /\ ~(stopRequested /\ running) /\ UNCHANGED mainVars
    BY <1>2 DEF FeedStarts
  <2>2. FeedInv'
    BY <1>0, <2>1, FirstStepsInv
  <2>3. /\ \A f \in Feeds : \/ conn'[f] = conn[f]
                            \/ conn[f] = "starting" /\ conn'[f] \in {"connecting", "ended"}
        /\ UNCHANGED <<running, closing>>
    BY <2>1 DEF FirstSteps
  <2>4. \A f \in Feeds : /\ Settled(f) => Settled(f)'
                         /\ Ending(f) => Ending(f)'
    BY <2>3 DEF Settled, Ending
  <2>5. stopRequested /\ ~interrupted => \A f \in Feeds : Stopped(f)'
    BY <2>1, <2>3 DEF AppInv, Stopped, Settled
  <2> QED BY <2>1, <2>2, <2>4, <2>5, FeedAlone
<1>3. CASE BotStep
  <2>1. UNCHANGED <<feedVars, main, command, stopRequested, endVars>>
    BY <1>3 DEF BotStep, BotMoves, BotConnects, BotConnectFails, PollingFails, BotRetries, BotUnwinds
  <2>2. bot' \in {"polling", "retrying", "connecting", "done"} /\ ~BotOver
    BY <1>3 DEF BotStep, BotMoves, BotConnects, BotConnectFails, PollingFails, BotRetries, BotUnwinds, BotOver
  <2> QED BY <2>1, <2>2, FeedsAside, QuietStep DEF AppInv, AppTypeOK, endVars
<1>4. CASE StartBot
  <2>1. /\ Runs /\ Runs' /\ UNCHANGED <<feedVars, command, stopRequested, endVars>>
        /\ main' = "awaitingBot" /\ bot' = "connecting"
    BY <1>4 DEF StartBot, Runs
  <2> QED BY <2>1, FeedsAside, QuietStep DEF AppInv, AppTypeOK, endVars
<1>5. CASE StartFeed
  <2>1. Runs /\ UNCHANGED <<bot, command, stopRequested, interrupted>>
    BY <1>5 DEF StartFeed, Runs
  <2>2. CASE stopRequested
    <3>1. CancelsFeed /\ interrupted' \in BOOLEAN /\ (interrupted' <=> ~stopRequested)
      BY <1>5, <2>1, <2>2 DEF StartFeed, AppInv, AppTypeOK, SurvivorsInv
    <3> QED BY <2>1, <3>1, CancelsFeedInv
  <2>3. CASE ~stopRequested
    <3>1. main' = "serving" /\ Runs' /\ UNCHANGED <<feedVars, threads, survived>>
      BY <1>5, <2>3 DEF StartFeed, Runs
    <3> QED BY <2>1, <2>3, <3>1, FeedsAside, QuietStep DEF AppInv, AppTypeOK
  <2> QED BY <2>2, <2>3
<1>6. CASE FeedRuns
  <2>1. RunFeed /\ main = "serving" /\ UNCHANGED mainVars
    BY <1>6 DEF FeedRuns
  <2>2. FeedInv' /\ \A f \in Feeds : conn[f] = "unborn" /\ conn'[f] = "starting"
    BY <1>0, <2>1, RunFeedInv DEF RunFeed
  <2>3. \A f \in Feeds : ~Settled(f) /\ ~Ending(f) /\ Stopped(f)'
    BY <2>2 DEF Settled, Ending, Stopped
  <2> QED BY <2>1, <2>2, <2>3, QuietStep DEF AppInv, AppTypeOK, mainVars, endVars
<1>7. CASE ShutsDown \/ RunRaises
  <2>1. /\ Runs /\ CancelsFeed /\ UNCHANGED <<bot, command, stopRequested>>
    BY <1>7 DEF ShutsDown, RunRaises, Runs
  <2>2. interrupted' \in BOOLEAN /\ (interrupted' <=> ~stopRequested)
    <3>1. ~interrupted /\ interrupted \in BOOLEAN /\ stopRequested \in BOOLEAN
      BY <2>1 DEF AppInv, AppTypeOK, SurvivorsInv
    <3>2. CASE ShutsDown
      BY <3>1, <3>2 DEF ShutsDown
    <3>3. CASE RunRaises
      BY <3>1, <3>3 DEF RunRaises
    <3> QED BY <1>7, <3>2, <3>3
  <2> QED BY <2>1, <2>2, CancelsFeedInv
<1>8. CASE CancelsBot
  <2>1. /\ main = "stoppingFeed" /\ main' = "stoppingBot"
        /\ bot' \in {bot, "unwinding"}
        /\ UNCHANGED <<feedVars, command, stopRequested, endVars>>
    BY <1>8 DEF CancelsBot
  <2> QED BY <2>1, FeedsAside, QuietStep DEF AppInv, AppTypeOK, endVars
<1>9. CASE Exits
  <2>1. /\ main = "down" /\ main' = "exited"
        /\ UNCHANGED <<feedVars, bot, command, stopRequested, endVars>>
    BY <1>9 DEF Exits
  <2> QED BY <2>1, FeedsAside, QuietStep DEF AppInv, AppTypeOK, endVars, BotOver
<1>10. CASE \E f \in Feeds : ThreadEnds(f)
  <2>1. /\ UNCHANGED <<feedVars, main, bot, command, stopRequested, survived, interrupted>>
        /\ threads' \subseteq threads
    BY <1>10 DEF ThreadEnds
  <2>2. FeedInv' /\ AppTypeOK'
    BY <2>1, FeedsAside DEF AppInv, AppTypeOK, FeedInv
  <2> QED BY <2>1, <2>2, FeedsAside DEF AppInv, SurvivorsInv, Runs, BotOver
<1>11. CASE Stop
  BY <1>11, StopsInv DEF Stop
<1>12. CASE StopCommand
  <2>1. /\ bot = "polling" /\ command' = "replying"
        /\ UNCHANGED <<feedVars, main, bot, stopRequested, endVars>>
    BY <1>12 DEF StopCommand
  <2>2. main \notin {"down", "exited"}
    BY <2>1 DEF AppInv, BotOver
  <2> QED BY <2>1, <2>2, FeedsAside, QuietStep DEF AppInv, AppTypeOK, endVars
<1>13. CASE StopReplied
  BY <1>13, StopsInv DEF StopReplied
<1>14. CASE UNCHANGED appVars
  <2>1. UNCHANGED <<feedVars, main, bot, command, stopRequested, endVars>>
    BY <1>14 DEF appVars, mainVars
  <2> QED BY <2>1, FeedsAside, QuietStep DEF AppInv, AppTypeOK, endVars, BotOver
<1>15. CASE GoesDown
  BY <1>15, GoesDownInv
<1> QED BY <1>1, <1>2, <1>3, <1>4, <1>5, <1>6, <1>7, <1>8, <1>9, <1>10, <1>11, <1>12, <1>13, <1>14, <1>15
        DEF AppNext, MainStep

LEMMA AppInvInit == AppInit => AppInv
<1> SUFFICES ASSUME AppInit PROVE AppInv
  OBVIOUS
<1>1. /\ running = FALSE /\ conn = [f \in Feeds |-> "unborn"] /\ backoff = [f \in Feeds |-> 1]
      /\ frame = [f \in Feeds |-> <<>>] /\ at = [f \in Feeds |-> 0]
      /\ handed = [f \in Feeds |-> <<>>] /\ closing = {} /\ authFailed = {}
      /\ main = "boot" /\ bot = "off" /\ command = "none" /\ stopRequested = FALSE
      /\ threads = {} /\ survived = [f \in Feeds |-> 0] /\ interrupted = FALSE
  BY DEF AppInit, FeedInit
<1>2. <<>> \in Seq(1..MaxFrame)
  OBVIOUS
<1>3. FeedTypeOK
  <2>1. handed \in [Feeds -> Seq(1..MaxFrame)]
    BY <1>1, <1>2
  <2>2. 1 \in 1..MaxBackoff /\ 0 \in 0..(MaxFrame + 1)
    BY MaxBackoffAssumption, MaxFrameAssumption
  <2>3. conn \in [Feeds -> Places]
    BY <1>1 DEF Places
  <2>4. DOMAIN frame = Feeds /\ \A f \in Feeds : frame[f] \in Frames \cup {<<>>}
    BY <1>1
  <2> QED BY <1>1, <2>1, <2>2, <2>3, <2>4 DEF FeedTypeOK
<1>4. \A f \in Feeds : FrameAt(f)
  BY <1>1 DEF FrameAt, LoopAt
<1>5. AppTypeOK
  <2>1. survived \in [Feeds -> 0..2] /\ threads \subseteq Feeds
    BY <1>1
  <2>2. stopRequested \in BOOLEAN /\ interrupted \in BOOLEAN
    BY <1>1
  <2> QED BY <1>1, <1>3, <2>1, <2>2 DEF AppTypeOK
<1>6. SurvivorsInv /\ Runs /\ FeedInv
  BY <1>1, <1>3, <1>4 DEF SurvivorsInv, Runs, FeedInv
<1> QED BY <1>1, <1>5, <1>6 DEF AppInv

\* The inductive invariant of the process.
THEOREM AppInvariant == AppSpec => []AppInv
BY AppInvInit, AppInvStep, PTL DEF AppSpec

\* Every variable of the process keeps its type.
THEOREM AppTyped == AppSpec => []AppTypeOK
BY AppInvariant, PTL DEF AppInv

\* When _main has returned, the polling loop is over, and a connection that
\* is neither over nor closing has swallowed both cancellations; after a stop
\* request it makes no other attempt.
THEOREM NothingIsLeftRunning == AppSpec => []NothingLeftRunning
<1>1. AppInv => NothingLeftRunning
  BY DEF AppInv, SurvivorsInv, NothingLeftRunning, Ending, Settled, Over
<1> QED BY <1>1, AppInvariant, PTL

\* The ticks of a frame reach on_tick in order, each one once.
THEOREM FramesAlwaysInOrder == AppSpec => []FramesInOrder
<1>1. AppInv => FramesInOrder
  BY DEF AppInv, FeedInv, FrameAt, LoopAt, FramesInOrder, Acts
<1> QED BY <1>1, AppInvariant, PTL
=============================================================================
