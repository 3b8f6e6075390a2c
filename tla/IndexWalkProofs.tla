-------------------------- MODULE IndexWalkProofs ---------------------------
(***************************************************************************)
(* Theorems about SecClient, for any threads, rate and number of attempts: *)
(* the types, the spacing of the requests and the count of the retries;    *)
(* and about IndexWalk, for any calendar of twelve months of equal length  *)
(* and any windows: the run uses the client as SecClient says, visits the  *)
(* days in order and misses none.                                          *)
(***************************************************************************)
EXTENDS IndexWalk, WellFoundedInduction, TLAPS

\* The thread that is between the two reads of the clock holds the lock, and what
\* is left of its sleep makes up for what is missing since the last request.
SleepInv ==
    \A c \in Callers : pc[c] = "sleeping" => lock = c /\ since + nap[c] >= Interval

ClientInv == ClientTypeOK /\ RetriesCounted /\ SleepInv

----------------------------------------------------------------------------

LEMMA ClientInitInv == ClientInit => ClientInv
BY ClientAssumption DEF ClientInit, ClientInv, ClientTypeOK, RetriesCounted, SleepInv

LEMMA TickKeepsInv == ClientInv /\ Tick => ClientInv'
<1> SUFFICES ASSUME ClientInv, Tick PROVE ClientInv'
    OBVIOUS
<1> USE ClientAssumption DEF ClientInv, Tick, Least, Excess
<1>1. ClientTypeOK'
    BY DEF ClientTypeOK
<1>2. RetriesCounted'
    BY DEF RetriesCounted
<1>3. SleepInv'
    BY DEF SleepInv, ClientTypeOK
<1>4. QED
    BY <1>1, <1>2, <1>3

LEMMA CallKeepsInv ==
    ASSUME ClientInv, NEW c \in Callers, Call(c)
    PROVE  ClientInv'
<1> USE ClientAssumption DEF ClientInv, Call
<1>1. ClientTypeOK'
    BY DEF ClientTypeOK
<1>2. RetriesCounted'
    BY DEF RetriesCounted, ClientTypeOK
<1>3. SleepInv'
    BY DEF SleepInv, ClientTypeOK
<1>4. QED
    BY <1>1, <1>2, <1>3

LEMMA AcquireKeepsInv ==
    ASSUME ClientInv, NEW c \in Callers, Acquire(c)
    PROVE  ClientInv'
<1> USE ClientAssumption DEF ClientInv, Acquire, Excess
<1>1. ClientTypeOK'
    BY DEF ClientTypeOK
<1>2. RetriesCounted'
    BY DEF RetriesCounted, ClientTypeOK
<1>3. SleepInv'
    BY DEF SleepInv, ClientTypeOK
<1>4. QED
    BY <1>1, <1>2, <1>3

\* No other thread is in its sleep when one stamps the time.
LEMMA SendKeepsInv ==
    ASSUME ClientInv, NEW c \in Callers, Send(c)
    PROVE  ClientInv'
<1> USE ClientAssumption DEF ClientInv, Send
<1>1. ClientTypeOK'
    BY DEF ClientTypeOK
<1>2. RetriesCounted'
    BY DEF RetriesCounted, ClientTypeOK
<1>3. SleepInv'
    <2> SUFFICES ASSUME NEW d \in Callers, pc'[d] = "sleeping" PROVE FALSE
        BY DEF SleepInv
    <2>1. d # c /\ pc[d] = "sleeping"
        BY DEF ClientTypeOK
    <2>2. QED
        BY <2>1 DEF SleepInv
<1>4. QED
    BY <1>1, <1>2, <1>3

LEMMA ReturnKeepsInv ==
    ASSUME ClientInv, NEW c \in Callers, NEW outcome \in {"ok", "missing", "raised"}, Return(c, outcome)
    PROVE  ClientInv'
<1> USE ClientAssumption DEF ClientInv, Return
<1>1. ClientTypeOK'
    BY DEF ClientTypeOK
<1>2. RetriesCounted'
    BY DEF RetriesCounted, ClientTypeOK
<1>3. SleepInv'
    BY DEF SleepInv, ClientTypeOK
<1>4. QED
    BY <1>1, <1>2, <1>3

LEMMA RetryableKeepsInv ==
    ASSUME ClientInv, NEW c \in Callers, Retryable(c)
    PROVE  ClientInv'
<1>1. CASE attempt[c] < MaxAttempts
    <2> USE ClientAssumption, <1>1 DEF ClientInv, Retryable
    <2>1. retries[c] = attempt[c] - 1
        BY DEF RetriesCounted, ClientTypeOK
    <2>2. ClientTypeOK'
        BY <2>1 DEF ClientTypeOK
    <2>3. RetriesCounted'
        BY <2>1 DEF RetriesCounted, ClientTypeOK
    <2>4. SleepInv'
        BY DEF SleepInv, ClientTypeOK
    <2>5. QED
        BY <2>2, <2>3, <2>4
<1>2. CASE ~(attempt[c] < MaxAttempts)
    BY <1>2, ReturnKeepsInv DEF Retryable
<1>3. QED
    BY <1>1, <1>2

LEMMA RetryKeepsInv ==
    ASSUME ClientInv, NEW c \in Callers, Retry(c)
    PROVE  ClientInv'
<1> USE ClientAssumption DEF ClientInv, Retry
<1>1. attempt[c] = retries[c]
    BY DEF RetriesCounted, ClientTypeOK
<1>2. ClientTypeOK'
    BY <1>1 DEF ClientTypeOK
<1>3. RetriesCounted'
    BY <1>1 DEF RetriesCounted, ClientTypeOK
<1>4. SleepInv'
    BY DEF SleepInv, ClientTypeOK
<1>5. QED
    BY <1>2, <1>3, <1>4

LEMMA ClientStepKeepsInv == ClientInv /\ [ClientNext]_client => ClientInv'
<1> SUFFICES ASSUME ClientInv, [ClientNext]_client PROVE ClientInv'
    OBVIOUS
<1>1. CASE UNCHANGED client
    BY <1>1 DEF client, ClientInv, ClientTypeOK, RetriesCounted, SleepInv
<1>2. CASE Tick
    BY <1>2, TickKeepsInv
<1>3. ASSUME NEW c \in Callers, Call(c) \/ CallStep(c) PROVE ClientInv'
    BY <1>3, CallKeepsInv, AcquireKeepsInv, SendKeepsInv, ReturnKeepsInv, RetryableKeepsInv,
       RetryKeepsInv DEF CallStep, Answer
<1>4. QED
    BY <1>1, <1>2, <1>3 DEF ClientNext

LEMMA ClientInvHolds == ClientSpec => []ClientInv
<1>1. QED
    BY ClientInitInv, ClientStepKeepsInv, PTL DEF ClientSpec

----------------------------------------------------------------------------

\* The types of the client's variables.
THEOREM TypeCorrect == ClientSpec => []ClientTypeOK
<1>1. ClientInv => ClientTypeOK
    BY DEF ClientInv
<1>2. QED
    BY <1>1, ClientInvHolds, PTL

\* retry_count is the number of requests sent after the first (_before_retry_sleep).
THEOREM RetriesAreCounted == ClientSpec => []RetriesCounted
<1>1. ClientInv => RetriesCounted
    BY DEF ClientInv
<1>2. QED
    BY <1>1, ClientInvHolds, PTL

\* However many threads share the client and however often they retry, no request
\* is stamped earlier than Interval after the one before (_rate_limit).
THEOREM RequestsAreSpaced == ClientSpec => Spaced
<1> DEFINE Stamp == \A c \in Callers : pc[c] = "sleeping" /\ pc'[c] = "sent" => since = Interval
<1>1. ASSUME ClientInv, ClientNext, NEW c \in Callers, pc[c] = "sleeping", pc'[c] = "sent"
      PROVE  since = Interval
    <2>1. ~Tick
        BY <1>1 DEF Tick
    <2>2. PICK d \in Callers : Call(d) \/ CallStep(d)
        BY <1>1, <2>1 DEF ClientNext
    <2>3. d = c
        BY <1>1, <2>2 DEF Call, CallStep, Acquire, Send, Answer, Return, Retryable, Retry, ClientInv, ClientTypeOK
    <2>4. Send(c)
        BY <1>1, <2>2, <2>3 DEF Call, CallStep, Acquire, Answer, Return, Retryable, Retry, ClientInv, ClientTypeOK
    <2>5. QED
        BY <1>1, <2>4, ClientAssumption DEF Send, ClientInv, ClientTypeOK, SleepInv
<1>2. ClientInv /\ [ClientNext]_client => [Stamp]_client
    BY <1>1
<1>3. QED
    BY <1>2, ClientInvHolds, PTL DEF ClientSpec, Spaced
----------------------------------------------------------------------------
(* The run uses the client as SecClient says                               *)

LEMMA WalkStepsAreClientSteps == [Next]_vars => [ClientNext]_client
<1>1. ASSUME WalkStep PROVE UNCHANGED client \/ Call(Walker)
    BY <1>1 DEF WalkStep, SkipQuarter, ListQuarter, Listed, VisitDay, Fetched, NextQuarter, Finish
<1>2. StartWalk => UNCHANGED client
    BY DEF StartWalk
<1>3. UNCHANGED vars => UNCHANGED client
    BY DEF vars, client
<1>4. QED
    BY <1>1, <1>2, <1>3, WalkAssumption DEF Next, ClientNext, ClientStep, OtherCall

\* A behaviour of the walk is one of the client: what is proved of the client
\* holds in the run.
THEOREM WalkUsesClient == Spec => ClientSpec
<1>1. Init => ClientInit
    BY DEF Init
<1>2. QED
    BY <1>1, WalkStepsAreClientSteps, PTL DEF Spec, ClientSpec

----------------------------------------------------------------------------
(* The calendar                                                            *)

\* A set of natural numbers that is not empty has a least element.
LEMMA LeastExists ==
    ASSUME NEW S \in SUBSET Nat, S # {}
    PROVE  \E x \in S : \A y \in S : x <= y
<1> DEFINE R == {ss \in Nat \X Nat : ss[1] < ss[2]}
<1>1. IsWellFoundedOn(R, Nat)
    BY NatLessThanWellFounded DEF OpToRel
<1>2. PICK x \in S : \A y \in S : <<y, x>> \notin R
    BY <1>1, WFMin, Zenon
<1>3. ASSUME NEW y \in S PROVE x <= y
    <2>1. <<y, x>> \in Nat \X Nat /\ <<y, x>> \notin R
        BY <1>2
    <2>2. QED
        BY <2>1
<1>4. QED
    BY <1>3

LEMMA MinIsLeast ==
    ASSUME NEW S \in SUBSET Nat, S # {}
    PROVE  Min(S) \in S /\ \A y \in S : Min(S) <= y
BY LeastExists DEF Min

LEMMA MaxOfTwo ==
    ASSUME NEW a \in Nat, NEW b \in Nat
    PROVE  Max({a, b}) = IF a >= b THEN a ELSE b
BY DEF Max

LEMMA MinOfTwo ==
    ASSUME NEW a \in Nat, NEW b \in Nat
    PROVE  Min({a, b}) = IF a <= b THEN a ELSE b
BY DEF Min

\* The quarters follow upon each other without a gap and without a common day.
LEMMA QuartersAdjoin ==
    ASSUME year \in Nat, quarter \in 1..4
    PROVE  /\ QuarterStart \in Nat /\ QuarterEnd \in Nat
           /\ QuarterStart <= QuarterEnd
           /\ Advance => /\ year' \in Nat /\ quarter' \in 1..4
                         /\ QuarterStart' = QuarterEnd + 1
<1> DEFINE first == year * 12 + (quarter - 1) * 3
<1>1. first \in Nat /\ QuarterStart = first * MonthDays
    BY DEF QuarterStart, FirstOf
<1>2. QuarterEnd = (first + 3) * MonthDays - 1
    BY WalkAssumption DEF QuarterEnd, FirstOf
<1>3. first * MonthDays + 3 <= (first + 3) * MonthDays
    BY <1>1, WalkAssumption
<1>4. ASSUME Advance PROVE QuarterStart' = (first + 3) * MonthDays
    BY <1>4 DEF Advance, QuarterStart, FirstOf
<1>5. QED
    BY <1>1, <1>2, <1>3, <1>4, WalkAssumption DEF Advance

LEMMA WindowOfQuarter ==
    ASSUME year \in Nat, quarter \in 1..4, start \in Nat, end \in Nat
    PROVE  QuarterWindow = {d \in start..end : QuarterStart <= d /\ d <= QuarterEnd}
BY QuartersAdjoin, MaxOfTwo, MinOfTwo DEF QuarterWindow

\* A run begins with the first quarter of a year that is not over.
LEMMA YearBegins ==
    ASSUME NEW d \in Nat
    PROVE  YearOf(d) \in Nat /\ FirstOf(YearOf(d), 1) <= d
BY WalkAssumption DEF YearOf, FirstOf

LEMMA MonthsOfYear ==
    ASSUME NEW d \in Nat, NEW m \in Nat \ {0}
    PROVE  d \div (12 * m) = (d \div m) \div 12
OBVIOUS

\* A month that lies before the quarter q of the year y, months being counted from 0.
LEMMA MonthBeforeQuarter ==
    ASSUME NEW k \in Nat, NEW y \in Nat, NEW q \in 1..4,
           y > k \div 12 \/ (y = k \div 12 /\ q > ((k % 12) \div 3) + 1)
    PROVE  k + 1 <= y * 12 + (q - 1) * 3
OBVIOUS

\* When the quarters are at an end the current one lies after the window.
LEMMA PastTheEnd ==
    ASSUME year \in Nat, quarter \in 1..4, end \in Nat, ~InRange
    PROVE  end < QuarterStart
<1> DEFINE month == end \div MonthDays
<1>1. month \in Nat /\ end < (month + 1) * MonthDays
    BY WalkAssumption
<1>2. YearOf(end) = month \div 12
    BY MonthsOfYear, WalkAssumption DEF YearOf
<1>3. QuarterForDate(end) = ((month % 12) \div 3) + 1
    <2>1. month % 12 \in Nat
        BY <1>1
    <2>2. QED
        BY <2>1 DEF QuarterForDate, MonthOf
<1>4. year > month \div 12 \/ (year = month \div 12 /\ quarter > ((month % 12) \div 3) + 1)
    <2>1. month \div 12 \in Nat /\ ((month % 12) \div 3) + 1 \in Nat
        BY <1>1
    <2>2. QED
        BY <1>2, <1>3, <2>1 DEF InRange
<1>5. month + 1 <= year * 12 + (quarter - 1) * 3
    <2> HIDE DEF month
    <2>1. QED
        BY <1>1, <1>4, MonthBeforeQuarter
<1>6. (month + 1) * MonthDays <= (year * 12 + (quarter - 1) * 3) * MonthDays
    BY <1>1, <1>5, WalkAssumption
<1>7. QED
    BY <1>1, <1>6, WalkAssumption DEF QuarterStart, FirstOf

----------------------------------------------------------------------------
(* The run                                                                 *)

WalkTypeOK ==
    /\ start \in Nat /\ end \in Nat
    /\ year \in Nat /\ quarter \in 1..4
    /\ posted \in SUBSET Nat /\ \A d \in posted : IsWeekday(d)
    /\ names \in SUBSET Nat
    /\ visited \in Seq(Nat)

\* The indexes the run should read.
Wanted == posted \cap start .. end

\* What the run has read and visited lies in its window.
ReadInv ==
    /\ phase = "idle" => visited = <<>> /\ fetched = {}
    /\ fetched \subseteq Wanted
    /\ \A i \in DOMAIN visited : visited[i] \in start .. end

\* The request for an index has been answered by whether it is posted.
AnswerInv ==
    phase = "fetching" =>
        /\ visited # <<>>
        /\ pc[Walker] = "idle" =>
              /\ result[Walker] \in {"ok", "missing", "raised"}
              /\ result[Walker] = "ok" => Last(visited) \in posted
              /\ result[Walker] = "missing" => Last(visited) \notin posted

\* Between two quarters all that comes before the current one is done.
BetweenInv ==
    phase \in {"quarters", "listing"} =>
        /\ \A i \in DOMAIN visited : visited[i] < QuarterStart
        /\ \A d \in Wanted : d < QuarterStart => d \in fetched

\* Within a quarter what is not done is still to come, after what was visited.
WithinInv ==
    phase \in {"days", "fetching"} =>
        /\ names \subseteq QuarterWindow
        /\ \A i \in DOMAIN visited : visited[i] <= QuarterEnd /\ \A d \in names : visited[i] < d
        /\ \A d \in Wanted : d <= QuarterEnd =>
              d \in fetched \/ d \in names \/ (phase = "fetching" /\ d = Last(visited))

WalkInv ==
    WalkTypeOK /\ ReadInv /\ AnswerInv /\ BetweenInv /\ WithinInv /\ VisitedInOrder /\ NothingMissed

LEMMA WalkInitInv == Init => WalkInv
BY DEF Init, WalkInv, WalkTypeOK, ReadInv, AnswerInv, BetweenInv, WithinInv, VisitedInOrder,
       NothingMissed, Wanted

\* What a step that is none of the run's can disturb is what is known of the answer.
LEMMA OthersKeepWalkInv ==
    ASSUME WalkInv, UNCHANGED walk, AnswerInv'
    PROVE  WalkInv'
BY DEF WalkInv, walk, WalkTypeOK, ReadInv, BetweenInv, WithinInv, VisitedInOrder, NothingMissed,
       Wanted, QuarterWindow, QuarterStart, QuarterEnd

LEMMA AnswersAreHonest ==
    ASSUME WalkInv, ClientTypeOK, UNCHANGED walk,
           \/ \E c \in Callers : CallStep(c) /\ Honest
           \/ \E c \in Callers \ {Walker} : Call(c)
           \/ Tick
           \/ UNCHANGED client
    PROVE  AnswerInv'
<1> SUFFICES ASSUME phase = "fetching", pc'[Walker] = "idle"
             PROVE  /\ result'[Walker] \in {"ok", "missing", "raised"}
                    /\ result'[Walker] = "ok" => Last(visited) \in posted
                    /\ result'[Walker] = "missing" => Last(visited) \notin posted
    BY DEF AnswerInv, WalkInv, walk
<1>1. CASE \E c \in Callers : CallStep(c) /\ Honest
    <2>1. PICK c \in Callers : CallStep(c) /\ Honest
        BY <1>1
    <2>2. result'[Walker] \in {"ok", "missing", "raised"}
        <3>1. CASE pc[Walker] = "idle"
            BY <2>1, <3>1, WalkAssumption DEF CallStep, Acquire, Send, Answer, Return, Retryable,
               Retry, ClientTypeOK, WalkInv, AnswerInv
        <3>2. CASE pc[Walker] # "idle"
            BY <2>1, <3>2, WalkAssumption DEF CallStep, Acquire, Send, Answer, Return, Retryable,
               Retry, ClientTypeOK
        <3>3. QED
            BY <3>1, <3>2
    <2>3. QED
        BY <2>1, <2>2 DEF Honest
<1>2. CASE ~(\E c \in Callers : CallStep(c) /\ Honest)
    <2>1. pc[Walker] = "idle" /\ result'[Walker] = result[Walker]
        BY <1>2, WalkAssumption DEF Call, Tick, client, ClientTypeOK
    <2>2. QED
        BY <2>1 DEF WalkInv, AnswerInv
<1>3. QED
    BY <1>1, <1>2

LEMMA StartWalkKeepsInv == WalkInv /\ StartWalk => WalkInv'
<1> SUFFICES ASSUME WalkInv, StartWalk PROVE WalkInv'
    OBVIOUS
<1>1. PICK w \in Windows : /\ start' = w[1] /\ end' = w[2]
                           /\ posted' \in SUBSET Postable(w) /\ year' = YearOf(w[1])
    BY DEF StartWalk
<1>2. w[1] \in Nat /\ w[2] \in Nat
    BY WalkAssumption
<1>3. Postable(w) \subseteq Nat /\ \A d \in Postable(w) : IsWeekday(d)
    BY <1>2 DEF Postable, Excess
<1>4. WalkTypeOK'
    <2>1. start' \in Nat /\ end' \in Nat /\ year' \in Nat
        BY <1>1, <1>2, YearBegins
    <2>2. posted' \in SUBSET Nat /\ \A d \in posted' : IsWeekday(d)
        BY <1>1, <1>3
    <2>3. quarter' = 1 /\ names' = names /\ visited' = visited
        BY DEF StartWalk
    <2>4. QED
        BY <2>1, <2>2, <2>3 DEF WalkTypeOK, WalkInv
<1>5. visited' = <<>> /\ fetched' = {} /\ phase' = "quarters"
    BY DEF StartWalk, WalkInv, ReadInv
<1>6. (QuarterStart <= start)'
    BY <1>1, <1>2, YearBegins DEF QuarterStart, FirstOf, StartWalk
<1>7. BetweenInv'
    <2>1. QuarterStart' \in Nat
        BY <1>4, WalkAssumption DEF WalkTypeOK, StartWalk, QuarterStart, FirstOf
    <2>2. ASSUME NEW d \in Wanted' PROVE ~(d < QuarterStart')
        BY <1>4, <1>6, <2>1 DEF Wanted, WalkTypeOK
    <2>3. QED
        BY <1>5, <2>2 DEF BetweenInv
<1>8. QED
    BY <1>4, <1>5, <1>7 DEF WalkInv, ReadInv, AnswerInv, WithinInv, VisitedInOrder, NothingMissed

LEMMA SkipQuarterKeepsInv == WalkInv /\ SkipQuarter => WalkInv'
<1> SUFFICES ASSUME WalkInv, SkipQuarter PROVE WalkInv'
    OBVIOUS
<1>1. /\ QuarterStart \in Nat /\ QuarterEnd \in Nat /\ QuarterStart <= QuarterEnd
      /\ year' \in Nat /\ quarter' \in 1..4 /\ QuarterStart' = QuarterEnd + 1
    BY QuartersAdjoin DEF SkipQuarter, WalkInv, WalkTypeOK
<1>2. /\ UNCHANGED <<client, start, end, posted, names, visited, fetched>>
      /\ phase = "quarters" /\ phase' = "quarters"
    BY DEF SkipQuarter, Advance
<1>3. WalkTypeOK'
    BY <1>1, <1>2 DEF WalkInv, WalkTypeOK
<1>4. BetweenInv'
    <2>1. \A d \in Wanted : d < QuarterStart \/ d > QuarterEnd
        <3>1. QuarterWindow = {d \in start..end : QuarterStart <= d /\ d <= QuarterEnd}
            BY WindowOfQuarter DEF WalkInv, WalkTypeOK
        <3>2. \A d \in Wanted : d \in start..end /\ d \in Nat
            BY DEF Wanted, WalkInv, WalkTypeOK
        <3>3. QuarterWindow = {}
            BY DEF SkipQuarter
        <3>4. QED
            BY <1>1, <3>1, <3>2, <3>3
    <2>2. \A d \in Wanted : d < QuarterEnd + 1 => d \in fetched
        BY <1>1, <1>2, <2>1 DEF WalkInv, BetweenInv, Wanted, WalkTypeOK
    <2>3. \A i \in DOMAIN visited : visited[i] < QuarterEnd + 1
        BY <1>1, <1>2 DEF WalkInv, BetweenInv, WalkTypeOK
    <2>4. QED
        BY <1>1, <1>2, <2>2, <2>3 DEF BetweenInv, Wanted
<1>5. ReadInv' /\ VisitedInOrder'
    BY <1>2 DEF WalkInv, ReadInv, VisitedInOrder, Wanted
<1>6. QED
    BY <1>2, <1>3, <1>4, <1>5 DEF WalkInv, AnswerInv, WithinInv, NothingMissed

LEMMA ListQuarterKeepsInv == WalkInv /\ ListQuarter => WalkInv'
BY DEF WalkInv, ListQuarter, WalkTypeOK, ReadInv, AnswerInv, BetweenInv, WithinInv, VisitedInOrder,
       NothingMissed, Wanted, QuarterStart

LEMMA ListedKeepsInv == WalkInv /\ Listed => WalkInv'
<1> SUFFICES ASSUME WalkInv, Listed PROVE WalkInv'
    OBVIOUS
<1>1. QuarterStart \in Nat /\ QuarterEnd \in Nat /\ QuarterStart <= QuarterEnd
    BY QuartersAdjoin DEF WalkInv, WalkTypeOK
<1>2. QuarterWindow = {d \in start..end : QuarterStart <= d /\ d <= QuarterEnd}
    BY WindowOfQuarter DEF WalkInv, WalkTypeOK
<1>3. /\ UNCHANGED <<client, start, end, posted, year, quarter, visited, fetched>>
      /\ phase = "listing" /\ phase' = "days"
    BY DEF Listed
<1>4. \A i \in DOMAIN visited : visited[i] < QuarterStart /\ visited[i] \in Nat
    BY <1>3 DEF WalkInv, BetweenInv, WalkTypeOK
<1>5. names' \subseteq QuarterWindow /\ posted \cap QuarterWindow \subseteq names'
    <2>1. ToSet(visited) \cap QuarterWindow = {}
        BY <1>1, <1>2, <1>4 DEF ToSet
    <2>2. posted \subseteq {d \in Nat : IsWeekday(d)}
        BY DEF WalkInv, WalkTypeOK
    <2>3. QED
        BY <2>1, <2>2, <1>2 DEF Listed, WalkInv, WalkTypeOK
<1>6. WalkTypeOK'
    BY <1>2, <1>3, <1>5 DEF WalkInv, WalkTypeOK
<1>7. WithinInv'
    <2>1. QuarterWindow' = QuarterWindow /\ QuarterEnd' = QuarterEnd /\ Wanted' = Wanted
        BY <1>3 DEF QuarterWindow, QuarterStart, QuarterEnd, Wanted
    <2>2. \A i \in DOMAIN visited : visited[i] <= QuarterEnd /\ \A d \in names' : visited[i] < d
        BY <1>1, <1>2, <1>4, <1>5 DEF WalkInv, WalkTypeOK
    <2>3. \A d \in Wanted : d <= QuarterEnd => d \in fetched \/ d \in names'
        BY <1>1, <1>2, <1>3, <1>5 DEF WalkInv, BetweenInv, Wanted, WalkTypeOK
    <2>4. QED
        BY <1>3, <1>5, <2>1, <2>2, <2>3 DEF WithinInv
<1>8. ReadInv' /\ VisitedInOrder'
    BY <1>3 DEF WalkInv, ReadInv, VisitedInOrder, Wanted
<1>9. QED
    BY <1>3, <1>6, <1>7, <1>8 DEF WalkInv, AnswerInv, BetweenInv, NothingMissed

LEMMA VisitDayKeepsInv == WalkInv /\ ClientTypeOK /\ VisitDay => WalkInv'
<1> SUFFICES ASSUME WalkInv, ClientTypeOK, VisitDay PROVE WalkInv'
    OBVIOUS
<1> DEFINE day == Min(names)
<1>1. day \in names /\ \A d \in names : day <= d
    BY MinIsLeast DEF VisitDay, WalkInv, WalkTypeOK
<1>2. /\ UNCHANGED <<start, end, posted, year, quarter, fetched>>
      /\ phase = "days" /\ phase' = "fetching"
      /\ names' = names \ {day} /\ visited' = Append(visited, day)
    BY DEF VisitDay
<1> HIDE DEF day
<1>3. /\ visited \in Seq(Nat) /\ visited' \in Seq(Nat) /\ day \in Nat
      /\ Len(visited') = Len(visited) + 1 /\ Last(visited') = day
      /\ \A i \in 1..Len(visited) : visited'[i] = visited[i]
      /\ visited'[Len(visited) + 1] = day
    BY <1>1, <1>2 DEF WalkInv, WalkTypeOK, Last
<1>4. /\ QuarterWindow = {d \in start..end : QuarterStart <= d /\ d <= QuarterEnd}
      /\ QuarterStart \in Nat /\ QuarterEnd \in Nat
    BY WindowOfQuarter, QuartersAdjoin DEF WalkInv, WalkTypeOK
<1>5. /\ day \in start..end /\ day <= QuarterEnd
      /\ \A i \in 1..Len(visited) : visited[i] < day /\ visited[i] <= QuarterEnd
    BY <1>1, <1>2, <1>3, <1>4 DEF WalkInv, WithinInv
<1>6. WalkTypeOK'
    BY <1>2, <1>3 DEF WalkInv, WalkTypeOK
<1>7. ReadInv'
    <2>1. \A i \in 1..Len(visited) + 1 : visited'[i] \in start..end
        BY <1>3, <1>5 DEF WalkInv, ReadInv
    <2>2. QED
        BY <1>2, <1>3, <2>1 DEF WalkInv, ReadInv, Wanted
<1>8. AnswerInv'
    BY <1>2, <1>3, WalkAssumption DEF AnswerInv, VisitDay, Call, ClientTypeOK
<1>9. WithinInv'
    <2>1. QuarterWindow' = QuarterWindow /\ QuarterEnd' = QuarterEnd /\ Wanted' = Wanted
        BY <1>2 DEF QuarterWindow, QuarterStart, QuarterEnd, Wanted
    <2>2. \A i \in 1..Len(visited) + 1 : visited'[i] <= QuarterEnd /\ \A d \in names' : visited'[i] < d
        <3>1. \A i \in 1..Len(visited) : visited[i] <= QuarterEnd /\ \A d \in names : visited[i] < d
            BY <1>2, <1>3 DEF WalkInv, WithinInv
        <3>2. day <= QuarterEnd /\ \A d \in names' : day < d
            BY <1>1, <1>2, <1>5 DEF WalkInv, WalkTypeOK
        <3>3. QED
            BY <1>2, <1>3, <3>1, <3>2
    <2>3. \A d \in Wanted : d <= QuarterEnd => d \in fetched \/ d \in names' \/ d = day
        BY <1>2 DEF WalkInv, WithinInv
    <2>4. names' \subseteq QuarterWindow
        BY <1>2 DEF WalkInv, WithinInv
    <2>5. QED
        BY <1>2, <1>3, <2>1, <2>2, <2>3, <2>4 DEF WithinInv
<1>10. VisitedInOrder'
    <2>1. \A i, j \in 1..Len(visited) : i < j => visited[i] < visited[j]
        BY <1>3 DEF WalkInv, VisitedInOrder
    <2>2. \A i, j \in 1..Len(visited) + 1 : i < j => visited'[i] < visited'[j]
        <3>1. TAKE i, j \in 1..Len(visited) + 1
        <3>2. HAVE i < j
        <3>3. Len(visited) \in Nat
            BY <1>3
        <3>4. CASE j = Len(visited) + 1
            BY <1>3, <1>5, <3>2, <3>3, <3>4
        <3>5. CASE j # Len(visited) + 1
            <4>1. i \in 1..Len(visited) /\ j \in 1..Len(visited)
                BY <3>2, <3>3, <3>5
            <4>2. QED
                BY <1>3, <2>1, <3>2, <4>1
        <3>6. QED
            BY <3>4, <3>5
    <2>3. QED
        BY <1>3, <2>2 DEF VisitedInOrder
<1>11. QED
    BY <1>2, <1>6, <1>7, <1>8, <1>9, <1>10 DEF WalkInv, BetweenInv, NothingMissed

LEMMA FetchedKeepsInv == WalkInv /\ Fetched => WalkInv'
<1> SUFFICES ASSUME WalkInv, Fetched PROVE WalkInv'
    OBVIOUS
<1>1. /\ UNCHANGED <<client, start, end, posted, year, quarter, names, visited>>
      /\ phase = "fetching" /\ phase' \in {"aborted", "days"} /\ pc[Walker] = "idle"
    BY DEF Fetched
<1>2. Last(visited) \in start..end
    BY <1>1 DEF WalkInv, WalkTypeOK, AnswerInv, ReadInv, Last
<1>3. /\ fetched \subseteq fetched' /\ fetched' \subseteq Wanted
      /\ phase' = "days" /\ Last(visited) \in posted => Last(visited) \in fetched'
    BY <1>1, <1>2 DEF Fetched, WalkInv, AnswerInv, ReadInv, Wanted
<1>4. WithinInv'
    BY <1>1, <1>3 DEF WalkInv, WithinInv, Wanted, QuarterWindow, QuarterStart, QuarterEnd
<1>5. QED
    BY <1>1, <1>3, <1>4 DEF WalkInv, WalkTypeOK, ReadInv, AnswerInv, BetweenInv, VisitedInOrder,
       NothingMissed, Wanted

LEMMA NextQuarterKeepsInv == WalkInv /\ NextQuarter => WalkInv'
<1> SUFFICES ASSUME WalkInv, NextQuarter PROVE WalkInv'
    OBVIOUS
<1>1. /\ QuarterStart \in Nat /\ QuarterEnd \in Nat /\ QuarterStart <= QuarterEnd
      /\ year' \in Nat /\ quarter' \in 1..4 /\ QuarterStart' = QuarterEnd + 1
    BY QuartersAdjoin DEF NextQuarter, WalkInv, WalkTypeOK
<1>2. /\ UNCHANGED <<client, start, end, posted, names, visited, fetched>>
      /\ phase = "days" /\ phase' = "quarters" /\ names = {}
    BY DEF NextQuarter, Advance
<1>3. WalkTypeOK'
    BY <1>1, <1>2 DEF WalkInv, WalkTypeOK
<1>4. BetweenInv'
    <2>1. \A d \in Wanted : d < QuarterEnd + 1 => d \in fetched
        BY <1>1, <1>2 DEF WalkInv, WithinInv, Wanted, WalkTypeOK
    <2>2. \A i \in DOMAIN visited : visited[i] < QuarterEnd + 1
        BY <1>1, <1>2 DEF WalkInv, WithinInv, WalkTypeOK
    <2>3. QED
        BY <1>1, <1>2, <2>1, <2>2 DEF BetweenInv, Wanted
<1>5. ReadInv' /\ VisitedInOrder'
    BY <1>2 DEF WalkInv, ReadInv, VisitedInOrder, Wanted
<1>6. QED
    BY <1>2, <1>3, <1>4, <1>5 DEF WalkInv, AnswerInv, WithinInv, NothingMissed

LEMMA FinishKeepsInv == WalkInv /\ Finish => WalkInv'
<1> SUFFICES ASSUME WalkInv, Finish PROVE WalkInv'
    OBVIOUS
<1>1. end < QuarterStart /\ QuarterStart \in Nat
    BY PastTheEnd, QuartersAdjoin DEF Finish, WalkInv, WalkTypeOK
<1>2. Wanted = fetched
    <2>1. \A d \in Wanted : d < QuarterStart
        BY <1>1 DEF WalkInv, WalkTypeOK, Wanted
    <2>2. QED
        BY <2>1 DEF WalkInv, BetweenInv, ReadInv, Finish
<1>3. QED
    BY <1>2 DEF Finish, WalkInv, WalkTypeOK, ReadInv, AnswerInv, BetweenInv, WithinInv,
       VisitedInOrder, NothingMissed, Wanted

LEMMA WalkStepKeepsInv == WalkInv /\ ClientInv /\ [Next]_vars => WalkInv'
<1> SUFFICES ASSUME WalkInv, ClientInv, [Next]_vars PROVE WalkInv'
    OBVIOUS
<1>1. CASE StartWalk \/ WalkStep
    BY <1>1, StartWalkKeepsInv, SkipQuarterKeepsInv, ListQuarterKeepsInv, ListedKeepsInv,
       VisitDayKeepsInv, FetchedKeepsInv, NextQuarterKeepsInv, FinishKeepsInv DEF WalkStep, ClientInv
<1>2. CASE ~(StartWalk \/ WalkStep)
    <2>1. /\ UNCHANGED walk
          /\ \/ \E c \in Callers : CallStep(c) /\ Honest
             \/ \E c \in Callers \ {Walker} : Call(c)
             \/ Tick
             \/ UNCHANGED client
        BY <1>2 DEF Next, ClientStep, OtherCall, vars, walk, client
    <2>2. QED
        BY <2>1, AnswersAreHonest, OthersKeepWalkInv DEF ClientInv
<1>3. QED
    BY <1>1, <1>2

LEMMA WalkInvHolds == Spec => []WalkInv
<1>1. QED
    BY WalkInitInv, WalkStepKeepsInv, WalkUsesClient, ClientInvHolds, PTL DEF Spec

----------------------------------------------------------------------------

\* A run visits the days in order and none twice, over any quarters and years and
\* whichever listings fail (iter_daily_index_urls).
THEOREM DaysAreInOrder == Spec => []VisitedInOrder
<1>1. WalkInv => VisitedInOrder
    BY DEF WalkInv
<1>2. QED
    BY <1>1, WalkInvHolds, PTL

\* A run that comes to its end has read the index of every day of its window that
\* SEC has posted (iter_daily_index_urls and its fallback).
THEOREM NoDayIsMissed == Spec => []NothingMissed
<1>1. WalkInv => NothingMissed
    BY DEF WalkInv
<1>2. QED
    BY <1>1, WalkInvHolds, PTL
=============================================================================
