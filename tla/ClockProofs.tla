----------------------------- MODULE ClockProofs -----------------------------
(* For every width of a word, length of a second, set of deadlines and set *)
(* back of the host clock smaller than a word: the timer counts what it is *)
(* handed, carries included; a timer trap is due; a sleep ends in time.    *)
EXTENDS Clock, TLAPS

\* What is assumed of the constants, as the facts the steps cite.
LEMMA Constants ==
  /\ Word \in Nat /\ Word >= 2
  /\ Second \in Nat /\ Second > 0
  /\ Horizon \in Nat /\ Horizon + Word < Word * Word
  /\ \A d \in SetBacks : d \in Nat /\ 1 <= d /\ d < Word
  /\ \A t \in Deadlines : t \in Nat /\ t < Word * Word
  BY ClockAssumption

\* There is room for two words in a pair of words.
LEMMA Squares == Word * Word \in Nat /\ Word * Word > Word /\ 0 \in 0 .. Word * Word - 1
<1>1. Word * Word >= Word * 2
  BY Constants
<1> QED BY <1>1, Constants

\* Division with rest, for a positive divisor.
LEMMA DivMod ==
  ASSUME NEW a \in Int, NEW w \in Nat, w > 0
  PROVE  /\ a \div w \in Int /\ a % w \in 0 .. w - 1
         /\ a = w * (a \div w) + (a % w)
  OBVIOUS

\* Quotient and rest are the only ones.
LEMMA DivModUnique ==
  ASSUME NEW w \in Nat, w > 0, NEW q \in Int, NEW r \in 0 .. w - 1
  PROVE  (w * q + r) % w = r /\ (w * q + r) \div w = q
  OBVIOUS

\* Numbers that differ by a multiple of a word have the same low word.
LEMMA SameLowWord ==
  ASSUME NEW a \in Int, NEW k \in Int
  PROVE  (a + Word * k) % Word = a % Word
<1>1. a = Word * (a \div Word) + (a % Word) /\ a \div Word \in Int /\ a % Word \in 0 .. Word - 1
  BY DivMod, Constants
<1>2. a + Word * k = Word * (a \div Word + k) + (a % Word)
  BY <1>1, Constants
<1>3. (Word * (a \div Word + k) + (a % Word)) % Word = a % Word
  <2> DEFINE q == a \div Word + k
  <2>1. q \in Int
    BY <1>1
  <2> HIDE DEF q
  <2>2. (Word * q + (a % Word)) % Word = a % Word
    BY <1>1, <2>1, DivModUnique, Constants
  <2> QED BY <2>2 DEF q
<1> QED BY <1>2, <1>3

\* A number of two words is the pair of its words.
LEMMA PairOfWords ==
  ASSUME NEW t \in Nat, t < Word * Word
  PROVE  /\ t % Word \in 0 .. Word - 1 /\ t \div Word \in 0 .. Word - 1
         /\ Pair(t \div Word, t % Word) = t
<1>1. t = Word * (t \div Word) + (t % Word) /\ t \div Word \in Int /\ t % Word \in 0 .. Word - 1
  BY DivMod, Constants
<1>2. t \div Word >= 0 /\ t \div Word < Word
  BY <1>1, Constants
<1> QED BY <1>1, <1>2, Constants DEF Pair

\* A pair of words is a number of two words.
LEMMA PairBound ==
  ASSUME NEW h \in 0 .. Word - 1, NEW l \in 0 .. Word - 1
  PROVE  Pair(h, l) \in 0 .. Word * Word - 1 /\ Pair(h, l) % Word = l
<1>1. h * Word <= (Word - 1) * Word
  BY Constants
<1>2. Pair(h, l) \in 0 .. Word * Word - 1
  BY <1>1, Constants DEF Pair
<1>3. Pair(h, l) = Word * h + l
  BY Constants DEF Pair
<1> QED BY <1>2, <1>3, DivModUnique, Constants

\* The comparison of the code, word by word, is the one of the numbers.
LEMMA ExpiredIsLater ==
  ASSUME TypeOK, NEW tl \in 0 .. Word - 1, NEW th \in 0 .. Word - 1
  PROVE  Expired(tl, th) <=> Pair(th, tl) > Match /\ Match # 0
<1>1. timermatchh \in 0 .. Word - 1 /\ timermatchl \in 0 .. Word - 1
  BY DEF TypeOK
<1>2. Match # 0 <=> timermatchh # 0 \/ timermatchl # 0
  BY <1>1, Constants DEF Match, Pair
<1>3. CASE th > timermatchh
  <2>1. th * Word >= (timermatchh + 1) * Word
    BY <1>1, <1>3, Constants
  <2> QED BY <1>1, <1>2, <1>3, <2>1, Constants DEF Expired, Match, Pair
<1>4. CASE th = timermatchh
  BY <1>1, <1>2, <1>4, Constants DEF Expired, Match, Pair
<1>5. CASE th < timermatchh
  <2>1. (th + 1) * Word <= timermatchh * Word
    BY <1>1, <1>5, Constants
  <2> QED BY <1>1, <1>2, <1>5, <2>1, Constants DEF Expired, Match, Pair
<1> QED BY <1>1, <1>3, <1>4, <1>5

\* A sleep is a number of ticks and never longer than what remains.
LEMMA NapIsShort ==
  ASSUME NEW delta \in Nat
  PROVE  Nap(delta) \in Nat /\ Nap(delta) <= delta
<1>1. delta = Second * (delta \div Second) + (delta % Second)
      /\ delta \div Second \in Int /\ delta % Second \in 0 .. Second - 1
  BY DivMod, Constants
<1>2. delta \div Second >= 0
  BY <1>1, Constants
<1> QED BY <1>1, <1>2, Constants DEF Nap

\* What a Step adds is less than a word, and what the sample is moved by: the
\* last sample is then at the host clock, or ahead of it by whole words.
LEMMA ElapsedFacts ==
  ASSUME TypeOK, SampleNearClock
  PROVE  /\ Elapsed \in 0 .. Word - 1
         /\ \E k \in Int : lastTime + Elapsed = now + Word * k
         /\ lastTime + Elapsed <= now + Word
         /\ ~setBack => lastTime + Elapsed <= now
<1>1. now \in Nat /\ lastTime \in Nat
  BY Constants DEF TypeOK
<1> DEFINE gap == now - lastTime
           q == gap \div Word
<1>2. gap = Word * q + Elapsed /\ q \in Int /\ Elapsed \in 0 .. Word - 1
  BY <1>1, DivMod, Constants DEF Elapsed
<1>3. lastTime + Elapsed = now + Word * (-q)
  BY <1>1, <1>2, Constants
<1> HIDE DEF q
<1>4. lastTime + Elapsed <= now + Word
  <2>1. -q < 2
    <3>1. SUFFICES ASSUME -q >= 2 PROVE FALSE
      BY <1>2
    <3>2. Word * (-q) >= Word * 2
      BY <1>2, <3>1, Constants
    <3> QED BY <1>1, <1>2, <1>3, <3>2, Constants DEF SampleNearClock
  <2>2. Word * (-q) <= Word
    BY <1>2, <2>1, Constants
  <2> QED BY <1>1, <1>2, <1>3, <2>2, Constants
<1>5. ASSUME ~setBack PROVE lastTime + Elapsed <= now
  <2>1. q >= 0
    BY <1>1, <1>2, <1>5, Constants DEF SampleNearClock
  <2>2. Word * (-q) <= 0
    BY <1>2, <2>1, Constants
  <2> QED BY <1>1, <1>2, <1>3, <2>2, Constants
<1> QED BY <1>2, <1>3, <1>4, <1>5

\* The two words are advanced as one number; nothing is lost at the carry.
LEMMA AdvanceFacts ==
  ASSUME TypeOK, NEW e \in 0 .. Word - 1, Advance(e), Timer + e < Word * Word
  PROVE  /\ timerl' \in 0 .. Word - 1 /\ timerh' \in 0 .. Word - 1
         /\ Timer' = Timer + e
<1>1. timerl \in 0 .. Word - 1 /\ timerh \in 0 .. Word - 1
  BY DEF TypeOK
<1>2. CASE timerl + e < Word
  <2>1. timerl' = timerl + e
    <3>1. timerl + e \in 0 .. Word - 1
      BY <1>1, <1>2, Constants
    <3>2. (Word * 0 + (timerl + e)) % Word = timerl + e
      BY <3>1, DivModUnique, Constants
    <3> QED BY <1>1, <3>2, Constants DEF Advance
  <2>2. timerh' = timerh
    BY <1>1, <2>1, Constants DEF Advance
  <2> QED BY <1>1, <1>2, <2>1, <2>2, Constants DEF Timer, Pair
<1>3. CASE timerl + e >= Word
  <2>1. timerl' = timerl + e - Word
    <3>1. timerl + e - Word \in 0 .. Word - 1
      BY <1>1, <1>3, Constants
    <3>2. (Word * 1 + (timerl + e - Word)) % Word = timerl + e - Word
      BY <3>1, DivModUnique, Constants
    <3> QED BY <1>1, <3>2, Constants DEF Advance
  <2>2. timerh + 1 < Word
    <3>1. SUFFICES ASSUME timerh + 1 >= Word PROVE FALSE
      BY <1>1, Constants
    <3>2. timerh * Word + Word >= Word * Word
      BY <1>1, <3>1, Constants
    <3> QED BY <1>1, <1>3, <3>2, Constants DEF Timer, Pair
  <2>3. timerh' = timerh + 1
    <3>1. (Word * 0 + (timerh + 1)) % Word = timerh + 1
      BY <1>1, <2>2, DivModUnique, Constants
    <3> QED BY <1>1, <2>1, <3>1, Constants DEF Advance
  <2> QED BY <1>1, <1>3, <2>1, <2>2, <2>3, Constants DEF Timer, Pair
<1> QED BY <1>1, <1>2, <1>3, Constants

\* A sample keeps the timer equal to what was handed out, and its low word
\* equal to that of the host clock.
LEMMA SampleFacts ==
  ASSUME IInv, Sample
  PROVE  /\ lastTime' \in 0 .. Horizon + Word
         /\ timerl' \in 0 .. Word - 1 /\ timerh' \in 0 .. Word - 1
         /\ TimerCountsSamples' /\ SampleNearClock'
         /\ timerl' = now % Word
         /\ Match' = Match
<1> USE DEF IInv
<1>1. now \in Nat /\ lastTime \in Nat /\ now <= Horizon
  BY Constants DEF TypeOK
<1>2. lastTime' = lastTime + Elapsed /\ Advance(Elapsed) /\ now' = now /\ setBack' = setBack
  BY DEF Sample
<1>3. Elapsed \in 0 .. Word - 1 /\ lastTime + Elapsed <= now + Word
  BY ElapsedFacts
<1>4. Timer + Elapsed < Word * Word
  BY <1>1, <1>3, Constants DEF TimerCountsSamples
<1>5. /\ timerl' \in 0 .. Word - 1 /\ timerh' \in 0 .. Word - 1
      /\ Timer' = Timer + Elapsed
  BY <1>2, <1>3, <1>4, AdvanceFacts
<1>6. lastTime' \in 0 .. Horizon + Word
  BY <1>1, <1>2, <1>3, Constants
<1>7. SampleNearClock' /\ TimerCountsSamples'
  BY <1>2, <1>5, ElapsedFacts DEF SampleNearClock, TimerCountsSamples
<1>8. timerl' = now % Word
  <2>1. PICK k \in Int : lastTime' = now + Word * k
    BY <1>2, ElapsedFacts
  <2>2. timerl' = lastTime' % Word
    BY <1>5, <1>7, PairBound DEF TimerCountsSamples, Timer
  <2> QED BY <1>1, <2>1, <2>2, SameLowWord
<1>9. Match' = Match
  BY DEF Sample, Match, Pair
<1> QED BY <1>5, <1>6, <1>7, <1>8, <1>9

\* A Step that returns because the hart waits leaves a sleep within the
\* deadline, if that is not over.
LEMMA ReturnWaitingFacts ==
  ASSUME TypeOK, NEW tl \in 0 .. Word - 1, NEW th \in 0 .. Word - 1,
         ReturnWaiting(tl, th)
  PROVE  /\ nap' \in 0 .. Word * Word - 1
         /\ at' \in {"between", "asleep"}
         /\ at' = "asleep" /\ ~Expired(tl, th) /\ Match # 0 => Pair(th, tl) + nap' <= Match
<1>1. Pair(th, tl) \in 0 .. Word * Word - 1 /\ Match \in 0 .. Word * Word - 1
  BY PairBound DEF TypeOK, Match
<1> DEFINE rest == Remaining(tl, th)
           all == Word * Word
<1>2. all \in Nat /\ all > 0
  BY Constants
<1>3. rest \in 0 .. all - 1
  BY <1>1, <1>2, DivMod DEF Remaining
<1>4. CASE ~doSleep
  BY <1>4 DEF ReturnWaiting, TypeOK
<1>5. CASE doSleep
  <2>1. at' = "asleep" /\ nap' = Nap(rest)
    BY <1>5 DEF ReturnWaiting
  <2>2. nap' \in Nat /\ nap' <= rest
    BY <1>2, <1>3, <2>1, NapIsShort
  <2>3. ASSUME ~Expired(tl, th), Match # 0 PROVE Pair(th, tl) + nap' <= Match
    <3>1. Match - Pair(th, tl) \in 0 .. all - 1
      <4> HIDE DEF all
      <4>1. Pair(th, tl) \in 0 .. all - 1 /\ Match \in 0 .. all - 1
        BY <1>1 DEF all
      <4>2. ~(Pair(th, tl) > Match)
        BY <2>3, ExpiredIsLater
      <4> QED BY <1>2, <4>1, <4>2
    <3>2. (all * 0 + (Match - Pair(th, tl))) % all = Match - Pair(th, tl)
      BY <1>2, <3>1, DivModUnique
    <3>3. rest = Match - Pair(th, tl)
      BY <1>1, <1>2, <3>1, <3>2 DEF Remaining
    <3> QED BY <1>1, <2>2, <3>3
  <2> QED BY <1>2, <1>3, <2>1, <2>2, <2>3
<1> QED BY <1>4, <1>5

\* The zeroed state satisfies the inductive invariant.
LEMMA InitIInv == Init => IInv
<1> SUFFICES ASSUME Init PROVE IInv
  OBVIOUS
<1>1. Timer = 0 /\ Match = 0
  BY Constants DEF Init, Timer, Match, Pair
<1>2. TypeOK
  <2>1. /\ nap \in 0 .. Word * Word - 1
        /\ now \in 0 .. Horizon /\ lastTime \in 0 .. Horizon + Word
    BY Constants, Squares DEF Init
  <2>2. /\ timerl \in 0 .. Word - 1 /\ timerh \in 0 .. Word - 1
        /\ timermatchl \in 0 .. Word - 1 /\ timermatchh \in 0 .. Word - 1
    BY Constants DEF Init
  <2> QED BY <2>1, <2>2 DEF Init, TypeOK
<1>3. TimerCountsSamples /\ SampleNearClock /\ MatchIsTarget /\ SleepsWithinDeadline
  BY <1>1, Constants
  DEF Init, TimerCountsSamples, SampleNearClock, MatchIsTarget, SleepsWithinDeadline
<1> QED BY <1>2, <1>3 DEF IInv

\* The begin of a Step keeps the inductive invariant.
LEMMA StepBeginIInv ==
  ASSUME IInv, StepBegin
  PROVE  IInv'
<1> USE DEF IInv
<1>1. Sample /\ mtip' = Expired(timerl', timerh') /\ wfi' = (wfi /\ ~mtip')
  BY DEF StepBegin
<1>2. /\ lastTime' \in 0 .. Horizon + Word
      /\ timerl' \in 0 .. Word - 1 /\ timerh' \in 0 .. Word - 1
      /\ TimerCountsSamples' /\ SampleNearClock' /\ Match' = Match
  BY <1>1, SampleFacts
<1>3. mtip' \in BOOLEAN /\ wfi' \in BOOLEAN
  BY <1>1 DEF Expired, TypeOK
<1>4. mie' \in BOOLEAN /\ (mie' => mie)
  BY DEF StepBegin, TypeOK
<1>5. /\ nap' \in 0 .. Word * Word - 1
      /\ at' \in {"between", "run", "asleep"}
      /\ SleepsWithinDeadline'
  <2>1. CASE wfi'
    <3>1. ReturnWaiting(timerl', timerh')
      BY <2>1 DEF StepBegin
    <3>2. ~Expired(timerl', timerh')
      BY <1>1, <2>1
    <3>3. Timer' = Pair(timerh', timerl')
      BY DEF Timer, Pair
    <3> QED BY <1>2, <3>1, <3>2, <3>3, ReturnWaitingFacts DEF SleepsWithinDeadline
  <2>2. CASE ~wfi'
    BY <2>2 DEF StepBegin, SleepsWithinDeadline, TypeOK
  <2> QED BY <2>1, <2>2
<1>6. TypeOK'
  BY <1>1, <1>2, <1>3, <1>4, <1>5 DEF Sample, TypeOK, guest
<1>7. MatchIsTarget'
  BY <1>1, <1>2, <1>4 DEF Sample, MatchIsTarget, guest, TypeOK
<1> QED BY <1>2, <1>5, <1>6, <1>7

\* The guest's stores to the match register keep the inductive invariant: the
\* two halves make up the deadline.
LEMMA StoresIInv ==
  ASSUME IInv, StoreMatchHigh \/ \E t \in Deadlines : StoreMatchLow(t)
  PROVE  IInv'
<1> USE DEF IInv
<1>1. ASSUME NEW t \in Deadlines, StoreMatchLow(t) PROVE IInv'
  <2>1. t % Word \in 0 .. Word - 1
    BY PairOfWords, Constants
  <2>2. TypeOK'
    BY <1>1, <2>1 DEF StoreMatchLow, TypeOK
  <2> QED
    BY <1>1, <2>2
    DEF StoreMatchLow, TimerCountsSamples, SampleNearClock, MatchIsTarget,
        SleepsWithinDeadline, Timer, Pair
<1>2. CASE StoreMatchHigh
  <2>1. target \in Nat /\ target < Word * Word
    BY Constants DEF TypeOK
  <2>2. /\ target \div Word \in 0 .. Word - 1
        /\ Pair(target \div Word, target % Word) = target
    BY <2>1, PairOfWords
  <2>3. TypeOK'
    BY <1>2, <2>2 DEF StoreMatchHigh, TypeOK
  <2>4. MatchIsTarget'
    <3>1. timermatchl = target % Word
      BY <1>2 DEF StoreMatchHigh, MatchIsTarget
    <3>2. Match' = Pair(target \div Word, target % Word)
      BY <1>2, <3>1 DEF StoreMatchHigh, Match, Pair
    <3> QED BY <1>2, <2>2, <3>2 DEF StoreMatchHigh, MatchIsTarget
  <2> QED
    BY <1>2, <2>3, <2>4
    DEF StoreMatchHigh, TimerCountsSamples, SampleNearClock, SleepsWithinDeadline,
        Timer, Pair
<1> QED BY <1>1, <1>2

\* Every step keeps the inductive invariant.
LEMMA NextIInv == IInv /\ [Next]_vars => IInv'
<1> SUFFICES ASSUME IInv, [Next]_vars PROVE IInv'
  OBVIOUS
<1> USE DEF IInv
<1> DEFINE Parts == TimerCountsSamples /\ SampleNearClock /\ MatchIsTarget /\ SleepsWithinDeadline
<1>1. CASE Tick
  <2>1. /\ now' \in 0 .. Horizon /\ now' = now + 1
        /\ nap' \in 0 .. Word * Word - 1 /\ nap' <= nap
    BY <1>1, Constants DEF Tick, TypeOK
  <2>2. TypeOK'
    BY <1>1, <2>1 DEF Tick, TypeOK, words, guest
  <2>3. Timer' = Timer /\ Match' = Match /\ Timer \in Int /\ Match \in Int
    BY <1>1, PairBound, Constants DEF Tick, words, Timer, Match, Pair, TypeOK
  <2>4. Parts'
    BY <1>1, <2>1, <2>3, Constants
    DEF Tick, words, guest, TimerCountsSamples, SampleNearClock, MatchIsTarget,
        SleepsWithinDeadline, TypeOK
  <2> QED BY <2>2, <2>4
<1>2. ASSUME NEW d \in SetBacks, HostClockSet(d) PROVE IInv'
  <2>1. now' \in 0 .. Horizon /\ now' = now - d /\ d < Word /\ setBack'
    BY <1>2, Constants DEF HostClockSet, TypeOK
  <2>2. TypeOK'
    BY <1>2, <2>1 DEF HostClockSet, TypeOK, words, guest
  <2>3. lastTime <= now
    BY <1>2 DEF HostClockSet, SampleNearClock
  <2>4. SampleNearClock'
    BY <1>2, <2>1, <2>3, Constants DEF HostClockSet, SampleNearClock, TypeOK
  <2> QED
    BY <1>2, <2>2, <2>4
    DEF HostClockSet, words, guest, TimerCountsSamples, MatchIsTarget,
        SleepsWithinDeadline, Timer, Match, Pair
<1>3. CASE StepBegin
  BY <1>3, StepBeginIInv
<1>4. CASE StepEnd
  <2>1. TypeOK'
    BY <1>4 DEF StepEnd, TypeOK, words, guest
  <2> QED
    BY <1>4, <2>1
    DEF StepEnd, words, guest, TimerCountsSamples, SampleNearClock, MatchIsTarget,
        SleepsWithinDeadline, Timer, Match, Pair
<1>5. CASE StoreMatchHigh \/ \E t \in Deadlines : StoreMatchLow(t)
  BY <1>5, StoresIInv
<1>6. ASSUME NEW on \in BOOLEAN, SetMie(on) PROVE IInv'
  <2>1. TypeOK'
    BY <1>6 DEF SetMie, TypeOK, words, guest
  <2> QED
    BY <1>6, <2>1
    DEF SetMie, words, guest, TimerCountsSamples, SampleNearClock, MatchIsTarget,
        SleepsWithinDeadline, Timer, Match, Pair
<1>7. CASE Wfi
  <2>1. timerl \in 0 .. Word - 1 /\ timerh \in 0 .. Word - 1
    BY DEF TypeOK
  <2>2. /\ nap' \in 0 .. Word * Word - 1 /\ at' \in {"between", "asleep"}
        /\ at' = "asleep" /\ ~Expired(timerl, timerh) /\ Match # 0 => Timer + nap' <= Match
    BY <1>7, <2>1, ReturnWaitingFacts DEF Wfi, Timer
  <2>3. waitedDue' \in BOOLEAN
    BY <1>7 DEF Wfi, Expired
  <2>4. TypeOK'
    BY <1>7, <2>2, <2>3 DEF Wfi, TypeOK, words, guest
  <2>5. Timer' = Timer /\ Match' = Match
    BY <1>7 DEF Wfi, words, Timer, Match, Pair
  <2>6. SleepsWithinDeadline'
    BY <1>7, <2>2, <2>5 DEF Wfi, SleepsWithinDeadline
  <2> QED
    BY <1>7, <2>4, <2>5, <2>6
    DEF Wfi, words, guest, TimerCountsSamples, SampleNearClock, MatchIsTarget
<1>8. CASE Timeout \/ Readable \/ DeviceRaise
  <2>0. nap' \in 0 .. Word * Word - 1
    BY <1>8, Squares DEF Timeout, Readable, DeviceRaise, TypeOK
  <2>1. TypeOK'
    BY <1>8, <2>0 DEF Timeout, Readable, DeviceRaise, TypeOK, words, guest
  <2>2. Timer' = Timer /\ Match' = Match
    BY <1>8 DEF Timeout, Readable, DeviceRaise, words, Timer, Match, Pair
  <2> QED
    BY <1>8, <2>1, <2>2
    DEF Timeout, Readable, DeviceRaise, words, guest, TimerCountsSamples,
        SampleNearClock, MatchIsTarget, SleepsWithinDeadline
<1>9. CASE UNCHANGED vars
  BY <1>9
  DEF vars, words, guest, TypeOK, TimerCountsSamples, SampleNearClock, MatchIsTarget,
      SleepsWithinDeadline, Timer, Match, Pair
<1> QED BY <1>1, <1>2, <1>3, <1>4, <1>5, <1>6, <1>7, <1>8, <1>9 DEF Next

\* The inductive invariant holds in every reachable state.
THEOREM SpecIInv == Spec => []IInv
  BY InitIInv, NextIInv, PTL DEF Spec

\* The two words of the timer count, carries included, exactly what the main
\* loop has handed out, for every width of a word and whatever the host clock
\* does (the 64-bit counter MiniRV32IMAStep keeps in two words).
THEOREM TimerCorrect == Spec => []TimerCountsSamples
<1>1. IInv => TimerCountsSamples
  BY DEF IInv
<1> QED BY SpecIInv, <1>1, PTL

\* No sleep of a waiting hart goes past its deadline (MiniSleep).
THEOREM SleepCorrect == Spec => []SleepsWithinDeadline
<1>1. IInv => SleepsWithinDeadline
  BY DEF IInv
<1> QED BY SpecIInv, <1>1, PTL

\* After every sample the low word of the timer is that of the host clock, a
\* clock set back and gaps of more than a word included.
THEOREM LowWordCorrect == Spec => LowWordExact
<1>1. IInv /\ [Next]_vars => [StepBegin => timerl' = now % Word]_vars
  <2> SUFFICES ASSUME IInv, StepBegin PROVE timerl' = now % Word
    OBVIOUS
  <2> QED BY SampleFacts DEF StepBegin
<1> QED BY SpecIInv, <1>1, PTL DEF Spec, LowWordExact

\* A timer trap is taken for a deadline the guest has stored whole and that has
\* passed, never for half of one or for the one before.
THEOREM TrapsCorrect == Spec => TrapsAreDue
<1>1. IInv /\ [Next]_vars =>
        [TimerTrap => ~half /\ target # 0 /\ Pair(timerh', timerl') > target]_vars
  <2> SUFFICES ASSUME IInv, TimerTrap
               PROVE  ~half /\ target # 0 /\ Pair(timerh', timerl') > target
    OBVIOUS
  <2>1. StepBegin /\ mie /\ ~mie' /\ Sample
    BY DEF TimerTrap, StepBegin
  <2>2. mtip' /\ mtip' = Expired(timerl', timerh')
    BY <2>1 DEF StepBegin
  <2>3. ~half /\ Match = target
    BY <2>1 DEF IInv, MatchIsTarget
  <2>4. timerl' \in 0 .. Word - 1 /\ timerh' \in 0 .. Word - 1
    BY <2>1, SampleFacts
  <2>5. Pair(timerh', timerl') > Match /\ Match # 0
    BY <2>2, <2>4, ExpiredIsLater DEF IInv
  <2> QED BY <2>3, <2>5
<1> QED BY SpecIInv, <1>1, PTL DEF Spec, TrapsAreDue
=============================================================================
