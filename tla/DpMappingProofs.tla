--------------------------- MODULE DpMappingProofs ---------------------------
(***************************************************************************)
(* Proofs about DpMapping for every range, level and value of a DP: both   *)
(* scales round to the nearest; and, with an obedient lamp, a level that   *)
(* was read back undisturbed is reported as near as its range allows, and  *)
(* exactly if it is one the lamp can report.                               *)
(***************************************************************************)
EXTENDS DpMapping, TLAPS

-----------------------------------------------------------------------------
(* Arithmetic.  The provers' arithmetic is linear: products are compared   *)
(* by the first two lemmas.                                                *)

\* A product of naturals is natural.
LEMMA ProductIsNatural ==
  ASSUME NEW a \in Nat, NEW b \in Nat
  PROVE  a * b \in Nat
  OBVIOUS

\* Multiplication by a natural number is monotonic.
LEMMA ProductMonotonic ==
  ASSUME NEW a \in Int, NEW b \in Int, NEW s \in Nat, a <= b
  PROVE  a * s <= b * s
<1>1. (b - a) * s \in Nat
  BY ProductIsNatural
<1>2. (b - a) * s = b * s - a * s
  OBVIOUS
<1>. QED
  BY <1>1, <1>2

\* Division by a positive number: the quotient and its remainder.
LEMMA Quotient ==
  ASSUME NEW n \in Nat, NEW d \in Nat \ {0}
  PROVE  /\ n \div d \in Nat
         /\ (n \div d) * d <= n
         /\ n < (n \div d) * d + d
  OBVIOUS

\* Python's round is at most a half away.
LEMMA RoundedIsNearest ==
  ASSUME NEW n \in Nat, NEW d \in Nat \ {0}
  PROVE  /\ Rounded(n, d) \in Nat
         /\ 2 * (n - Rounded(n, d) * d) <= d
         /\ -d <= 2 * (n - Rounded(n, d) * d)
<1>. DEFINE q == n \div d
<1>1. q \in Nat /\ q * d <= n /\ n < q * d + d
  BY Quotient
<1>2. Rounded(n, d) = IF 2 * (n - q * d) < d \/ (2 * (n - q * d) = d /\ q % 2 = 0)
                        THEN q ELSE q + 1
  BY DEF Rounded
<1>3. (q + 1) * d = q * d + d
  BY <1>1
<1>4. q * d \in Int
  BY <1>1
<1>. HIDE DEF q
<1>5. CASE Rounded(n, d) = q
  <2>1. 2 * (n - q * d) <= d
    BY <1>1, <1>2, <1>4, <1>5
  <2>. QED
    BY <2>1, <1>1, <1>4, <1>5
<1>6. CASE Rounded(n, d) = q + 1
  <2>1. ~(2 * (n - q * d) < d)
    BY <1>1, <1>2, <1>6
  <2>2. Rounded(n, d) * d = q * d + d
    BY <1>3, <1>6
  <2>. QED
    BY <2>1, <2>2, <1>1, <1>4, <1>6
<1>. QED
  BY <1>2, <1>5, <1>6

-----------------------------------------------------------------------------
(* The two scales.                                                         *)

\* What a range is made of.
LEMMA RangeParts ==
  ASSUME NEW r \in ValidRanges
  PROVE  /\ r.lo \in Nat
         /\ r.hi \in Nat
         /\ Span(r) \in Nat \ {0}
         /\ Span(r) = r.hi - r.lo
<1>1. MaxDp \in Nat
  BY DEF MaxDp
<1>2. r.lo \in Nat /\ r.hi \in Nat /\ r.lo < r.hi
  BY <1>1 DEF ValidRanges
<1>. QED
  BY <1>2 DEF Span

\* A level becomes the nearest value of the range.
LEMMA ToDpIsNearest ==
  ASSUME NEW r \in ValidRanges, NEW level \in Level
  PROVE  /\ ToDp(r, level) \in r.lo .. r.hi
         /\ 255 * (ToDp(r, level) - r.lo) <= level * Span(r) + 127
         /\ level * Span(r) <= 255 * (ToDp(r, level) - r.lo) + 127
<1>. DEFINE p == level * Span(r)
            q == (p + 127) \div 255
<1>1. r.lo \in Nat /\ r.hi \in Nat /\ Span(r) \in Nat /\ Span(r) = r.hi - r.lo
  BY RangeParts
<1>2. p \in Nat /\ p <= 255 * Span(r)
  <2>1. level \in Nat /\ level <= 255
    BY DEF Level
  <2>2. p \in Nat
    BY <1>1, <2>1, ProductIsNatural
  <2>3. p <= 255 * Span(r)
    BY <1>1, <2>1, ProductMonotonic
  <2>. QED
    BY <2>2, <2>3
<1>3. ToDp(r, level) = r.lo + q
  BY DEF ToDp
<1>. HIDE DEF p
<1>4. q \in Nat /\ q * 255 <= p + 127 /\ p + 127 < q * 255 + 255
  BY <1>2
<1>. HIDE DEF q
<1>5. q <= Span(r)
  BY <1>1, <1>2, <1>4
<1>6. 255 * q <= p + 127 /\ p <= 255 * q + 127
  BY <1>2, <1>4
<1>7. ToDp(r, level) - r.lo = q /\ ToDp(r, level) \in r.lo .. r.hi
  BY <1>1, <1>3, <1>4, <1>5
<1>. QED
  BY <1>6, <1>7 DEF p

\* A value of the range becomes the nearest level.
LEMMA FromDpIsNearest ==
  ASSUME NEW r \in ValidRanges, NEW dp \in r.lo .. r.hi
  PROVE  /\ FromDp(r, dp) \in Level
         /\ 2 * ((dp - r.lo) * 255 - FromDp(r, dp) * Span(r)) <= Span(r)
         /\ -Span(r) <= 2 * ((dp - r.lo) * 255 - FromDp(r, dp) * Span(r))
<1>. DEFINE n == (dp - r.lo) * 255
            s == Span(r)
            k == FromDp(r, dp)
<1>1. s \in Nat \ {0} /\ n \in Nat /\ n <= 255 * s
  BY RangeParts
<1>2. k = Rounded(n, s)
  BY DEF FromDp
<1>. HIDE DEF n, s, k
<1>3. k \in Nat /\ 2 * (n - k * s) <= s /\ -s <= 2 * (n - k * s)
  BY <1>1, <1>2, RoundedIsNearest
<1>4. k <= 255
  <2>. SUFFICES ASSUME 256 <= k PROVE FALSE
    BY <1>3
  <2>1. 256 * s <= k * s
    BY <1>1, <1>3, ProductMonotonic
  <2>2. k * s \in Nat
    BY <1>1, <1>3, ProductIsNatural
  <2>. QED
    BY <1>1, <1>3, <2>1, <2>2
<1>. QED
  BY <1>3, <1>4 DEF Level, n, s, k

\* A level that was written and read back is as near as Near says.
LEMMA ReadBackIsNear ==
  ASSUME NEW r \in ValidRanges, NEW level \in Level
  PROVE  Near(r, level, FromDp(r, ToDp(r, level)))
<1>. DEFINE dp == ToDp(r, level)
            k == FromDp(r, dp)
            s == Span(r)
<1>1. r.lo \in Nat /\ s \in Nat \ {0}
  BY RangeParts
<1>2. /\ dp \in r.lo .. r.hi
      /\ 255 * (dp - r.lo) <= level * s + 127
      /\ level * s <= 255 * (dp - r.lo) + 127
  BY ToDpIsNearest
<1>. HIDE DEF dp
<1>3. /\ k \in Level
      /\ 2 * ((dp - r.lo) * 255 - k * s) <= s
      /\ -s <= 2 * ((dp - r.lo) * 255 - k * s)
  BY <1>2, FromDpIsNearest
<1>4. dp \in Int
  BY <1>1, <1>2, RangeParts
<1>. HIDE DEF k, s
<1>5. level \in Int /\ k \in Int
  BY <1>3 DEF Level
<1>6. 2 * s * (level - k) = 2 * (level * s) - 2 * (k * s)
  BY <1>1, <1>5
<1>7. level * s \in Int /\ k * s \in Int
  BY <1>1, <1>5
<1>8. /\ 2 * s * (level - k) <= s + 254
      /\ -(s + 254) <= 2 * s * (level - k)
  BY <1>1, <1>2, <1>3, <1>4, <1>6, <1>7
<1>. QED
  BY <1>8 DEF Near, k, s, dp

\* In a range of 256 values or more every level comes back as it was.
LEMMA LongRangeIsExact ==
  ASSUME NEW r \in ValidRanges, NEW level \in Level, 255 <= Span(r)
  PROVE  FromDp(r, ToDp(r, level)) = level
<1>. DEFINE k == FromDp(r, ToDp(r, level))
            s == Span(r)
<1>1. s \in Nat \ {0} /\ 255 <= s
  BY RangeParts
<1>2. k \in Level
  BY ToDpIsNearest, FromDpIsNearest
<1>3. /\ 2 * s * (level - k) <= s + 254
      /\ -(s + 254) <= 2 * s * (level - k)
  BY ReadBackIsNear DEF Near
<1>. HIDE DEF k, s
<1>4. level \in Int /\ k \in Int /\ level - k \in Int
  BY <1>2 DEF Level
<1>5. 2 * s * (level - k) = 2 * ((level - k) * s) /\ (level - k) * s \in Int
  BY <1>1, <1>4
<1>6. CASE level > k
  <2>1. 1 * s <= (level - k) * s
    BY <1>1, <1>4, <1>6, ProductMonotonic
  <2>. QED
    BY <1>1, <1>3, <1>5, <2>1
<1>7. CASE level < k
  <2>1. (level - k) * s <= (-1) * s
    BY <1>1, <1>4, <1>7, ProductMonotonic
  <2>. QED
    BY <1>1, <1>3, <1>5, <2>1
<1>. QED
  BY <1>4, <1>6, <1>7 DEF k

\* In a shorter range every value comes back as it was.
LEMMA ShortRangeIsExact ==
  ASSUME NEW r \in ValidRanges, NEW dp \in r.lo .. r.hi, Span(r) < 255
  PROVE  ToDp(r, FromDp(r, dp)) = dp
<1>. DEFINE k == FromDp(r, dp)
            s == Span(r)
            back == ToDp(r, k)
<1>1. r.lo \in Nat /\ r.hi \in Nat /\ s \in Nat \ {0} /\ s < 255
  BY RangeParts
<1>2. /\ k \in Level
      /\ 2 * ((dp - r.lo) * 255 - k * s) <= s
      /\ -s <= 2 * ((dp - r.lo) * 255 - k * s)
  BY FromDpIsNearest
<1>. HIDE DEF k
<1>3. /\ back \in r.lo .. r.hi
      /\ 255 * (back - r.lo) <= k * s + 127
      /\ k * s <= 255 * (back - r.lo) + 127
  BY <1>2, ToDpIsNearest
<1>. HIDE DEF back, s
<1>4. k * s \in Int
  BY <1>1, <1>2 DEF Level
<1>5. dp \in Int /\ back \in Int
  BY <1>1, <1>3
<1>6. back = dp
  BY <1>1, <1>2, <1>3, <1>4, <1>5
<1>. QED
  BY <1>6 DEF back, k

\* In every range a reported level that is sent back is reported again.
LEMMA ReportedLevelIsStable ==
  ASSUME NEW r \in ValidRanges, NEW dp \in r.lo .. r.hi
  PROVE  FromDp(r, ToDp(r, FromDp(r, dp))) = FromDp(r, dp)
<1>1. CASE 255 <= Span(r)
  BY <1>1, FromDpIsNearest, LongRangeIsExact
<1>2. CASE Span(r) < 255
  BY <1>2, ShortRangeIsExact
<1>3. Span(r) \in Int
  BY RangeParts
<1>. QED
  BY <1>1, <1>2, <1>3

-----------------------------------------------------------------------------
(* The driver.                                                             *)

\* A readable set of values shows levels, each of a value in range.
LEMMA ShownAreLevels ==
  ASSUME range \in [Channels -> Ranges],
         NEW known \in [Channels -> Int \cup {None}], Readable(known)
  PROVE  Shown(known) \in [Channels -> Level \cup {None}]
<1>. SUFFICES ASSUME NEW c \in Channels
              PROVE  Shown(known)[c] \in Level \cup {None}
  BY DEF Shown
<1>1. range[c] \in ValidRanges
  BY RangesAssumption
<1>2. range[c].lo \in Nat /\ range[c].hi \in Nat
  BY <1>1, RangeParts
<1>3. CASE known[c] = None
  BY <1>3 DEF Shown
<1>4. CASE known[c] # None
  <2>1. known[c] \in Int /\ InRange(range[c], known[c])
    BY <1>4 DEF Readable
  <2>2. known[c] \in range[c].lo .. range[c].hi
    BY <2>1, <1>2 DEF InRange
  <2>3. FromDp(range[c], known[c]) \in Level
    BY <1>1, <2>2, FromDpIsNearest
  <2>. QED
    BY <1>4, <2>3 DEF Shown
<1>. QED
  BY <1>3, <1>4

\* Reading keeps the types of what the driver knows.
LEMMA ReadKeepsTypes ==
  ASSUME TypeOK,
         NEW known \in [Channels -> Int \cup {None}],
         NEW question \in [Channels -> Levels \cup {None}],
         Read(known, question)
  PROVE  /\ raw' \in [Channels -> Int \cup {None}]
         /\ reported' \in [Channels -> Level \cup {None}]
         /\ asked' \in [Channels -> Levels \cup {None}]
<1>1. CASE Readable(known)
  <2>1. raw' = known /\ reported' = Shown(known) /\ asked' = question
    BY <1>1 DEF Read
  <2>2. range \in [Channels -> Ranges]
    BY DEF TypeOK
  <2>. QED
    BY <1>1, <2>1, <2>2, ShownAreLevels
<1>2. CASE ~Readable(known)
  BY <1>2 DEF Read, TypeOK
<1>. QED
  BY <1>1, <1>2

\* What is sent to a lamp is a number.
LEMMA SentIsNumber ==
  ASSUME NEW r \in Ranges, NEW level \in Levels
  PROVE  ToDp(r, level) \in Int
<1>1. r \in ValidRanges /\ level \in Level
  BY RangesAssumption, ValuesAssumption
<1>2. r.lo \in Int /\ r.hi \in Int
  BY <1>1, RangeParts
<1>. QED
  BY <1>1, <1>2, ToDpIsNearest

\* A write leaves numbers in the lamp.
LEMMA WrittenIsNumber ==
  ASSUME TypeOK, NEW written \in SUBSET Channels,
         NEW levels \in [written -> Levels], NEW obeyed \in SUBSET written
  PROVE  Written(levels, obeyed) \in [Channels -> Int]
<1>. SUFFICES ASSUME NEW c \in Channels, c \in obeyed
              PROVE  ToDp(range[c], levels[c]) \in Int
  BY DEF Written, TypeOK
<1>. QED
  BY SentIsNumber DEF TypeOK

\* An answer has numbers and gaps.
LEMMA AnswerIsKnown ==
  ASSUME NEW lamp \in [Channels -> Int], NEW answered \in SUBSET Channels
  PROVE  Answer(lamp, answered) \in [Channels -> Int \cup {None}]
  BY DEF Answer

\* Polls, pushes, moves and both exchanges of a command keep the types.
LEMMA NextTypeOK == TypeOK /\ [Next]_vars => TypeOK'
<1>. SUFFICES ASSUME TypeOK, [Next]_vars PROVE TypeOK'
  OBVIOUS
<1>0. Nothing \in [Channels -> Levels \cup {None}]
  BY DEF Nothing
<1>1. ASSUME NEW answered \in SUBSET Channels, Poll(answered) PROVE TypeOK'
  <2>1. Answer(dps, answered) \in [Channels -> Int \cup {None}]
    BY AnswerIsKnown DEF TypeOK
  <2>2. /\ raw' \in [Channels -> Int \cup {None}]
        /\ reported' \in [Channels -> Level \cup {None}]
        /\ asked' \in [Channels -> Levels \cup {None}]
    BY <1>0, <1>1, <2>1, ReadKeepsTypes DEF Poll
  <2>. QED
    BY <1>1, <2>2 DEF Poll, TypeOK
<1>2. ASSUME NEW changed \in SUBSET Channels, Push(changed) PROVE TypeOK'
  <2>1. [c \in Channels |-> IF c \in changed THEN dps[c] ELSE raw[c]]
          \in [Channels -> Int \cup {None}]
    BY DEF TypeOK
  <2>2. /\ raw' \in [Channels -> Int \cup {None}]
        /\ reported' \in [Channels -> Level \cup {None}]
        /\ asked' \in [Channels -> Levels \cup {None}]
    BY <1>0, <1>2, <2>1, ReadKeepsTypes DEF Push
  <2>. QED
    BY <1>2, <2>2 DEF Push, TypeOK
<1>3. ASSUME NEW c \in Channels, NEW dp \in Elsewhere(c), Moved(c, dp)
      PROVE  TypeOK'
  <2>1. dp \in Int
    BY SentIsNumber, ValuesAssumption DEF Elsewhere, TypeOK
  <2>. QED
    BY <1>3, <2>1 DEF Moved, TypeOK
<1>4. ASSUME NEW written \in SUBSET Channels, NEW levels \in [written -> Levels],
             NEW obeyed \in SUBSET written, Write(levels, obeyed)
      PROVE  TypeOK'
  <2>1. dps' \in [Channels -> Int]
    BY <1>4, WrittenIsNumber DEF Write
  <2>2. writing' \in [Channels -> Levels \cup {None}]
    BY <1>4 DEF Write
  <2>. QED
    BY <1>4, <2>1, <2>2 DEF Write, TypeOK
<1>5. ASSUME NEW written \in SUBSET Channels, NEW levels \in [written -> Levels],
             NEW obeyed \in SUBSET written, WriteFails(levels, obeyed)
      PROVE  TypeOK'
  <2>1. dps' \in [Channels -> Int]
    BY <1>5, WrittenIsNumber DEF WriteFails
  <2>. QED
    BY <1>5, <2>1 DEF WriteFails, TypeOK
<1>6. ASSUME NEW answered \in SUBSET Channels, ReadBack(answered)
      PROVE  TypeOK'
  <2>1. Answer(dps, answered) \in [Channels -> Int \cup {None}]
    BY AnswerIsKnown DEF TypeOK
  <2>2. Untouched \in [Channels -> Levels \cup {None}]
    BY DEF Untouched, TypeOK
  <2>3. /\ raw' \in [Channels -> Int \cup {None}]
        /\ reported' \in [Channels -> Level \cup {None}]
        /\ asked' \in [Channels -> Levels \cup {None}]
    BY <1>6, <2>1, <2>2, ReadKeepsTypes DEF ReadBack
  <2>. QED
    BY <1>0, <1>6, <2>3 DEF ReadBack, TypeOK
<1>7. CASE ReadBackFails
  BY <1>0, <1>7 DEF ReadBackFails, TypeOK
<1>8. CASE UNCHANGED vars
  BY <1>8 DEF vars, TypeOK
<1>. QED
  BY <1>1, <1>2, <1>3, <1>4, <1>5, <1>6, <1>7, <1>8 DEF Next

\* Reported levels are levels, whatever numbers the lamp sends.
THEOREM TypeCorrect == Spec => []TypeOK
<1>1. Init => TypeOK
  BY ValuesAssumption DEF Init, TypeOK, Nothing
<1>. QED
  BY <1>1, NextTypeOK, PTL DEF Spec

-----------------------------------------------------------------------------
(* Lamps that do what they acknowledge.                                    *)

\* Reading without a question leaves nothing to compare.
LEMMA UnaskedRead ==
  ASSUME ReadThroughBothScales, NEW known, Read(known, Nothing),
         range' = range
  PROVE  ReadThroughBothScales'
<1>1. CASE Readable(known)
  BY <1>1 DEF Read, Nothing, ReadThroughBothScales
<1>2. CASE ~Readable(known)
  BY <1>2 DEF Read, ReadThroughBothScales
<1>. QED
  BY <1>1, <1>2

\* What is read back where the lamp was not moved is what was written.
LEMMA ReadBackOfWrite ==
  ASSUME ObedientInv, NEW answered \in SUBSET Channels, ReadBack(answered)
  PROVE  ReadThroughBothScales'
<1>1. range' = range /\ Read(Answer(dps, answered), Untouched)
  BY DEF ReadBack
<1>2. CASE Readable(Answer(dps, answered))
  <2>. SUFFICES ASSUME NEW c \in Channels, asked'[c] # None, reported'[c] # None
                PROVE  reported'[c] = FromDp(range[c], ToDp(range[c], asked'[c]))
    BY <1>1 DEF ReadThroughBothScales
  <2>1. asked' = Untouched /\ reported' = Shown(Answer(dps, answered))
    BY <1>1, <1>2 DEF Read
  <2>2. c \notin moved /\ asked'[c] = writing[c]
    BY <2>1 DEF Untouched
  <2>3. dps[c] = ToDp(range[c], writing[c])
    BY <2>2 DEF ObedientInv, LampObeyed
  <2>4. reported'[c] = FromDp(range[c], dps[c])
    BY <2>1 DEF Shown, Answer
  <2>. QED
    BY <2>2, <2>3, <2>4
<1>3. CASE ~Readable(Answer(dps, answered))
  BY <1>1, <1>3 DEF Read, ObedientInv, ReadThroughBothScales
<1>. QED
  BY <1>2, <1>3

\* Every step keeps account of where an obedient lamp is.
LEMMA NextObedient ==
  ASSUME Obedient
  PROVE  TypeOK /\ ObedientInv /\ [Next]_vars => ObedientInv'
<1>. SUFFICES ASSUME TypeOK, ObedientInv, [Next]_vars PROVE ObedientInv'
  OBVIOUS
<1>1. ASSUME NEW known, Read(known, Nothing), UNCHANGED <<range, dps, writing, moved>>
      PROVE  ObedientInv'
  BY <1>1, UnaskedRead DEF ObedientInv, LampObeyed
<1>2. ASSUME NEW answered \in SUBSET Channels, Poll(answered)
      PROVE  ObedientInv'
  BY <1>1, <1>2 DEF Poll
<1>3. ASSUME NEW changed \in SUBSET Channels, Push(changed)
      PROVE  ObedientInv'
  BY <1>1, <1>3 DEF Push
<1>4. ASSUME NEW c \in Channels, NEW dp \in Elsewhere(c), Moved(c, dp)
      PROVE  ObedientInv'
  <2>1. ReadThroughBothScales'
    BY <1>4 DEF Moved, ObedientInv, ReadThroughBothScales
  <2>2. CASE Idle
    BY <1>4, <2>1, <2>2
       DEF Moved, Idle, Nothing, ObedientInv, LampObeyed
  <2>3. CASE ~Idle
    BY <1>4, <2>1, <2>3 DEF Moved, ObedientInv, LampObeyed, TypeOK
  <2>. QED
    BY <2>2, <2>3
<1>5. ASSUME NEW written \in SUBSET Channels, NEW levels \in [written -> Levels],
             NEW obeyed \in SUBSET written, Write(levels, obeyed)
      PROVE  ObedientInv'
  <2>1. ReadThroughBothScales'
    BY <1>5 DEF Write, ObedientInv, ReadThroughBothScales
  <2>2. obeyed = written /\ dps' = Written(levels, written) /\ range' = range
    BY <1>5 DEF Write
  <2>3. writing' = [c \in Channels |->
                      IF c \in written THEN levels[c] ELSE None]
    BY <1>5 DEF Write
  <2>4. LampObeyed'
    BY <2>2, <2>3 DEF LampObeyed, Written
  <2>. QED
    BY <2>1, <2>4 DEF ObedientInv
<1>6. ASSUME NEW written \in SUBSET Channels, NEW levels \in [written -> Levels],
             NEW obeyed \in SUBSET written, WriteFails(levels, obeyed)
      PROVE  ObedientInv'
  BY <1>6 DEF WriteFails, Idle, Nothing, ObedientInv, LampObeyed,
              ReadThroughBothScales
<1>7. ASSUME NEW answered \in SUBSET Channels, ReadBack(answered)
      PROVE  ObedientInv'
  <2>1. ReadThroughBothScales'
    BY <1>7, ReadBackOfWrite
  <2>. QED
    BY <1>7, <2>1 DEF ReadBack, Nothing, ObedientInv, LampObeyed
<1>8. CASE ReadBackFails
  BY <1>8 DEF ReadBackFails, Nothing, ObedientInv, LampObeyed,
              ReadThroughBothScales
<1>9. CASE UNCHANGED vars
  BY <1>9 DEF vars, ObedientInv, LampObeyed, ReadThroughBothScales
<1>. QED
  BY <1>2, <1>3, <1>4, <1>5, <1>6, <1>7, <1>8, <1>9 DEF Next

\* An obedient lamp is accounted for in every reachable state.
LEMMA AlwaysObedient ==
  ASSUME Obedient
  PROVE  Spec => []ObedientInv
<1>1. Init => ObedientInv
  BY DEF Init, ObedientInv, LampObeyed, ReadThroughBothScales, Nothing
<1>2. TypeOK /\ ObedientInv /\ [Next]_vars => ObedientInv'
  BY NextObedient
<1>. QED
  BY <1>1, <1>2, TypeCorrect, PTL DEF Spec

\* What is read back after a write, undisturbed, is what was asked for, as
\* near as the range of the lamp allows.
THEOREM AppliedIsNear ==
  ASSUME Obedient
  PROVE  Spec => []AppliedIsReached
<1>1. TypeOK /\ ObedientInv => AppliedIsReached
  <2>. SUFFICES ASSUME TypeOK, ObedientInv, NEW c \in Channels,
                       asked[c] # None, reported[c] # None
                PROVE  Near(range[c], asked[c], reported[c])
    BY DEF AppliedIsReached
  <2>1. range[c] \in ValidRanges /\ asked[c] \in Level
    BY RangesAssumption, ValuesAssumption DEF TypeOK
  <2>2. reported[c] = FromDp(range[c], ToDp(range[c], asked[c]))
    BY DEF ObedientInv, ReadThroughBothScales
  <2>. QED
    BY <2>1, <2>2, ReadBackIsNear
<1>. QED
  BY <1>1, TypeCorrect, AlwaysObedient, PTL

\* A level that the lamp can report is reported again when it is sent back:
\* no lamp drifts.
THEOREM NoDrift ==
  ASSUME Obedient
  PROVE  Spec => []ReportedLevelsAreStable
<1>1. TypeOK /\ ObedientInv => ReportedLevelsAreStable
  <2>. SUFFICES ASSUME TypeOK, ObedientInv, NEW c \in Channels,
                       asked[c] # None, reported[c] # None,
                       Reportable(range[c], asked[c])
                PROVE  reported[c] = asked[c]
    BY DEF ReportedLevelsAreStable
  <2>1. range[c] \in ValidRanges
    BY RangesAssumption DEF TypeOK
  <2>2. reported[c] = FromDp(range[c], ToDp(range[c], asked[c]))
    BY DEF ObedientInv, ReadThroughBothScales
  <2>3. PICK dp \in range[c].lo .. range[c].hi : FromDp(range[c], dp) = asked[c]
    BY DEF Reportable
  <2>. QED
    BY <2>1, <2>2, <2>3, ReportedLevelIsStable
<1>. QED
  BY <1>1, TypeCorrect, AlwaysObedient, PTL
=============================================================================
