----------------------------- MODULE Algorithms -----------------------------
(* The program's pure computations, each checked against a reference definition.    *)
(* First the local tools that answer without the model: Booth multiplication,        *)
(* CRC-32, Euclid's greatest common divisor and quicksort (core/algorithm_tools.py), *)
(* each with the trace of intermediate states the reply quotes.  Then CronExpression *)
(* (shell/job_scheduler.py): the five fields of a cron expression and the next       *)
(* minute they name.  Its calendar is scaled down; every field keeps a range of its  *)
(* own, and months differ in length.                                                 *)
EXTENDS Integers, Sequences, FiniteSets, SequencesExt, FiniteSetsExt

CONSTANTS
    Numbers,     \* integers given to Booth's algorithm and to Euclid's
    MaxBits,     \* longest operand that Booth's algorithm takes (62 in the code)
    Bytes,       \* bytes of a text, each the set of its one bits (0 .. 7)
    MaxBytes,    \* longest text that CRC-32 takes (64 in the code)
    MaxList      \* length of the longest list given to quicksort

VARIABLES
    job_given,   \* the tool that was called and its operands
    answer       \* what it returned

ASSUME AlgorithmAssumption ==
    /\ Numbers \subseteq Int
    /\ Bytes \subseteq SUBSET (0 .. 7)
    /\ MaxBits \in Nat /\ MaxBytes \in Nat /\ MaxList \in Nat

algorithmVars == <<job_given, answer>>

NoAnswer == [kind |-> "none"]

Refused == [kind |-> "ValueError"]

Absolute(n) == IF n < 0 THEN -n ELSE n

\* The powers of two: 1 << n.
TwoTo[n \in Nat] == IF n = 0 THEN 1 ELSE 2 * TwoTo[n - 1]

\* int.bit_length.
BitLength(n) == CHOOSE k \in 0 .. n : n < TwoTo[k] /\ (k = 0 \/ TwoTo[k - 1] <= n)

-----------------------------------------------------------------------------
(* Booth multiplication.                                                           *)

ToTwosComplement(value, width) == value % TwoTo[width]

Signed(value, width) == IF value >= TwoTo[width - 1] THEN value - TwoTo[width] ELSE value

\* Mutant: one bit less than the operands and their negation need.
BoothWidthNarrow(multiplicand, multiplier) ==
    LET m == BitLength(Absolute(multiplicand)) IN LET n == BitLength(Absolute(multiplier)) IN
    IF m > n THEN m ELSE IF n > 0 THEN n ELSE 1

BoothWidth(multiplicand, multiplier) ==
    1 + CHOOSE w \in {1, BitLength(Absolute(multiplicand)), BitLength(Absolute(multiplier))} :
            /\ w >= 1
            /\ w >= BitLength(Absolute(multiplicand))
            /\ w >= BitLength(Absolute(multiplier))

\* One round on the registers A, Q and Q-1: add or subtract, then an arithmetic shift.
BoothRound(regs, multiplicand, width) ==
    LET m == ToTwosComplement(multiplicand, width)
        pair == <<regs.q % 2, regs.previous>>
        sum == CASE pair = <<1, 0>> -> (regs.a - m) % TwoTo[width]
                 [] pair = <<0, 1>> -> (regs.a + m) % TwoTo[width]
                 [] OTHER -> regs.a
        combined == sum * TwoTo[width + 1] + 2 * regs.q + regs.previous
        shifted == IF sum >= TwoTo[width - 1] THEN (combined - TwoTo[2 * width + 1]) \div 2
                   ELSE combined \div 2
    IN  [a |-> (shifted \div TwoTo[width + 1]) % TwoTo[width],
         q |-> (shifted \div 2) % TwoTo[width],
         previous |-> shifted % 2]

\* The registers after every round.
BoothRounds(multiplicand, multiplier) ==
    LET width == BoothWidth(multiplicand, multiplier)
        regs[i \in 0 .. width] ==
            IF i = 0
            THEN [a |-> 0, q |-> ToTwosComplement(multiplier, width), previous |-> 0]
            ELSE BoothRound(regs[i - 1], multiplicand, width)
    IN  regs

\* The signed powers of two that a run of ones recodes to, by the bit they stand for.
BoothTerms(value) ==
    LET magnitude == Absolute(value)
        sign == IF value < 0 THEN -1 ELSE 1
        bit(i) == IF i < 0 THEN 0 ELSE (magnitude \div TwoTo[i]) % 2
        coefficient(i) == sign * (bit(i - 1) - bit(i))
    IN  [i \in {k \in 0 .. BitLength(magnitude) : coefficient(k) # 0} |-> coefficient(i) * TwoTo[i]]

\* The code refuses an operand of more than MaxBits bits.
TooLong(operand) == BitLength(Absolute(operand)) > MaxBits

booth_multiply(multiplicand, multiplier) ==
    LET width == BoothWidth(multiplicand, multiplier)
        rounds == BoothRounds(multiplicand, multiplier)
        last == rounds[width]
    IN  IF TooLong(multiplicand) \/ TooLong(multiplier) THEN Refused
        ELSE [kind |-> "booth",
              partial_products |-> [k \in DOMAIN BoothTerms(multiplier) |->
                                       BoothTerms(multiplier)[k] * multiplicand],
              result |-> Signed(last.a * TwoTo[width] + last.q, 2 * width)]

-----------------------------------------------------------------------------
(* CRC-32.  A word is the set of its one bits.                                     *)

Xor(x, y) == (x \ y) \cup (y \ x)

ShiftRight(x) == {i - 1 : i \in x \ {0}}

Word == 0 .. 31

\* 0xEDB88320, the reflected polynomial.
Polynomial == {5, 8, 9, 15, 19, 20, 21, 23, 24, 26, 27, 29, 30, 31}

CrcBit(crc) == IF 0 \in crc THEN Xor(ShiftRight(crc), Polynomial) ELSE ShiftRight(crc)

CrcByte(crc, byte) ==
    LET bits[i \in 0 .. 8] == IF i = 0 THEN Xor(crc, byte) ELSE CrcBit(bits[i - 1])
    IN  bits[8]

\* A text of more than MaxBytes bytes is refused, never cut.
crc32_utf8(data) ==
    LET crc[i \in 0 .. Len(data)] == IF i = 0 THEN Word ELSE CrcByte(crc[i - 1], data[i])
    IN  IF Len(data) > MaxBytes THEN Refused
        ELSE [kind |-> "crc32", result |-> Xor(crc[Len(data)], Word)]

-----------------------------------------------------------------------------
(* Greatest common divisor and quicksort.                                          *)

\* The pair after each round of the loop; a round makes the second number smaller, so there
\* are at most as many as it says.
Remainders(left, right) ==
    LET pair[i \in 0 .. right] ==
            IF i = 0 THEN <<left, right>>
            ELSE LET a == pair[i - 1][1] IN LET b == pair[i - 1][2] IN
                 IF b = 0 THEN <<a, b>> ELSE <<b, a % b>>
    IN  pair

euclidean_gcd(left, right) ==
    [kind |-> "gcd",
     result |-> Remainders(Absolute(left), Absolute(right))[Absolute(right)][1]]

Swap(array, i, j) == [array EXCEPT ![i] = array[j], ![j] = array[i]]

\* The scan moves what is not greater than the pivot, the last element, to the front.
Partition(array, low, high) ==
    LET scan[i \in low .. high] ==
            IF i = low THEN [array |-> array, pivot_index |-> low]
            ELSE LET before == scan[i - 1] IN
                 IF before.array[i - 1] <= array[high]
                 THEN [array |-> Swap(before.array, before.pivot_index, i - 1),
                       pivot_index |-> before.pivot_index + 1]
                 ELSE before
    IN  [scan[high] EXCEPT !.array = Swap(@, scan[high].pivot_index, high)]

\* A call of sort on the range that is next: a range of one value is done, another is
\* partitioned, and its left part comes before its right one.
SortCall(sort) ==
    IF sort.ranges = <<>> THEN sort
    ELSE LET low == Head(sort.ranges)[1]
             high == Head(sort.ranges)[2]
             cut == Partition(sort.array, low, high)
         IN  IF low >= high THEN [sort EXCEPT !.ranges = Tail(@)]
             ELSE [array |-> cut.array, partitions |-> Append(sort.partitions, cut),
                   ranges |-> <<<<low, cut.pivot_index - 1>>, <<cut.pivot_index + 1, high>>>>
                                  \o Tail(sort.ranges)]

\* The calls; each partition makes two and gives a value its place.
SortCalls(values) ==
    LET sort[i \in 0 .. 2 * Len(values) + 1] ==
            IF i = 0 THEN [array |-> values, partitions |-> <<>>, ranges |-> <<<<1, Len(values)>>>>]
            ELSE SortCall(sort[i - 1])
    IN  sort

quicksort(values) ==
    LET sorted == SortCalls(values)[2 * Len(values) + 1]
    IN  [kind |-> "quicksort", partitions |-> sorted.partitions, result |-> sorted.array]

-----------------------------------------------------------------------------
AlgorithmJobs ==
    [tool : {"booth", "gcd"}, left : Numbers, right : Numbers]
        \cup [tool : {"crc32"}, data : SeqOf(Bytes, MaxBytes + 1)]
        \cup [tool : {"quicksort"}, values : SeqOf(1 .. MaxList, MaxList)]

AlgorithmInit == job_given \in AlgorithmJobs /\ answer = NoAnswer

Booth ==
    /\ job_given.tool = "booth"
    /\ answer' = booth_multiply(job_given.left, job_given.right)

Crc32 ==
    /\ job_given.tool = "crc32"
    /\ answer' = crc32_utf8(job_given.data)

Gcd ==
    /\ job_given.tool = "gcd"
    /\ answer' = euclidean_gcd(job_given.left, job_given.right)

Sort ==
    /\ job_given.tool = "quicksort"
    /\ answer' = quicksort(job_given.values)

AlgorithmNext ==
    /\ answer = NoAnswer
    /\ Booth \/ Crc32 \/ Gcd \/ Sort
    /\ UNCHANGED job_given

AlgorithmSpec == AlgorithmInit /\ [][AlgorithmNext]_algorithmVars

-----------------------------------------------------------------------------
(* The references.                                                                 *)

\* Long division over GF(2) by x^32 + 0x04C11DB7: stream[i] is the coefficient of the
\* power n + 31 - i, the first 32 of them complemented; bit 31 - k of the remainder is the
\* coefficient of x^k.
Divisor == {0, 1, 2, 4, 5, 7, 8, 10, 11, 12, 16, 22, 23, 26, 32}

CrcReference(data) ==
    LET n == 8 * Len(data)
        message == UNION {{n + 39 - (8 * j + i) : i \in data[j]} : j \in DOMAIN data}
        dividend == Xor(message, {n + k : k \in Word})
        rest[k \in 0 .. n] ==
            IF k = 0 THEN dividend
            ELSE LET top == n + 32 - k
                     before == rest[k - 1]
                 IN  IF top \in before THEN Xor(before, {d + top - 32 : d \in Divisor})
                     ELSE before
    IN  Word \ {31 - k : k \in rest[n]}

Divides(d, n) == n % d = 0

GcdReference(left, right) ==
    LET a == Absolute(left) IN LET b == Absolute(right) IN
    IF a = 0 \/ b = 0 THEN a + b
    ELSE CHOOSE d \in 1 .. a : /\ Divides(d, a) /\ Divides(d, b)
                               /\ \A e \in d + 1 .. a : ~(Divides(e, a) /\ Divides(e, b))

\* The sum of the terms for the bits up to the highest.
Total(terms, highest) ==
    LET sum[i \in 0 .. highest] ==
            (IF i = 0 THEN 0 ELSE sum[i - 1]) + (IF i \in DOMAIN terms THEN terms[i] ELSE 0)
    IN  sum[highest]

\* Booth's registers and the sum of its partial products are the product, and only an
\* operand that is too long is refused (booth_multiply).
BoothIsRight ==
    /\ answer.kind = "booth" =>
          /\ answer.result = job_given.left * job_given.right
          /\ Total(answer.partial_products, BitLength(Absolute(job_given.right)))
                = job_given.left * job_given.right
    /\ answer = Refused /\ job_given.tool = "booth" => TooLong(job_given.left) \/ TooLong(job_given.right)

\* What Euclid's rounds end with is the greatest common divisor (euclidean_gcd).
GcdIsRight ==
    answer.kind = "gcd" => answer.result = GcdReference(job_given.left, job_given.right)

\* The bitwise CRC is the remainder of the division, for the empty text and the longest one
\* too, and only a longer one is refused (crc32_utf8).
CrcIsRight ==
    /\ answer.kind = "crc32" => answer.result = CrcReference(job_given.data)
    /\ answer = Refused /\ job_given.tool = "crc32" => Len(job_given.data) > MaxBytes

\* Quicksort orders the values it was given, loses none and makes none, and each pivot is
\* in the place where the sorted list has it (quicksort.partition).
SortIsRight ==
    answer.kind = "quicksort" =>
        /\ \A i, j \in DOMAIN answer.result : i < j => answer.result[i] <= answer.result[j]
        /\ \A v \in 1 .. MaxList :
              Cardinality({i \in DOMAIN answer.result : answer.result[i] = v})
                  = Cardinality({i \in DOMAIN job_given.values : job_given.values[i] = v})
        /\ \A k \in DOMAIN answer.partitions :
              LET cut == answer.partitions[k]
              IN  cut.array[cut.pivot_index] = answer.result[cut.pivot_index]

\* Every local tool returns what its reference computes (core/algorithm_tools.py).
ToolsComputeRight == BoothIsRight /\ GcdIsRight /\ CrcIsRight /\ SortIsRight

AlgorithmTypeOK == answer.kind \in {"none", "ValueError", "booth", "crc32", "gcd", "quicksort"}

-----------------------------------------------------------------------------
(* Cron expressions.                                                               *)

CONSTANTS
    HourMinutes,   \* minutes of an hour (60)
    DayHours,      \* hours of a day (24)
    MonthDays,     \* the days of each month of the year
    WeekDays,      \* days of a week (7); as a weekday it is another name of 0
    FieldTexts,    \* what a field may say: sets of chunks [kind, from, to, step]
    Moments        \* the minutes from which the next run is asked for

ASSUME CronAssumption ==
    /\ {HourMinutes, DayHours, WeekDays} \subseteq Nat \ {0}
    /\ MonthDays \in Seq(Nat \ {0}) /\ MonthDays # <<>>
    /\ FieldTexts \subseteq SUBSET [kind : {"star", "value", "range"}, from : Nat, to : Nat, step : Nat]
    /\ Moments \subseteq Nat

VARIABLES
    expression,    \* the expression: the text of each field
    after,         \* after_ts, in minutes
    next_run       \* what next_after returned

cronVars == <<expression, after, next_run>>

NotAsked == -1

NoRun == -2        \* next_after raised ValueError

Fields == {"minute", "hour", "day", "month", "weekday"}

Months == DOMAIN MonthDays

\* The days of the first m months.
DaysBefore[m \in 0 .. Len(MonthDays)] == IF m = 0 THEN 0 ELSE DaysBefore[m - 1] + MonthDays[m]

YearDays == DaysBefore[Len(MonthDays)]

\* The days next_after looks ahead: a year and a day.
HorizonDays == YearDays + 1

Lowest(field) == IF field \in {"day", "month"} THEN 1 ELSE 0

Highest(field) ==
    CASE field = "minute" -> HourMinutes - 1
      [] field = "hour" -> DayHours - 1
      [] field = "day" -> Max({MonthDays[m] : m \in Months})
      [] field = "month" -> Len(MonthDays)
      [] field = "weekday" -> WeekDays - 1

-----------------------------------------------------------------------------
(* Parsing.                                                                        *)

\* The end of the week is Sunday too.
ParseValue(n, field) == IF field = "weekday" /\ n = WeekDays THEN 0 ELSE n

InField(n, field) == n \in Lowest(field) .. Highest(field)

\* Rejected: a step of zero, a value outside its field, a range that runs backwards.
ChunkIsValid(chunk, field) ==
    /\ chunk.step > 0
    /\ chunk.kind # "star" => InField(ParseValue(chunk.from, field), field)
    /\ chunk.kind = "range" =>
          /\ InField(ParseValue(chunk.to, field), field)
          /\ ParseValue(chunk.from, field) <= ParseValue(chunk.to, field)

\* _parse_chunk; the step of a single value is ignored.
ParseChunk(chunk, field) ==
    LET start == IF chunk.kind = "star" THEN Lowest(field) ELSE ParseValue(chunk.from, field)
        end == IF chunk.kind = "star" THEN Highest(field) ELSE ParseValue(chunk.to, field)
    IN  IF chunk.kind = "value" THEN {start}
        ELSE {n \in start .. end : (n - start) % chunk.step = 0}

ParseField(field) == UNION {ParseChunk(chunk, field) : chunk \in expression[field]}

-----------------------------------------------------------------------------
(* The scan.                                                                       *)

DayOf(t) == t \div (HourMinutes * DayHours)

YearDay(t) == DayOf(t) % YearDays

MonthOf(t) == CHOOSE m \in Months : YearDay(t) \in DaysBefore[m - 1] .. DaysBefore[m] - 1

\* The attributes of a datetime.
ValueOf(t, field) ==
    CASE field = "minute" -> t % HourMinutes
      [] field = "hour" -> (t \div HourMinutes) % DayHours
      [] field = "day" -> YearDay(t) - DaysBefore[MonthOf(t) - 1] + 1
      [] field = "month" -> MonthOf(t)
      [] field = "weekday" -> DayOf(t) % WeekDays

\* Every field has to match, the day of the month and the weekday both.
Matches(t) == \A field \in Fields : ValueOf(t, field) \in ParseField(field)

\* The first minute that matches, up to the deadline.
next_after ==
    LET candidate == after + 1
        runs == {t \in candidate .. candidate + HorizonDays * DayHours * HourMinutes : Matches(t)}
    IN  IF runs = {} THEN NoRun ELSE CHOOSE t \in runs : \A u \in runs : t <= u

CronInit ==
    /\ expression \in {e \in [Fields -> FieldTexts] :
                          \A field \in Fields : \A chunk \in e[field] : ChunkIsValid(chunk, field)}
    /\ after \in Moments
    /\ next_run = NotAsked

NextAfter ==
    /\ next_run = NotAsked
    /\ next_run' = next_after
    /\ UNCHANGED <<expression, after>>

CronNext == NextAfter

CronSpec == CronInit /\ [][CronNext]_cronVars

CronTypeOK == next_run \in Nat \cup {NotAsked, NoRun}

-----------------------------------------------------------------------------
(* The reference: the dates that the fields spell out, in no order.                *)

\* The values a chunk lists, counted from its first one.
Listed(chunk, field) ==
    LET last == IF chunk.kind = "star" THEN Highest(field) ELSE chunk.to
        first_value == IF chunk.kind = "star" THEN Lowest(field) ELSE chunk.from
    IN  IF chunk.kind = "value" THEN {chunk.from}
        ELSE {first_value + k * chunk.step : k \in 0 .. last} \cap (0 .. last)

Named(field) == UNION {Listed(chunk, field) : chunk \in expression[field]}

MinuteOf(day, hour, minute) == HourMinutes * (DayHours * day + hour) + minute

NamedDay(d) == \E n \in Named("weekday") : (d - n) % WeekDays = 0

NamedRuns ==
    LET years == 0 .. DayOf(after) \div YearDays + 3
        dates == {date \in years \X (Months \cap Named("month")) \X Named("day") :
                     date[3] <= MonthDays[date[2]]}
        days == {date[1] * YearDays + DaysBefore[date[2] - 1] + date[3] - 1 : date \in dates}
    IN  {MinuteOf(d, h, mi) : d \in {day \in days : NamedDay(day)},
                              h \in Named("hour"), mi \in Named("minute")}

\* A range of weekdays that names Sunday by its other name, 7, is read as ending on 0.
SevenEndsNoRange ==
    \A chunk \in expression["weekday"] : chunk.kind = "range" => chunk.from < WeekDays /\ chunk.to < WeekDays

\* The next run of an accepted expression is the first date its fields spell out after the
\* given minute, over the end of months and years, and ValueError is raised only when a
\* year and a day hold none (CronExpression.next_after, _matches, _parse_field).
NextRunIsNamed ==
    LET ahead == {t \in NamedRuns : t > after}
    IN  SevenEndsNoRange =>
            /\ next_run \in Nat => ahead # {} /\ next_run = Min(ahead)
            /\ next_run = NoRun =>
                  \A t \in ahead : t > after + 1 + HorizonDays * DayHours * HourMinutes
=============================================================================
