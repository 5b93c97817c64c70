------------------------------ MODULE Ps2Clock ------------------------------
(***************************************************************************)
(* The clock of src/lib/libps2time.  The calendar: the console's runs in   *)
(* Japanese time and answers in BCD; ps2time_init brings it to GMT and to  *)
(* a number counted from 1970, from which localtime makes dates again.     *)
(* Here the number counts hours: minutes and seconds pass through as they  *)
(* are.  And the text of a time (ps2time_strftime), put together piece by  *)
(* piece in a buffer of a given size: a piece is a character of the format *)
(* or what a conversion makes, of which only the length matters.  And the  *)
(* running time: a hardware counter and the number of its overflows, which *)
(* an interrupt handler counts.  A thread that asks for the time reads the *)
(* one and then the other, in the order the compiler chose, and an overflow*)
(* may come in between.                                                    *)
(***************************************************************************)
EXTENDS Integers, Sequences, FiniteSets, SequencesExt, FiniteSetsExt

CONSTANTS
    Years,      \* bound: years the clock shows, from 2000
    Zones,      \* bound: offsets from GMT, in hours
    Widths,     \* bound: how long the conversions are
    MaxPieces,  \* bound: pieces of a format
    MaxSize,    \* bound: sizes of the buffer
    Period,     \* counts between two overflows: 2^16
    MaxTicks    \* bound: how long the timer runs

VARIABLES
    rtc,        \* what cdReadClock returns
    start,      \* g_ps2time_start, -1 before ps2time_init
    zone,       \* g_ps2time_timezone
    shown,      \* the last struct tm that ps2time_localtime returned
    format,     \* the pieces: 0 for a character, else the width of a conversion
    fmt,        \* pieces done
    maxsize,    \* room for characters; the terminating zero has its own
    num,        \* the result
    written,    \* characters in the buffer
    over,       \* the loop has ended
    count,      \* T1_COUNT
    overflow,   \* the overflow bit of T1_MODE
    interrupts, \* g_interruptCount
    half,       \* what a thread has read so far: "nothing" or a register
    value,      \* its value
    reading,    \* the time last read
    elapsed,    \* ticks since ps2time_init
    began       \* elapsed when the thread began to read

clockVars == <<rtc, start, zone, shown>>
strVars == <<format, fmt, maxsize, num, written, over>>
timerVars == <<count, overflow, interrupts, half, value, reading, elapsed, began>>

NoTime == [year |-> 0, mon |-> 0, mday |-> 0, hour |-> 0, wday |-> 0, yday |-> 0]

IsLeapYear(y) == y > 0 /\ y % 4 = 0 /\ (y % 100 # 0 \/ y % 400 = 0)
MonthDays == <<31, 28, 31, 30, 31, 30, 31, 31, 30, 31, 30, 31>>
Length(y, m) == IF m = 1 /\ IsLeapYear(y) THEN 29 ELSE MonthDays[m + 1]

BCD2DEC(b) == ((b \div 16) % 16) * 10 + (b % 16)
DEC2BCD(d) == (d \div 10) * 16 + (d % 10)

\* Every day of the years, at the hours around which the date changes.
Readings == UNION { {[year |-> DEC2BCD(y - 2000), month |-> DEC2BCD(m + 1),
                      day |-> DEC2BCD(d), hour |-> DEC2BCD(h)] :
                     d \in 1 .. Length(y, m), h \in {0, 8, 9}} :
                   y \in Years, m \in 0 .. 11 }

Init == rtc \in Readings /\ start = -1 /\ zone = 0 /\ shown = NoTime

------------------------------------------------------------------------------
(* ps2time_init *)

Decoded == [year |-> BCD2DEC(rtc.year) + 100, mon |-> BCD2DEC(rtc.month) - 1,
            mday |-> BCD2DEC(rtc.day), hour |-> BCD2DEC(rtc.hour)]

\* The last day of the month before.
DayBefore_Mutant(t) ==
    IF t.mday > 1 THEN [t EXCEPT !.mday = @ - 1]
    ELSE LET mon == IF t.mon = 0 THEN 11 ELSE t.mon - 1
             year == IF t.mon = 0 THEN t.year - 1 ELSE t.year
         IN [t EXCEPT !.year = year, !.mon = mon, !.mday = MonthDays[mon + 1]]
DayBefore(t) ==
    IF t.mday > 1 THEN [t EXCEPT !.mday = @ - 1]
    ELSE LET mon == IF t.mon = 0 THEN 11 ELSE t.mon - 1
             year == IF t.mon = 0 THEN t.year - 1 ELSE t.year
         IN [t EXCEPT !.year = year, !.mon = mon, !.mday = Length(year + 1900, mon)]

ToGMT(t) == IF t.hour < 9 THEN [DayBefore(t) EXCEPT !.hour = (24 - (9 - t.hour)) % 24]
            ELSE [t EXCEPT !.hour = @ - 9]

\* ps2time_mktime
MkTime(t) ==
    LET n == t.year + 1900 - 1
        years == (t.year - 70) * 365
                 + (n \div 4 - n \div 100 + n \div 400)
                 - (1969 \div 4 - 1969 \div 100 + 1969 \div 400)
        months == MapThenSumSet(LAMBDA m : Length(t.year + 1900, m), 0 .. (t.mon - 1))
    IN (years + months + t.mday - 1) * 24 + t.hour

Initialise ==
    /\ start = -1
    /\ start' = MkTime(ToGMT(Decoded))
    /\ UNCHANGED <<rtc, zone, shown>>

SetTimezone(offset) ==
    /\ start # -1
    /\ zone' = offset
    /\ UNCHANGED <<rtc, start, shown>>

------------------------------------------------------------------------------
(* ps2time_gmtime *)

\* __spm: days before a month of a year that is no leap year.
DaysBefore == <<0, 31, 59, 90, 120, 151, 181, 212, 243, 273, 304, 334>>
DaysToYear(y) == (y - 1970) * 365
                 + Cardinality({l \in 1970 .. (y - 1) : IsLeapYear(l)})

GMTime(epoch) ==
    LET days == epoch \div 24
        year == CHOOSE y \in 1970 .. 2100 : /\ DaysToYear(y) <= days
                                            /\ days < DaysToYear(y + 1)
        yday == days - DaysToYear(year)
        late == IsLeapYear(year) /\ yday > 58
        work == IF late THEN yday - 1 ELSE yday
        mon == Max({m \in 0 .. 11 : m = 0 \/ DaysBefore[m + 1] <= work})
    IN [year |-> year - 1900, mon |-> mon,
        mday |-> (IF late /\ yday = 59 THEN 2 ELSE 1) + work - DaysBefore[mon + 1],
        hour |-> epoch % 24, wday |-> (4 + days) % 7, yday |-> yday]

\* ps2time_localtime, which asctime, ctime and the clock in the menus show.
LocalTime ==
    /\ start # -1
    /\ shown' = GMTime(start + zone)
    /\ UNCHANGED <<rtc, start, zone>>

Next == Initialise \/ (\E o \in Zones : SetTimezone(o)) \/ LocalTime

Spec == Init /\ [][Next]_clockVars

------------------------------------------------------------------------------
(* ps2time_strftime *)

FormatInit ==
    /\ format \in UNION {[1 .. n -> Widths \cup {0}] : n \in 0 .. MaxPieces}
    /\ maxsize \in 0 .. (MaxSize - 1)
    /\ fmt = 0 /\ num = 0 /\ written = 0 /\ over = FALSE

Stop(n, w) == over' = TRUE /\ num' = n /\ written' = w /\ UNCHANGED fmt

Stays_Mutant(n, room) == n <= room + 1
Stays(n, room) == n <= room

\* One turn of the loop.
Piece ==
    /\ ~over
    /\ UNCHANGED <<format, maxsize>>
    /\ IF fmt = Len(format) THEN Stop(num, written)
       ELSE IF num = maxsize THEN Stop(0, written)
       ELSE IF format[fmt + 1] = 0
       THEN /\ fmt' = fmt + 1 /\ num' = num + 1 /\ written' = written + 1
            /\ UNCHANGED over
       ELSE LET n == num + format[fmt + 1]
            IN IF Stays(n, maxsize)
               THEN /\ fmt' = fmt + 1 /\ num' = n
                    /\ written' = written + format[fmt + 1]
                    /\ UNCHANGED over
               ELSE Stop(0, written + format[fmt + 1] - (n - maxsize))

FormatSpec == FormatInit /\ [][Piece]_strVars

------------------------------------------------------------------------------
(* The timer *)

TimerInit ==
    /\ count = 0 /\ overflow = FALSE /\ interrupts = 0
    /\ half = "nothing" /\ value = 0 /\ reading = 0
    /\ elapsed = 0 /\ began = 0

\* The interrupt comes long before the counter is full again.
CountUp ==
    /\ elapsed < MaxTicks
    /\ count = Period - 1 => ~overflow
    /\ count' = (count + 1) % Period
    /\ overflow' = (overflow \/ count = Period - 1)
    /\ elapsed' = elapsed + 1
    /\ UNCHANGED <<interrupts, half, value, reading, began>>

\* ps2time_intr_handler
Interrupt ==
    /\ overflow
    /\ interrupts' = interrupts + 1
    /\ overflow' = FALSE
    /\ UNCHANGED <<count, half, value, reading, elapsed, began>>

\* A thread does not run while an interrupt waits.
ReadFirst(register) ==
    /\ ~overflow /\ half = "nothing"
    /\ half' = register
    /\ value' = IF register = "count" THEN count ELSE interrupts
    /\ began' = elapsed
    /\ UNCHANGED <<count, overflow, interrupts, reading, elapsed>>

Time_Mutant(c, n) == c + n * (Period - 1)
Time(c, n) == c + n * Period

\* ps2time_gettimeofday
ReadSecond ==
    /\ ~overflow /\ half # "nothing"
    /\ reading' = IF half = "count" THEN Time(value, interrupts)
                  ELSE Time(count, value)
    /\ half' = "nothing" /\ value' = 0
    /\ UNCHANGED <<count, overflow, interrupts, elapsed, began>>

TimerNext ==
    \/ CountUp \/ Interrupt
    \/ \E register \in {"count", "interrupts"} : ReadFirst(register)
    \/ ReadSecond

TimerSpec == TimerInit /\ [][TimerNext]_timerVars

------------------------------------------------------------------------------
TypeOK ==
    /\ rtc.year \in 0 .. 153 /\ rtc.month \in 1 .. 18 /\ start \in Int /\ zone \in Int
    /\ shown = NoTime \/ (shown.mon \in 0 .. 11 /\ shown.wday \in 0 .. 6)
    /\ fmt \in 0 .. Len(format) /\ num \in Nat /\ over \in BOOLEAN
    /\ count \in 0 .. (Period - 1) /\ overflow \in BOOLEAN /\ interrupts \in Nat
    /\ half \in {"nothing", "count", "interrupts"}
    /\ {value, reading, elapsed, began} \subseteq Nat

HoursSince1970(y, m, d, h) ==
    24 * (DaysToYear(y) + d - 1
          + Cardinality({date \in (0 .. 11) \X (1 .. 31) :
                         date[1] < m /\ date[2] <= Length(y, date[1])})) + h

(* A local time is a date of the calendar, and it is as far from what the    *)
(* console's clock shows as the time zone is from Japan: at the turn of a    *)
(* month, at the end of February and of the year (ps2time_init, mktime,      *)
(* gmtime).                                                                  *)
ShowsTheDate ==
    LET t == shown'
    IN shown' # shown =>
         /\ t.mday \in 1 .. Length(t.year + 1900, t.mon)
         /\ HoursSince1970(t.year + 1900, t.mon, t.mday, t.hour) =
            HoursSince1970(BCD2DEC(rtc.year) + 2000, BCD2DEC(rtc.month) - 1,
                           BCD2DEC(rtc.day), BCD2DEC(rtc.hour)) - 9 + zone
ShowsDates == [][ShowsTheDate]_clockVars

Size(piece) == IF piece = 0 THEN 1 ELSE piece
Text == FoldSeq(LAMBDA p, n : n + Size(p), 0, format)

(* The buffer is never overrun, and the result tells whether the text is     *)
(* complete: its length if it is, 0 if it did not fit.                       *)
CutWhereItMust ==
    /\ written <= maxsize
    /\ over => /\ num = (IF Text <= maxsize THEN Text ELSE 0)
               /\ Text <= maxsize => written = Text

(* The time read is a time between the beginning and the end of the reading, *)
(* or, when the counter overflowed in between, less than one period from it: *)
(* the error of a torn reading does not add up (ps2time_gettimeofday).       *)
ReadingNear ==
    (half # "nothing" /\ half' = "nothing") =>
        IF elapsed \div Period = began \div Period
        THEN reading' \in began .. elapsed
        ELSE reading' \in (began - Period) .. (elapsed + Period)
ReadingsNear == [][ReadingNear]_timerVars
==============================================================================
