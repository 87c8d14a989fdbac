------------------------------- MODULE Timer -------------------------------
(***************************************************************************)
(* util/Timer.h and Timer.cpp: a stopwatch that counts the cycles of the   *)
(* processor when /proc/cpuinfo tells a frequency that does not change,    *)
(* and the nanoseconds of the system clock when it does not.               *)
(*                                                                         *)
(* PerSecond is kNonosecondsPerSecond, CountMod the range of a uint64_t,   *)
(* MhzDigits the six decimals of a MHz; all are small in an instance.      *)
(***************************************************************************)
EXTENDS Naturals, Sequences

CONSTANTS PerSecond, CountMod, MhzDigits, CpuLines

ASSUME PerSecondAssumption ==
    /\ PerSecond \in Nat \ {0} /\ CountMod \in Nat \ {0} /\ MhzDigits \in Nat
    /\ \A line \in CpuLines :
         /\ line.mhz \in Seq(0 .. 9) /\ line.fraction \in Seq(0 .. 9)
         /\ Len(line.fraction) <= MhzDigits

--------------------------------------------------------------------------
(* Reading the frequency: "cpu MHz" is followed by digits and a decimal    *)
(* point.  A line is [mhz, fraction, invariant]: the digits before and     *)
(* after the point, and whether the flags constant_tsc and nonstop_tsc are *)
(* there.                                                                  *)

\* The number n, continued by the digits ds.
Digits(n, ds) ==
    LET result[i \in 0 .. Len(ds)] == IF i = 0 THEN n ELSE 10 * result[i - 1] + ds[i]
    IN  result[Len(ds)]

Zeros(k) == [i \in 1 .. k |-> 0]

\* The missing decimals are compensated for by zeros.
ReadCpuFrequency(line) ==
    Digits(Digits(Digits(0, line.mhz), line.fraction), Zeros(MhzDigits - Len(line.fraction)))

ReadInvariantCpuFrequency(line) ==
    IF line.invariant THEN ReadCpuFrequency(line) ELSE 0

--------------------------------------------------------------------------
\* freq is g_invariant_cpu_freq; ticks what really passed since Start.
VARIABLES cpuinfo, freq, counter, start, ticks
stopwatchVars == <<cpuinfo, freq, counter, start, ticks>>

Wrap(n) == n % CountMod
Diff(a, b) == Wrap(a + CountMod - Wrap(b))

StopwatchInit ==
    /\ cpuinfo \in CpuLines
    /\ freq = ReadInvariantCpuFrequency(cpuinfo)
    /\ counter \in 0..CountMod - 1
    /\ start = counter /\ ticks = 0

\* CpuCycles() or clock_gettime(): the hardware's counter goes on.
CounterRuns ==
    /\ ticks < CountMod - 1
    /\ counter' = Wrap(counter + 1) /\ ticks' = ticks + 1
    /\ UNCHANGED <<cpuinfo, freq, start>>

StartTimer == start' = counter /\ ticks' = 0 /\ UNCHANGED <<cpuinfo, freq, counter>>

\* Mutant: the operands are swapped.
ElapsedNegative == Diff(start, counter)
Elapsed == Diff(counter, start)

\* The seconds are taken off the cycles as nanoseconds.
ToNonoseconds(time) ==
    IF freq = 0 THEN time
    ELSE LET sec == time \div freq
             nsec == Wrap(Diff(time, sec * PerSecond) * PerSecond) \div freq
         IN  Wrap(sec * PerSecond + nsec)

StopwatchNext == CounterRuns \/ StartTimer

StopwatchSpec == StopwatchInit /\ [][StopwatchNext]_stopwatchVars

--------------------------------------------------------------------------
PowerOfTen(k) == Digits(1, Zeros(k))

(* The frequency is in Hz for both forms of the line that the comment in   *)
(* ReadCpuFrequency shows, whose fractions differ in length, and 0 for a   *)
(* processor whose counter changes its speed.                              *)
FrequencyIsHz ==
    IF cpuinfo.invariant
    THEN freq * PowerOfTen(Len(cpuinfo.fraction)) =
             Digits(0, cpuinfo.mhz \o cpuinfo.fraction) * PowerOfTen(MhzDigits)
    ELSE freq = 0

(* The frequency is right, and Elapsed().ToNonoseconds() is the time that  *)
(* passed, also when the counter wrapped since Start, for all that is      *)
(* measured within a second (and, when the counter runs in nanoseconds,    *)
(* for any time), as long as the product with kNonosecondsPerSecond fits.  *)
ElapsedIsRight ==
    LET fits == ticks * PerSecond < CountMod
        exact == freq = 0 \/ (fits /\ (ticks < freq \/ freq = PerSecond))
        passed == IF freq = 0 THEN ticks ELSE (ticks * PerSecond) \div freq
    IN  FrequencyIsHz /\ (exact => ToNonoseconds(Elapsed) = passed)
=============================================================================
