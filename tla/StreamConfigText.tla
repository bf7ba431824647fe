-------------------------- MODULE StreamConfigText --------------------------
(***************************************************************************)
(* The text of a stream configuration, "2x44.1xf32", and what is read back *)
(* from it: src/src/stream_config.rs.                                      *)
(*                                                                         *)
(* The rate is an integer in Hz.  Its text is in kHz; here a rate's text   *)
(* is the number of Hz its digits say, so "44.1" is 44100.  In between     *)
(* both ways stands an f32, which is modelled exactly: rate/1000 is        *)
(* Kilo(rate) / (8 * Scale(rate)), with a mantissa Kilo(rate) of 24 bits.  *)
(* Trimming zeros and the point changes no value.                          *)
(***************************************************************************)
EXTENDS Integers

\* The rates the arithmetic below is exact for.  Devices offer 8 to 384 kHz.
MinRate == 1000
MaxRate == 511999

\* cpal's SampleFormat, and those of them whose names from_str knows.
SampleFormats == {"i8", "i16", "i24", "i32", "i64", "u8", "u16", "u32", "u64",
                  "f32", "f64"}
KnownFormats == SampleFormats \ {"f64"}

StreamConfigs == [channels : Nat, sample_rate : Nat, sample_format : SampleFormats]

\* Those a device may have.
DeviceConfigs ==
  [channels : Nat, sample_rate : MinRate .. MaxRate, sample_format : SampleFormats]

-----------------------------------------------------------------------------
\* n/d, rounded to the nearest integer, to the even one of two.
RoundDiv(n, d) ==
  LET half == 2 * (n % d)
  IN  n \div d + IF half > d \/ (half = d /\ (n \div d) % 2 = 1) THEN 1 ELSE 0

\* The power of two that rate/1000 lies between and its double.
Octaves == {1, 2, 4, 8, 16, 32, 64, 128, 256, 512}
Octave(rate) == CHOOSE p \in Octaves : 1000 * p <= rate /\ rate < 2000 * p

\* An f32 in that octave is a mantissa of 24 bits, in units of 1/(8 * Scale).
Scale(rate) == 1048576 \div Octave(rate)

\* The mantissa of the f32 next to rate/1000.
Kilo(rate) == RoundDiv(rate * Scale(rate), 125)

\* Mutant of format_as_khz: one decimal.
format_as_khz_one_decimal(rate) == 100 * RoundDiv(5 * Kilo(rate), 4 * Scale(rate))

\* The f32 with two decimals.
format_as_khz(rate) == 10 * RoundDiv(25 * Kilo(rate), 2 * Scale(rate))

\* The f32 times 1000, rounded to an f32 of the octave it falls in, cut off to an integer.
parse_khz(text) ==
  LET product == 125 * Kilo(text)
  IN  IF product >= 1073741824
      THEN RoundDiv(product, 128) \div (Scale(text) \div 128)
      ELSE RoundDiv(product, 64) \div (Scale(text) \div 64)

\* Display for StreamConfig, and to_config_string.
to_string(cfg) == [cfg EXCEPT !.sample_rate = format_as_khz(@)]

\* FromStr for StreamConfig, of a text that has the three parts.
Parses(text) == text.sample_format \in KnownFormats

from_str(text) == [text EXCEPT !.sample_rate = parse_khz(@)]

-----------------------------------------------------------------------------
\* A rate that has been through text once.
ThroughText(rate) == parse_khz(format_as_khz(rate))

\* What a text loses of a rate: up to 6 Hz downwards, 5 upwards.
Near(rate, other) == other - rate \in -6 .. 5
=============================================================================
