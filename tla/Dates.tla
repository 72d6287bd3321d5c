------------------------------- MODULE Dates -------------------------------
(***************************************************************************)
(* The calendar of the firmware: the two conversions from Unix seconds to  *)
(* the date and time words of a GEMDOS directory entry, and the BCD clock  *)
(* of the Atari's keyboard processor.  A Unix time is [day, sec], the days *)
(* since 1 January 1970 and the seconds of the day, so that 32-bit seconds *)
(* fit TLC's integers.                                                     *)
(***************************************************************************)
EXTENDS Integers

SecondsOfDay == 86400

(* gmtime() of the C library. *)
IsLeap(y) == (y % 4 = 0) /\ ((y % 100 # 0) \/ (y % 400 = 0))

DaysBefore(y) ==
  (365 * (y - 1970)) + ((y - 1969) \div 4) - ((y - 1901) \div 100)
    + ((y - 1601) \div 400)

MonthStart(y) ==
  LET leap == IF IsLeap(y) THEN 1 ELSE 0
  IN  <<0, 31, 59 + leap, 90 + leap, 120 + leap, 151 + leap, 181 + leap,
        212 + leap, 243 + leap, 273 + leap, 304 + leap, 334 + leap>>

Calendar(t) ==
  LET year  == CHOOSE y \in (1970 + (t.day \div 366))..(1970 + (t.day \div 365)) :
                 DaysBefore(y) <= t.day /\ t.day < DaysBefore(y + 1)
      day   == t.day - DaysBefore(year)
      month == CHOOSE m \in 1..12 :
                 /\ MonthStart(year)[m] <= day
                 /\ m < 12 => day < MonthStart(year)[m + 1]
  IN  [year  |-> year, month |-> month, mday |-> day - MonthStart(year)[month] + 1,
       hour  |-> t.sec \div 3600, minute |-> (t.sec \div 60) % 60,
       second |-> t.sec % 60]

(* The local time: the Unix time shifted by the configured UTC offset. *)
Shifted(t, offset) ==
  LET sec == t.sec + offset
  IN  [day |-> t.day + (sec \div SecondsOfDay), sec |-> sec % SecondsOfDay]

(* The same in 32 bits, which hold 49710 days and 23296 seconds. *)
ShiftedWord(t, offset) ==
  LET u == Shifted(t, offset)
  IN  IF u.day < 0 THEN Shifted([u EXCEPT !.day = @ + 49710], 23296)
      ELSE IF u.day > 49710 \/ (u.day = 49710 /\ u.sec >= 23296)
             THEN Shifted([u EXCEPT !.day = @ - 49710], -23296)
             ELSE u

DateWord(year, c) == (512 * year) + (32 * c.month) + c.mday

TimeWord(c) == (2048 * c.hour) + (32 * c.minute) + (c.second \div 2)

(* unix_epoch_to_dos_datetime(): the dates of a directory listing; 0 and   *)
(* everything before 1980 become 1 January 1980, midnight.                 *)
ListingDate(t) ==
  LET c == Calendar(t)
  IN  IF (t = [day |-> 0, sec |-> 0]) \/ c.year < 1980
        THEN [date |-> 33, time |-> 0]
        ELSE [date |-> DateWord(IF c.year - 1980 > 127 THEN 127 ELSE c.year - 1980, c),
              time |-> TimeWord(c)]

(* tnfs_unix_time_to_gemdos(): the dates of Fdatime; a year out of range   *)
(* is clamped, month, day and time are kept.                               *)
FileDate(t, offset) ==
  LET c    == Calendar(Shifted(t, offset))
      year == c.year - 1980
  IN  [date |-> DateWord(IF year < 0 THEN 0 ELSE IF year > 127 THEN 127 ELSE year, c),
       time |-> TimeWord(c)]

(* to_bcd() and add_bcd(), on 8-bit bytes. *)
ToBcd(val) == (16 * (val \div 10)) + (val % 10)


AddBcd(bcd1, bcd2) ==
  LET units == (bcd1 % 16) + (bcd2 % 16)
      low   == IF units > 9 THEN units + 6 ELSE units
      tens  == (16 * ((bcd1 \div 16) + (bcd2 \div 16) + (low \div 16))) % 256
      high  == IF tens > 144 THEN (tens + 96) % 256 ELSE tens
  IN  high + (low % 16)

(* set_ikb_datetime_msg(): the clock packet of the keyboard processor.  An *)
(* Atari whose TOS needs the fix gets the year moved by 70.  The GEMDOS    *)
(* version the caller passes as a negative number for EmuTOS arrives as an *)
(* unsigned one, so the caller's flag alone decides.                       *)
Clock(t, y2k_patch) ==
  LET c    == Calendar(t)
      year == ToBcd(c.year % 100)
  IN  [year  |-> IF y2k_patch THEN AddBcd(year, ToBcd(70)) ELSE year,
       month |-> ToBcd(c.month), mday |-> ToBcd(c.mday), hour |-> ToBcd(c.hour),
       minute |-> ToBcd(c.minute), second |-> ToBcd(c.second)]
============================================================================
