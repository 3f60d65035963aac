------------------------------ MODULE DosTypes ------------------------------
(***************************************************************************)
(* What DOS and the host call the same thing (vmdos.c): file attributes,   *)
(* the actions of an extended open, error codes, dates and times.          *)
(*                                                                         *)
(* Attributes are sets of flags.  A time of the host is a day since        *)
(* 1601-01-01 and a second of that day, where the code has one number of   *)
(* 100 ns units: it divides by them before anything else.  A FAT time is   *)
(* its six fields, where the code has them in one double word.             *)
(***************************************************************************)
EXTENDS Integers, Sequences, FiniteSets

-----------------------------------------------------------------------------
(* Attributes.                                                             *)

FatAttr == {"rdonly", "hidden", "system", "subdir", "arch"}

FMode == [dir : BOOLEAN, write : BOOLEAN,
          attr : SUBSET {"hidden", "system", "arch"}]

FatAttrToFMode(fat) ==
    [dir |-> "subdir" \in fat, write |-> "rdonly" \notin fat,
     attr |-> fat \cap {"hidden", "system", "arch"}]

FModeToFatAttr(m) ==
    m.attr \cup {a \in {"rdonly"} : ~m.write} \cup {a \in {"subdir"} : m.dir}

-----------------------------------------------------------------------------
(* What an open does with a file that exists, and with one that does not.  *)

Actions == {"O_EXIST", "O_TRUNC", "O_ALWAYS", "C_NEW", "C_ALWAYS"}

\* Fault: replacing is looked at before creating.
FaultDosExtActionToOpenAction(ext) ==
    LET has(flag) == flag \in ext
    IN  CASE has("replace") -> "O_TRUNC"
          [] ~has("replace") /\ has("create") /\ has("open") -> "O_ALWAYS"
          [] ~has("replace") /\ has("create") /\ ~has("open") -> "C_NEW"
          [] ~has("replace") /\ ~has("create") -> "O_EXIST"

DosExtActionToOpenAction(ext) ==
    LET has(flag) == flag \in ext
    IN  CASE has("create") /\ has("replace") -> "C_ALWAYS"
          [] has("create") /\ ~has("replace") /\ has("open") -> "O_ALWAYS"
          [] has("create") /\ ~has("replace") /\ ~has("open") -> "C_NEW"
          [] ~has("create") /\ has("replace") -> "O_TRUNC"
          [] ~has("create") /\ ~has("replace") -> "O_EXIST"

-----------------------------------------------------------------------------
(* Status of an RPC.                                                       *)

Statuses == {"SUCCESS", "ENOTEXIST", "EINVALID", "ENOTPERM", "EEXIST",
             "ENODIR", "ENOTEMPTY", "EPROTOCOL", "EACCESS", "ENAME",
             "EGENERIC", "ESHARING", "ENOSPACE", "EUNSUPPORTED", "ETOOLONG",
             "EPARAMETER", "EDEVICE"}

VmshfStatusToDosError(status) ==
    CASE status = "SUCCESS" -> "SUCCESS"
      [] status \in {"ENOTEXIST", "ENAME", "ETOOLONG"} -> "FILENOTFND"
      [] status = "ENODIR" -> "PATHNOTFND"
      [] status = "EINVALID" -> "INVLDHNDL"
      [] status \in {"ENOTPERM", "EACCESS", "ENOTEMPTY", "EGENERIC",
                     "EEXIST"} -> "ACCESS"
      [] status = "ESHARING" -> "SHARE"
      [] status = "ENOSPACE" -> "ENOSPACE"
      [] status = "EUNSUPPORTED" -> "UNKCMD"
      [] status = "EPARAMETER" -> "INVLDPARM"
      [] status = "EDEVICE" -> "DEVICE"
      [] status = "EPROTOCOL" -> "GENERAL"

-----------------------------------------------------------------------------
(* Dates and times.                                                        *)

FILETIME_DELTA == 138426    \* days from 1601-01-01 to 1980-01-01
SECSPERDAY == 86400

FTime == [day : Nat, sec : 0..SECSPERDAY - 1]

Moved(t, secs) ==
    [day |-> t.day + (t.sec + secs) \div SECSPERDAY,
     sec |-> (t.sec + secs) % SECSPERDAY]

\* Fault: every fourth year counts once too early.
FaultYearStart(y) == 365 * y + (y + 2) \div 4 - (IF y > 120 THEN 1 ELSE 0)

\* Days before year y (counted from 1980): what the loop over years has
\* taken off when it gets there.  Year 120, 2100, is no leap year.
YearStart(y) == 365 * y + (y + 3) \div 4 - (IF y > 120 THEN 1 ELSE 0)

YearOf(days) ==
    CHOOSE y \in 0..days \div 365 :
        YearStart(y) <= days /\ days < YearStart(y + 1)

\* Days of the year before each month; February goes by the year alone.
MonthStarts(y) ==
    LET leap == IF y % 4 = 0 THEN 1 ELSE 0
    IN  <<0, 31, 59 + leap, 90 + leap, 120 + leap, 151 + leap, 181 + leap,
          212 + leap, 243 + leap, 273 + leap, 304 + leap, 334 + leap>>

MonthOf(y, days) ==
    Cardinality({m \in 1..12 : MonthStarts(y)[m] <= days})

FTimeToFatTime(t, gmtOffset) ==
    LET local == Moved(t, gmtOffset)
        days == IF local.day < FILETIME_DELTA THEN FILETIME_DELTA
                ELSE local.day - FILETIME_DELTA
        year == YearOf(days)
        rest == days - YearStart(year)
        month == MonthOf(year, rest)
    IN  [year |-> year % 128, month |-> month,
         day |-> 1 + rest - MonthStarts(year)[month],
         hour |-> local.sec \div 3600,
         min |-> (local.sec % 3600) \div 60,
         sec |-> (local.sec % 60) \div 2]

FatInstant(f) ==
    [day |-> FILETIME_DELTA + 365 * f.year + (f.year + 3) \div 4 + f.day - 1
             + MonthStarts(f.year)[f.month],
     sec |-> 3600 * f.hour + 60 * f.min + 2 * f.sec]

\* Fault: the offset is added both ways.
FaultFatTimeToFTime(f, gmtOffset) == Moved(FatInstant(f), gmtOffset)

FatTimeToFTime(f, gmtOffset) == Moved(FatInstant(f), -gmtOffset)
=============================================================================
