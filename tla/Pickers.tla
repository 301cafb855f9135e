------------------------------- MODULE Pickers -------------------------------
(***************************************************************************)
(* The fields of the forms that keep state of their own beside the value   *)
(* of the form: the date picker, the time picker and the distance picker.  *)
(* A behaviour is one field in use.                                        *)
(*                                                                         *)
(* A day is a number, a month is MonthDays days, a year is YearMonths      *)
(* months.  Time is in minutes, distance in hundredths of its unit.        *)
(***************************************************************************)
EXTENDS Integers

CONSTANTS Days,        \* days that can be typed or stored
          Lo, Hi,      \* minDate and maxDate, in days from today
          Today, LastDay,    \* the clock runs from Today to LastDay
          MonthDays, YearMonths, PageYears, MaxPage,
          Legacy,      \* times of day stored by other means than the picker
          Wholes, Decimals   \* what is typed in the two halves of a distance

PickerConstants ==
  /\ Days \subseteq Nat /\ {Today, LastDay} \subseteq Nat /\ Today =< LastDay
  /\ Today..LastDay \subseteq Days /\ {Lo, Hi} \subseteq Int /\ MaxPage \in Nat
  /\ {MonthDays, YearMonths, PageYears} \subseteq Nat \ {0}
  /\ Legacy \subseteq 0..1439
  /\ Wholes \subseteq Nat /\ Decimals \subseteq 0..99

ASSUME PickerAssumption == PickerConstants

VARIABLES
  field,            \* "date", "time" or "distance"; does not change
  value,            \* the value in the form, Missing when empty
  day,              \* the day it is
  minDate, maxDate, \* the bounds of the last render of the form
  popover,          \* whether the popover is open
  typed,            \* typedValue: a day, Garbage or Missing
  typedError, hadCommitError,
  today,            \* the day of the last change of the value
  view, viewDate, yearPage,
  whole, decimal,   \* the texts of the distance, Missing when empty
  unit,             \* "km" or "mi"
  entered           \* history: the distance and unit last typed

clock == <<day, minDate, maxDate>>
dateVars == <<popover, typed, typedError, hadCommitError, today, view, viewDate, yearPage>>
distanceVars == <<whole, decimal, unit, entered>>
fieldVars == <<field, value, clock, dateVars, distanceVars>>

Missing == -1
Garbage == -2

-----------------------------------------------------------------------------
(* Date picker.                                                            *)

Month(d) == d \div MonthDays
Year(d) == Month(d) \div YearMonths
monthStart(m) == m * MonthDays

(* A text that is no date, an impossible date and a year of two digits are *)
(* all Garbage: makeDate() refuses them.                                   *)
parseTyped(text) == IF text = Garbage THEN Missing ELSE text

isCellDisabled(d) == d < minDate \/ d > maxDate

(* The days of the month in view and those of its neighbours around it.    *)
cells == {d \in Days : Month(d) \in Month(viewDate) - 1 .. Month(viewDate) + 1}

canPickToday == ~ (today < minDate \/ today > maxDate)

(* The effect of a new value: the clock is read and the value is in view.  *)
ValueEffect(v) ==
  /\ value' = v
  /\ IF v = value THEN UNCHANGED <<today, viewDate>>
     ELSE today' = day /\ viewDate' = IF v = Missing THEN day ELSE v

OpenEffect ==
  /\ popover' = TRUE /\ typed' = value
  /\ typedError' = FALSE /\ hadCommitError' = FALSE
  /\ view' = "days" /\ yearPage' = 0

CloseEffect ==
  /\ popover' = FALSE /\ typedError' = FALSE /\ hadCommitError' = FALSE
  /\ UNCHANGED <<typed, view, yearPage>>

UNCHANGED_others == UNCHANGED <<field, clock, distanceVars>>

commitTyped_Unbounded ==
  LET parsed == parseTyped(typed) IN
  IF parsed = Missing
  THEN /\ typedError' = TRUE /\ hadCommitError' = TRUE
       /\ UNCHANGED <<value, popover, typed, today, view, viewDate, yearPage>>
  ELSE ValueEffect(parsed) /\ CloseEffect

commitTyped ==
  LET parsed == parseTyped(typed) IN
  IF parsed = Missing \/ isCellDisabled(parsed)
  THEN /\ typedError' = TRUE /\ hadCommitError' = TRUE
       /\ UNCHANGED <<value, popover, typed, today, view, viewDate, yearPage>>
  ELSE ValueEffect(parsed) /\ CloseEffect

onTypedChange_KeepsFlag ==
  /\ popover
  /\ \E text \in Days \cup {Missing, Garbage} :
       /\ text # typed /\ typed' = text /\ typedError' = FALSE
  /\ UNCHANGED <<hadCommitError, value, popover, today, view, viewDate, yearPage>>
  /\ UNCHANGED_others

onTypedChange ==
  /\ popover
  /\ \E text \in Days \cup {Missing, Garbage} :
       /\ text # typed /\ typed' = text
       /\ typedError' = FALSE /\ hadCommitError' = FALSE
  /\ UNCHANGED <<value, popover, today, view, viewDate, yearPage>>
  /\ UNCHANGED_others

(* Enter, or the focus goes elsewhere on the page.                         *)
onTypedBlur == popover /\ typed # Missing /\ commitTyped /\ UNCHANGED_others

onTypedEnter ==
  /\ popover
  /\ IF typed = Missing
     THEN /\ typedError' = FALSE /\ hadCommitError' = FALSE
          /\ UNCHANGED <<value, popover, typed, today, view, viewDate, yearPage>>
     ELSE commitTyped
  /\ UNCHANGED_others

toggleOpen ==
  /\ IF ~ popover THEN OpenEffect /\ UNCHANGED <<value, today, viewDate>>
     ELSE IF typed # Missing THEN commitTyped
     ELSE CloseEffect /\ UNCHANGED <<value, today, viewDate>>
  /\ UNCHANGED_others

(* The mouse goes down elsewhere, before the input loses its focus.        *)
clickOutside ==
  /\ popover /\ ~ hadCommitError
  /\ CloseEffect
  /\ UNCHANGED <<value, today, viewDate>>
  /\ UNCHANGED_others

(* Escape and the Close button.                                            *)
Close ==
  /\ popover /\ CloseEffect
  /\ UNCHANGED <<value, today, viewDate>>
  /\ UNCHANGED_others

pick ==
  /\ popover /\ view = "days"
  /\ \E d \in cells : ~ isCellDisabled(d) /\ ValueEffect(d)
  /\ CloseEffect
  /\ UNCHANGED_others

goToday ==
  /\ popover /\ canPickToday
  /\ value' = day
  /\ viewDate' = day
  /\ today' = IF day = value THEN today ELSE day
  /\ CloseEffect
  /\ UNCHANGED_others

clear ==
  /\ value # Missing /\ ValueEffect(Missing)
  /\ UNCHANGED <<popover, typed, typedError, hadCommitError, view, yearPage>>
  /\ UNCHANGED_others

Navigate(m) ==
  /\ monthStart(m) \in Days /\ viewDate' = monthStart(m)
  /\ UNCHANGED <<value, popover, typed, typedError, hadCommitError, today, yearPage>>
  /\ UNCHANGED_others

stepMonth ==
  /\ popover /\ view = "days"
  /\ \E m \in {Month(viewDate) - 1, Month(viewDate) + 1} : Navigate(m)
  /\ view' = view

yearsShown(page) ==
  Year(viewDate) - page * PageYears - (PageYears - 1) .. Year(viewDate) - page * PageYears

chooseYear ==
  /\ popover /\ view = "years"
  /\ \E y \in yearsShown(yearPage) :
       /\ ~ (y < Year(minDate) \/ y > Year(maxDate))
       /\ Navigate(y * YearMonths + (Month(viewDate) % YearMonths))
  /\ view' = "months"

chooseMonth ==
  /\ popover /\ view = "months"
  /\ \E m \in Year(viewDate) * YearMonths .. Year(viewDate) * YearMonths + YearMonths - 1 :
       /\ ~ (minDate > monthStart(m + 1) - 1 \/ maxDate < monthStart(m))
       /\ Navigate(m)
  /\ view' = "days"

(* The title of the calendar and of the list of months, and the arrow back *)
(* to the years, which keeps their page.                                   *)
showYears ==
  /\ popover /\ view \in {"days", "months"} /\ view' = "years"
  /\ yearPage' \in IF view = "days" THEN {0} ELSE {0, yearPage}
  /\ UNCHANGED <<value, popover, typed, typedError, hadCommitError, today, viewDate>>
  /\ UNCHANGED_others

turnPage(page) ==
  /\ popover /\ view = "years" /\ yearPage' = page
  /\ UNCHANGED <<value, popover, typed, typedError, hadCommitError, today, view, viewDate>>
  /\ UNCHANGED_others

(* "Next years" is disabled while yearPage <= 0 and nothing raises         *)
(* yearPage above 0, so "Previous years" is the only one there is.         *)
previousYears == yearPage > - MaxPage /\ turnPage(yearPage - 1)

DatePicker ==
  /\ field = "date"
  /\ \/ onTypedChange \/ onTypedBlur \/ onTypedEnter \/ toggleOpen
     \/ clickOutside \/ Close \/ pick \/ goToday \/ clear
     \/ stepMonth \/ chooseYear \/ chooseMonth \/ showYears \/ previousYears

-----------------------------------------------------------------------------
(* Time picker: hour on a twelve-hour clock, quarter of an hour, half day. *)

parse(v) == [hour |-> IF (v \div 60) % 12 = 0 THEN 12 ELSE (v \div 60) % 12,
             minute |-> LET snapped == ((2 * (v % 60) + 15) \div 30) * 15
                        IN  IF snapped > 45 THEN 45 ELSE snapped,
             period |-> IF v \div 60 >= 12 THEN "PM" ELSE "AM"]

to24_NoMidnight(hour, minute, period) ==
  60 * (IF period = "PM" /\ hour # 12 THEN hour + 12 ELSE hour) + minute

to24(hour, minute, period) ==
  60 * (CASE period = "AM" /\ hour = 12 -> 0
          [] period = "PM" /\ hour # 12 -> hour + 12
          [] OTHER -> hour) + minute

(* What the three lists show; the lists of an empty field count as 12, 00. *)
shown == IF value = Missing THEN [hour |-> 12, minute |-> 0, period |-> "AM"] ELSE parse(value)

update ==
  \/ \E h \in 1..12 : value' = to24(h, shown.minute, shown.period)
  \/ \E m \in {0, 15, 30, 45} : value' = to24(shown.hour, m, shown.period)
  \/ \E p \in {"AM", "PM"} : value' = to24(shown.hour, shown.minute, p)

clearTime == value # Missing /\ value' = Missing

TimePicker ==
  /\ field = "time" /\ (update \/ clearTime)
  /\ UNCHANGED <<field, clock, dateVars, distanceVars>>

-----------------------------------------------------------------------------
(* Distance picker.                                                        *)

(* Rounded to hundredths; a mile is 1 / 0.621371 kilometres.  The products *)
(* are arranged to stay small.                                             *)
toMiles(km) == km + (500000 - km * 378629) \div 1000000
toKm(mi) == mi + (mi * 378629 + 310685) \div 621371

(* "5" stands for 50 hundredths, "05" for 5; a decimal is kept as its      *)
(* number of hundredths, Missing when the text is empty.                      *)
splitWhole(v) == IF v = Missing THEN Missing ELSE v \div 100
splitDecimal(v) == IF v = Missing \/ v % 100 = 0 THEN Missing ELSE v % 100

combined(w, d) == IF w = Missing THEN Missing ELSE 100 * w + (IF d = Missing THEN 0 ELSE d)

(* emit(): the form gets the value of the two texts; when that changes it, *)
(* the texts are split anew from the value.                                *)
emit(w, d) ==
  /\ value' = combined(w, d)
  /\ IF value' = value THEN whole' = w /\ decimal' = d
     ELSE whole' = splitWhole(value') /\ decimal' = splitDecimal(value')
  /\ entered' = [distance |-> value', unit |-> unit]
  /\ UNCHANGED unit

handleWholeChange == \E w \in Wholes \cup {Missing} : w # whole /\ emit(w, decimal)
handleDecimalChange == \E d \in Decimals \cup {Missing} : d # decimal /\ emit(whole, d)

handleUnitChange_FromTenths ==
  LET here == combined(whole, IF decimal = Missing THEN Missing ELSE 10 * (decimal \div 10))
      there == IF here = Missing THEN Missing
               ELSE IF unit = "km" THEN toMiles(here) ELSE toKm(here)
  IN /\ unit' = IF unit = "km" THEN "mi" ELSE "km"
     /\ value' = there
     /\ IF there = Missing /\ value = Missing THEN UNCHANGED <<whole, decimal>>
        ELSE whole' = splitWhole(there) /\ decimal' = splitDecimal(there)
     /\ UNCHANGED entered

handleUnitChange ==
  LET here == combined(whole, decimal)
      there == IF here = Missing THEN Missing
               ELSE IF unit = "km" THEN toMiles(here) ELSE toKm(here)
  IN /\ unit' = IF unit = "km" THEN "mi" ELSE "km"
     /\ value' = there
     /\ IF there = Missing /\ value = Missing THEN UNCHANGED <<whole, decimal>>
        ELSE whole' = splitWhole(there) /\ decimal' = splitDecimal(there)
     /\ UNCHANGED entered

DistancePicker ==
  /\ field = "distance"
  /\ handleWholeChange \/ handleDecimalChange \/ handleUnitChange
  /\ UNCHANGED <<field, clock, dateVars>>

-----------------------------------------------------------------------------
(* Midnight passes; the form is rendered again and computes its bounds.    *)
Midnight ==
  /\ field = "date" /\ day < LastDay /\ day' = day + 1
  /\ UNCHANGED <<field, value, minDate, maxDate, dateVars, distanceVars>>

Render ==
  /\ field = "date" /\ minDate # day + Lo
  /\ minDate' = day + Lo /\ maxDate' = day + Hi
  /\ UNCHANGED <<field, value, day, dateVars, distanceVars>>

FieldInit ==
  /\ field \in {"date", "time", "distance"}
  /\ value \in CASE field = "date" -> Days \cup {Missing}
                 [] field = "time" -> Legacy \cup {Missing}
                 [] OTHER -> {Missing}
  /\ day = Today /\ minDate = Today + Lo /\ maxDate = Today + Hi
  /\ popover = FALSE /\ typed = Missing /\ typedError = FALSE /\ hadCommitError = FALSE
  /\ today = Today /\ view = "days" /\ yearPage = 0
  /\ viewDate = IF field = "date" /\ value # Missing THEN value ELSE Today
  /\ whole = Missing /\ decimal = Missing /\ unit = "km"
  /\ entered = [distance |-> Missing, unit |-> "km"]

FieldNext == DatePicker \/ TimePicker \/ DistancePicker \/ Midnight \/ Render

FieldSpec == FieldInit /\ [][FieldNext]_fieldVars

-----------------------------------------------------------------------------
(* What a field shows is what the form holds: the two texts of a distance  *)
(* denote the value, and the flag that keeps the date popover open on an   *)
(* outside click is set exactly while an error is there to be read.        *)
FieldConsistent ==
  /\ value \in Nat \cup {Missing}
  /\ field = "distance" => value = combined(whole, decimal)
  /\ field = "date" => /\ hadCommitError = typedError
                       /\ typedError => popover

(* A date picker takes no new date outside its bounds, typed or picked;    *)
(* only the Today button, which tests the day it last read, may take       *)
(* today's date after midnight.                                            *)
PickedInBounds ==
  [][field = "date" /\ value' \notin {value, Missing}
       => value' \in minDate..maxDate \/ value' = day]_fieldVars

(* Choosing in one of the lists of a time leaves the other two as they     *)
(* were shown, whatever the time was.                                      *)
AtMostOneListMoves ==
  field = "time" /\ value' # Missing =>
    \E l \in {"hour", "minute", "period"} :
      \A k \in {"hour", "minute", "period"} \ {l} : shown'[k] = shown[k]
TimeListsIndependent == [][AtMostOneListMoves]_fieldVars

(* What is chosen is taken as it may be, and nothing else changes.         *)
ChoicesRespected == PickedInBounds /\ TimeListsIndependent

(* However often the unit is switched, the distance stays within ten       *)
(* metres of the one that was typed.                                       *)
DriftBounded ==
  field = "distance" /\ value # Missing =>
    LET km(v, u) == IF u = "km" THEN v ELSE toKm(v)
    IN  km(value, unit) - km(entered.distance, entered.unit) \in -1..1
=============================================================================
