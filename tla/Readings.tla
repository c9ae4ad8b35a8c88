------------------------------ MODULE Readings ------------------------------
(***************************************************************************)
(* process_data of main.cpp: the values of a poll become the columns of a  *)
(* CSV row and of its header.  A value is a raw integer and the number it  *)
(* is to be divided by.                                                    *)
(***************************************************************************)
EXTENDS Integers, Sequences

Column(name, heading, limited) ==
  [name |-> name, heading |-> heading, limited |-> limited]

\* The columns behind the time stamp.  Voltages and currents are limited.  The
\* powers and the maximum powers of the single AC lines have no column.
Columns ==
  << Column("power_ac", "AC Power", FALSE),
     Column("yield_total", "Yield", FALSE),
     Column("power_dc_1", "DC Power 1", FALSE),
     Column("power_dc_2", "DC Power 2", FALSE),
     Column("voltage_dc_1", "DC Voltage 1", TRUE),
     Column("voltage_dc_2", "DC Voltage 2", TRUE),
     Column("voltage_ac_l1", "AC Voltage 1", TRUE),
     Column("voltage_ac_l2", "AC Voltage 2", TRUE),
     Column("voltage_ac_l3", "AC Voltage 3", TRUE),
     Column("current_ac_l1", "AC Current 1", TRUE),
     Column("current_ac_l2", "AC Current 2", TRUE),
     Column("current_ac_l3", "AC Current 3", TRUE) >>

\* A bug: the limit that the comment in process_data names.
LimitOfComment == 167772

Limit == 16700

\* What a column shows of a value: the whole value, or 0 if it is a voltage or
\* a current above the limit.
Shown(column, v) ==
  IF column.limited /\ v.raw > Limit * v.scale THEN 0 ELSE v.raw

\* The values that the loop of process_data has found for a column behind the
\* first n of the poll.
Of(column, data_vector) ==
  LET found[n \in 0 .. Len(data_vector)] ==
        IF n = 0 THEN <<>>
        ELSE IF data_vector[n].name = column.name THEN Append(found[n - 1], data_vector[n])
        ELSE found[n - 1]
  IN  found[Len(data_vector)]

\* A bug: a value that is shown as 0 leaves the heading blank.
HeadingUnlessZero(column, data_vector) ==
  IF \E i \in DOMAIN Of(column, data_vector) :
       Shown(column, Of(column, data_vector)[i]) # 0
    THEN column.heading ELSE ""

\* The heading is set by the first value, and set to the same by any other.
Heading(column, data_vector) ==
  IF Of(column, data_vector) = <<>> THEN "" ELSE column.heading

\* All values of a name go through the same stream: they are written one
\* behind the other.
Cell(column, data_vector) ==
  LET values == Of(column, data_vector)
  IN  [i \in DOMAIN values |-> Shown(column, values[i])]

\* Without a single value both texts stay empty.
Header(data_vector) ==
  IF data_vector = <<>> THEN <<>>
  ELSE [c \in DOMAIN Columns |-> Heading(Columns[c], data_vector)]

Line(data_vector) ==
  IF data_vector = <<>> THEN <<>>
  ELSE [c \in DOMAIN Columns |-> Cell(Columns[c], data_vector)]

=============================================================================
