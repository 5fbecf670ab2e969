---------------------------- MODULE MCManualShifts ----------------------------
(* Model values for the runs of ManualShifts: the forms that are sent. *)
EXTENDS ManualShifts

CONSTANTS j1, j2, ann, bob, k1, d0, d1, d2

Two == {j1, j2}
Staff == {ann, bob}
AllKeys == {k1, d0, d1, d2}

Form(e, week, entries) == [employee |-> e, week |-> week, entries |-> entries]
E(key, from, to) == [key |-> key, from |-> from, to |-> to]

OneDay == Form(ann, TRUE, <<E(d1, 1, 2)>>)
Sent == {
  Form(ann, FALSE, <<E(k1, 0, 2)>>),
  Form(ann, FALSE, <<E(k1, 2, 3)>>),                \* the key again, edited
  Form(bob, FALSE, <<E(k1, 0, 2)>>),                \* ... and for another
  OneDay,
  Form(ann, TRUE, <<E(d0, 0, 1), E(d1, 1, 2)>>),    \* the batch, with other days
  Form(ann, TRUE, <<E(d1, 1, 2), E(d2, 2, 3)>>)}
Recorded == {OneDay}
=============================================================================
