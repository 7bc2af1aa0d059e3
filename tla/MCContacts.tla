----------------------------- MODULE MCContacts -----------------------------
(* Contacts for TLC: a calendar of short months, days, hours and minutes.  *)
EXTENDS Contacts

MCDom == <<1, 2, 1, 2, 3, 1, 2, 1, 2, 3, 1, 2, 1, 2, 3>>
MCMonth == <<1, 1, 2, 2, 2, 1, 1, 2, 2, 2, 1, 1, 2, 2, 2>>
MCStarts == {0, 13}

Every(n) == {Item("all", 0, 0, n)}
Seconds == [second |-> All, minute |-> Just(1), hour |-> {Item("range", 0, 1, 2)},
            dom |-> {Item("range", 1, 2, 0), Item("value", 3, 3, 0)}, month |-> Just(2), dow |-> {Item("range", 2, 3, 0)}]
MCSchedules ==
  <<Recurring(Shortcut("yearly")), Recurring(Shortcut("weekly")),
    Recurring(Shortcut("hourly")),
    Recurring([Shortcut("hourly") EXCEPT !.minute = Every(2)]),
    Recurring([Shortcut("daily") EXCEPT !.dom = Just(3), !.dow = Just(1)]),
    Recurring(Seconds), Recurring([Seconds EXCEPT !.dom = {Item("value", 2, 2, 1)}, !.dow = All]),
    Recurring([Seconds EXCEPT !.hour = {Item("range", 1, 0, 0)}, !.dow = {Item("bad", 0, 0, 0)}]),
    Recurring([Shortcut("hourly") EXCEPT !.minute = {Item("value", 1, 1, 7)}]),
    OneShot(5)>>
=============================================================================
