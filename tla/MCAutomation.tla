---------------------------- MODULE MCAutomation ----------------------------
(* A small instance of Automation: an hour is an instant, a day has four. *)
EXTENDS Automation

\* Runs in the hours 1 to 2, or around midnight.
Form(from, to) == [enabled |-> FALSE, interval |-> 2, tz |-> 0, from |-> from, to |-> to]
MCForms == {Form(1, 2), Form(3, 0)}
=============================================================================
