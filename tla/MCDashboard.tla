----------------------------- MODULE MCDashboard -----------------------------
(***************************************************************************)
(* One bounded period and "all", two pages of the event list, two sets of  *)
(* credentials.  Another filter would be told apart just as a page is.     *)
(***************************************************************************)
EXTENDS Dashboard

CONSTANTS old, new

TwoPeriods == {"24h", "all"}
OneFilter  == {"any"}
TwoKeys    == {old, new}
=============================================================================
