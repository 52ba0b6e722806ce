----------------------------- MODULE MCLogging -----------------------------
(***************************************************************************)
(* TLC instance of logging: AsyncLogging with its LogFile, and the         *)
(* calendar that gives log lines and file names their times.  A behaviour  *)
(* runs one of them, which the initial state chooses.                      *)
(***************************************************************************)
EXTENDS AsyncLogging, Calendar

VARIABLE system

\* Two leap-year centuries apart, the century that is none, and the years around 1970.
StartYears == {1899, 1969, 1999, 2099, 2399}

\* Zones west and east of Greenwich with one daylight saving season in the walk's days, one
\* that ends with a season already begun, and one without transitions.
Local(offset, dst) == [gmtOffset |-> offset, isDst |-> dst]
ZoneFiles ==
    {[localtimes |-> <<Local(-18000, FALSE), Local(-14400, TRUE)>>,
      trans |-> <<108000, 324000>>, idx |-> <<2, 1>>],
     [localtimes |-> <<Local(3600, FALSE), Local(7200, TRUE)>>,
      trans |-> <<90000, 262800, 349200>>, idx |-> <<2, 1, 2>>],
     [localtimes |-> <<Local(28800, FALSE)>>, trans |-> <<>>, idx |-> <<>>]}

Init ==
    /\ system \in {"AsyncLogging", "Calendar"}
    /\ LogStart
    /\ IF system = "Calendar" THEN CalendarStart ELSE calendar = [walk |-> "none"]

Next ==
    \/ system = "AsyncLogging" /\ LogNext /\ UNCHANGED <<system, calendar>>
    \/ system = "Calendar" /\ CalendarNext /\ UNCHANGED <<system, log>>

Spec == Init /\ [][Next]_<<system, log, calendar>> /\ LogFairness
=============================================================================
