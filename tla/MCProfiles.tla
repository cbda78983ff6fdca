----------------------------- MODULE MCProfiles ------------------------------
\* Its run checks liveness, under which no symmetry set is sound.
EXTENDS Profiles, TLC

CONSTANTS e1, e2

\* More than a day apart; one of them comes with a volume.
Timestamps == e1 :> 0 @@ e2 :> 30
Volumes == e1 :> 5 @@ e2 :> Null
HourDayWeek == <<1, 24, 168>>
==============================================================================
