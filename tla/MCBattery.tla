------------------------------ MODULE MCBattery ------------------------------
\* BatteryCheck with a critical level of 2, a low one of 5 and an overcharge
\* level of 9, a margin of 2, and a voltage on each side of every line they draw.
EXTENDS BatteryCheck

SiteLevels  == [low |-> 0, critical |-> 2, over |-> 9]
ScopeLevels == [low |-> 5, critical |-> 1]

Following == [low |-> 0, critical |-> 0, overOn |-> FALSE, over |-> 0]
Topped    == [Following EXCEPT !.overOn = TRUE]

FollowingOrTopped == {Following, Topped}

Told  == [muted |-> FALSE, notifyRecovery |-> TRUE]
Muted == [muted |-> TRUE, notifyRecovery |-> TRUE]

ToldOrMuted == {Told, Muted}

===============================================================================
