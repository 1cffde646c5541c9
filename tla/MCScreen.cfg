SPECIFICATION ScreenSpec
INVARIANT NoMandateIsTrue
CHECK_DEADLOCK FALSE
