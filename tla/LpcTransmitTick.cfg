CONSTANTS
  Main = main
  Heat = heat
SPECIFICATION TickSpec
INVARIANT SwitchOffIsSafe
