\* serve() from the command line (no shutdown event) with a
\* KeyboardInterrupt anywhere, including after the try of serve() and
\* before serve_forever() has entered its own try.  A process whose main
\* thread blocks forever has no step left.
CONSTANTS
  EventModes = {FALSE}
  InterruptPoints = {"start", "entering", "serving", "waiting"}
  MaxInterrupts = 1
SPECIFICATION Spec
PROPERTY ServerEnds
CHECK_DEADLOCK FALSE
