\* serve() under the supervisor and from main(), with up to two
\* KeyboardInterrupts at any point of the main thread, and the supervisor's
\* stop at any moment; and the component links for every combination of
\* the host and path settings below.
CONSTANTS
  EventModes = {TRUE, FALSE}
  InterruptPoints = {"start", "entering", "serving", "finally", "waiting", "closing"}
  MaxInterrupts = 2
  None = None
  Hosts <- MCHosts
  RawPaths <- MCRawPaths
SPECIFICATION MCSpec
INVARIANT LinksReachServers
