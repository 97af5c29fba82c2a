---------------------------- MODULE ComponentUrls ----------------------------
(***************************************************************************)
(* The links the web UI shows for the running components                   *)
(* (celery_root/components/web/components.py: component_snapshot and the   *)
(* _metrics_url, _frontend_url and _mcp_url helpers), built from the       *)
(* settings after the path validators of celery_root/config.py have run.   *)
(*                                                                         *)
(* The property is about the text of the links, so strings are sequences  *)
(* of characters over a small alphabet: "a" stands for any letter or digit *)
(* other than 0, "m" for the letters of the default paths, "h" for the      *)
(* scheme name; a port is one token.                                       *)
(***************************************************************************)
EXTENDS Naturals, Sequences, SequencesExt

CONSTANTS
  Hosts,     \* host settings a server can bind
  RawPaths,  \* path settings as given, before validation
  None       \* an unset section of the settings

Any4 == <<"0", ".", "0", ".", "0", ".", "0">>   \* "0.0.0.0"
Any6 == <<":", ":">>                             \* "::"
Loopback == <<"a", ".", "0", ".", "0", ".", "a">> \* "127.0.0.1"
Http == <<"h", ":", "/", "/">>                   \* "http://"
DefaultMetricsPath == <<"/", "m">>               \* "/metrics"
DefaultMcpPath == <<"/", "m", "/">>              \* "/mcp/"

StartsWith(s, ch) == s # <<>> /\ s[1] = ch
(* str.strip(): leading and trailing whitespace removed. *)
Strip(s) ==
  LET keep == {i \in 1..Len(s) : s[i] # " "}
  IN IF keep = {} THEN <<>> ELSE SubSeq(s, Min(keep), Max(keep))
(* str.rstrip("/"). *)
RStripSlash(s) ==
  LET keep == {i \in 1..Len(s) : s[i] # "/"}
  IN IF keep = {} THEN <<>> ELSE SubSeq(s, 1, Max(keep))

(* PrometheusConfig._normalize_path. *)
PromNormalizePath(v) ==
  CASE v = <<>>          -> DefaultMetricsPath
    [] StartsWith(v, "/") -> v
    [] OTHER             -> <<"/">> \o v
(* McpConfig._normalize_path. *)
McpNormalizePath(v) ==
  LET c == Strip(v)
  IN CASE c = <<>>          -> DefaultMcpPath
       [] StartsWith(c, "/") -> c
       [] OTHER             -> <<"/">> \o c

(* The host step of the helpers without the brackets for IPv6 literals. *)
BracketHostNoBracket(h) == IF h \in {Any4, Any6} THEN Loopback ELSE h
(* The host step shared by the helpers: a wildcard address becomes the    *)
(* loopback address, and a host with a colon not yet in brackets is put   *)
(* in brackets.                                                            *)
BracketHost(h) ==
  LET h1 == IF h \in {Any4, Any6} THEN Loopback ELSE h
  IN IF Contains(h1, ":") /\ ~StartsWith(h1, "[") THEN <<"[">> \o h1 \o <<"]">> ELSE h1

(* _metrics_url: the frontend's host (loopback without a frontend), the    *)
(* Prometheus port and path.                                               *)
MetricsUrl(fe, pr) ==
  LET host == BracketHost(IF fe # None THEN fe.host ELSE Loopback)
  IN Http \o host \o <<":", pr.port>> \o pr.path

(* _frontend_url. *)
FrontendUrl(fe) == Http \o BracketHost(fe.host) \o <<":", fe.port, "/">>

(* _mcp_url: the path, "/mcp/" when empty, with a leading slash and       *)
(* exactly one trailing slash.                                             *)
McpUrl(mc) ==
  LET p0 == IF mc.path = <<>> THEN DefaultMcpPath ELSE mc.path
      p1 == IF StartsWith(p0, "/") THEN p0 ELSE <<"/">> \o p0
  IN Http \o BracketHost(mc.host) \o <<":", mc.port>> \o RStripSlash(p1) \o <<"/">>

NoUrl == <<>>
(* component_snapshot: whether each component is configured, and the link *)
(* shown for those that have one (the settings it lists beside them are   *)
(* display only and left out).                                             *)
ComponentSnapshot(cfg) ==
  [prometheus |-> [enabled |-> cfg.prometheus # None,
                   url |-> IF cfg.prometheus # None THEN MetricsUrl(cfg.frontend, cfg.prometheus)
                           ELSE NoUrl],
   open_telemetry |-> [enabled |-> cfg.open_telemetry # None, url |-> NoUrl],
   beat       |-> [enabled |-> cfg.beat # None, url |-> NoUrl],
   frontend   |-> [enabled |-> cfg.frontend # None,
                   url |-> IF cfg.frontend # None THEN FrontendUrl(cfg.frontend) ELSE NoUrl],
   mcp        |-> [enabled |-> cfg.mcp # None,
                   url |-> IF cfg.mcp # None THEN McpUrl(cfg.mcp) ELSE NoUrl]]

(* Settings as pydantic builds them: the validators applied to the raw    *)
(* paths.  Ports are the defaults, one token each.                         *)
Frontends == {None} \cup [host : Hosts, port : {"P5555"}]
Proms == {None} \cup {[port |-> "P8001", path |-> PromNormalizePath(p)] : p \in RawPaths}
Mcps == {None} \cup {[host |-> h, port |-> "P5557", path |-> McpNormalizePath(p)] :
                       h \in Hosts, p \in RawPaths}
Configs == [frontend : Frontends, prometheus : Proms, mcp : Mcps,
            open_telemetry : {None, "set"}, beat : {None, "set"}]

-----------------------------------------------------------------------------
(* Reference: how urllib.parse splits "http://" authority path: the       *)
(* authority runs to the first "/"; a bracketed host runs to "]", else the *)
(* host runs to the first ":"; the port follows the ":".                   *)
ParseUrl(u) ==
  LET rest == SubSeq(u, Len(Http) + 1, Len(u))
      slashes == {i \in 1..Len(rest) : rest[i] = "/"}
      aEnd == IF slashes = {} THEN Len(rest) ELSE Min(slashes) - 1
      auth == SubSeq(rest, 1, aEnd)
      colons == {i \in 1..Len(auth) : auth[i] = ":"}
      close == {i \in 1..Len(auth) : auth[i] = "]"}
      hEnd == IF StartsWith(auth, "[") /\ close # {} THEN Min(close)
              ELSE IF colons = {} THEN Len(auth) ELSE Min(colons) - 1
      host == IF StartsWith(auth, "[") /\ close # {} THEN SubSeq(auth, 2, hEnd - 1)
              ELSE SubSeq(auth, 1, hEnd)
  IN [host |-> host,
      port |-> IF hEnd + 2 = Len(auth) /\ auth[hEnd + 1] = ":" THEN auth[hEnd + 2] ELSE "none",
      path |-> SubSeq(rest, aEnd + 1, Len(rest))]

(* The address a client reaches for a configured host: the host without   *)
(* brackets, the loopback address for a wildcard.                          *)
ClientHost(h) ==
  LET u == IF StartsWith(h, "[") THEN SubSeq(h, 2, Len(h) - 1) ELSE h
  IN IF u \in {Any4, Any6} THEN Loopback ELSE u

(* For configuration cfg, the UI links exactly the configured components, *)
(* and each link, as urllib parses it, reaches the server:    *)
(* a host a client can connect to for the configured one (never a          *)
(* wildcard, an IPv6 literal not cut at its first colon), the configured  *)
(* port, and the configured path (for MCP: the configured path with its    *)
(* trailing slashes replaced by exactly one).                              *)
SnapshotLinksReachServers(cfg) ==
    LET s == ComponentSnapshot(cfg)
        fe == cfg.frontend
    IN /\ \A k \in {"prometheus", "frontend", "mcp"} :
            s[k].enabled <=> s[k].url # NoUrl
       /\ \A k \in {"open_telemetry", "beat"} : s[k].enabled <=> cfg[k] # None
       /\ cfg.prometheus # None =>
            ParseUrl(s.prometheus.url) =
              [host |-> ClientHost(IF fe # None THEN fe.host ELSE Loopback),
               port |-> cfg.prometheus.port, path |-> cfg.prometheus.path]
       /\ fe # None =>
            ParseUrl(s.frontend.url) = [host |-> ClientHost(fe.host), port |-> fe.port,
                                        path |-> <<"/">>]
       /\ cfg.mcp # None =>
            LET u == ParseUrl(s.mcp.url)
            IN /\ u.host = ClientHost(cfg.mcp.host) /\ u.port = cfg.mcp.port
               /\ u.path = RStripSlash(cfg.mcp.path) \o <<"/">>
=============================================================================
