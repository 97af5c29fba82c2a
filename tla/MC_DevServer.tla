---------------------------- MODULE MC_DevServer ----------------------------
(***************************************************************************)
(* The development web server of a process together with the component    *)
(* links its pages render from that process's settings.  The settings are  *)
(* read once for the process and do not change while it serves; they      *)
(* range over a wildcard bind (0.0.0.0, ::), a name, an unbracketed IPv6   *)
(* literal and a bracketed one, and paths that are empty, blank,           *)
(* slash-only, relative or absolute.                                       *)
(***************************************************************************)
EXTENDS DevServer, ComponentUrls

MCHosts == {<<"a">>, Any4, Any6, <<":", ":", "a">>, <<"[", ":", ":", "a", "]">>}
MCRawPaths == {<<>>, <<" ">>, <<"/">>, <<"a">>, <<"a", "/">>, <<" ", "a">>}

VARIABLE settings

mcVars == <<vars, settings>>

MCInit == Init /\ settings \in Configs

MCNext == Next /\ UNCHANGED settings

MCSpec == MCInit /\ [][MCNext]_mcVars /\ WF_vars(MainStep) /\ WF_vars(WatcherStep)
                                       /\ WF_vars(SupStep)

(* Whatever the settings, every link the components page of the running   *)
(* server shows reaches the server it names (see SnapshotLinksReachServers *)
(* of ComponentUrls, which this states for the process's settings).        *)
LinksReachServers == SnapshotLinksReachServers(settings)
=============================================================================
